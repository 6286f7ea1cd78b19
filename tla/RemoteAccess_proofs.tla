------------------------ MODULE RemoteAccess_proofs ------------------------
(***************************************************************************)
(* Proofs about RemoteAccess: its types, that no socket is leaked, that a  *)
(* locked vault has no grant, that the audit log and the counters tell the *)
(* truth, and that the holder implements GrantPromise.                     *)
(***************************************************************************)
EXTENDS RemoteAccess, SequenceTheorems, FiniteSetTheorems, TLAPS

\* Where a call of Toggle stands decides what its socket and its outcome are.
CallShape ==
  \A t \in Toggles :
    /\ t > gen => thr[t].pc = "idle"
    /\ thr[t].pc \in {"idle", "called", "open", "revoke"} => srv[t] = "none"
    /\ thr[t].pc = "opened" => srv[t] = "open"
    /\ thr[t].pc \in {"idle", "called", "open", "opened", "revoke"} <=> thr[t].out = "none"

\* The current grant is open and was published by its own call.
GrantShape ==
  grant # 0 => srv[grant] = "open" /\ thr[grant].out \in {"granted", "replaced"}

Closing(t) == thr[t].pc \in {"close", "closing"}

\* A call that closes a grant is the only one to, and the grant is not current.
CloserShape ==
  \A t \in Threads : Closing(t) =>
    /\ thr[t].target \in Toggles \ {grant}
    /\ thr[t].pc = "close" => srv[thr[t].target] = "open"
    /\ thr[t].pc = "closing" => srv[thr[t].target] \in {"flagged", "cancelled"}
    /\ thr[t].target = t \/ thr[thr[t].target].out \in {"granted", "replaced"}
    /\ \A u \in Threads : Closing(u) /\ thr[u].target = thr[t].target => u = t

\* A request that is not overtaken found the grant that is still the current one.
EpochShape ==
  \A t \in Toggles : thr[t].pc \in {"open", "opened"} =>
    /\ thr[t].epoch <= epoch
    /\ thr[t].epoch = epoch => thr[t].target = grant

\* Every socket that stands has an owner.
OwnerShape ==
  \A g \in Toggles : srv[g] \in Standing =>
    g = grant \/ thr[g].pc = "opened" \/ \E t \in Threads : Closing(t) /\ thr[t].target = g

\* What the UI waits for, and why it never disturbs a revocation of its own.
WaitShape ==
  /\ ui.wait = {} \/ \E t \in Threads : ui.wait = {t}
  /\ ui.wait # {0} => thr[0].pc = "idle" /\ ui.next = ui.mode
  /\ ui.wait = {0} => ui.mode # "attached" /\ ui.next # "attached"
  /\ ui.mode = "locked" => ui.next = "locked" /\ ui.wait \subseteq {0}
  /\ thr[0].pc \notin {"called", "open", "opened"}
  /\ \A t \in Toggles : thr[t].pc = "called" => ui.wait = {t}

\* Once the lock's Revoke has passed, everything asked before it is overtaken.
LockShape ==
  \/ ui.mode = "locked"
  \/ ui.wait = {0} /\ ui.next = "locked" /\ thr[0].pc \in {"close", "closing", "done"}
  => /\ grant = 0
     /\ \A t \in Toggles : thr[t].pc \in {"open", "opened"} => thr[t].epoch # epoch

Shapes ==
  CallShape /\ GrantShape /\ CloserShape /\ EpochShape /\ OwnerShape /\ WaitShape /\ LockShape
IInv == TypeOK /\ Shapes

-----------------------------------------------------------------------------
(* Types *)

\* Recording an event keeps the log a sequence of rows within its cap (record).
LEMMA FoldType ==
  ASSUME TypeOK, NEW k \in Key, NEW fin \in BOOLEAN, NEW ref \in BOOLEAN
  PROVE  Fold(k, fin, ref) \in Seq(Row) /\ Len(Fold(k, fin, ref)) <= LogMax
<1> DEFINE row == [key |-> k, host |-> HostOf(k.g), finished |-> fin, refused |-> ref]
<1> USE LimitsAssumption
<1>1. CASE \E i \in DOMAIN log : log[i].key = k
  <2> DEFINE new == [i \in DOMAIN log |->
         IF log[i].key = k THEN [log[i] EXCEPT !.finished = fin, !.refused = ref]
         ELSE log[i]]
  <2>1. DOMAIN log = 1..Len(log) /\ \A i \in 1..Len(log) : log[i] \in Row
    BY DEF TypeOK
  <2>2. \A i \in 1..Len(log) : new[i] \in Row
    BY <2>1 DEF Row
  <2>3. new \in [1..Len(log) -> Row]
    BY <2>1, <2>2
  <2> HIDE DEF new
  <2>7. Len(log) \in Nat
    BY DEF TypeOK
  <2>8. new \in UNION {[1..n -> Row] : n \in Nat}
    BY <2>3, <2>7
  <2>4. Len(log) \in Nat /\ new \in Seq(Row)
    BY <2>7, <2>8, SeqDef
  <2>5. Len(new) \in Nat /\ DOMAIN new = 1..Len(new) /\ DOMAIN new = 1..Len(log)
    BY <2>3, <2>4, LenProperties
  <2>6. Len(new) = Len(log)
    BY <2>4, <2>5
  <2> QED BY <1>1, <2>4, <2>6 DEF Fold, TypeOK, new
<1>2. CASE ~ \E i \in DOMAIN log : log[i].key = k
  <2>1. row \in Row
    BY DEF TypeOK, Row, Key, Thread, HostOf, Toggles, Threads
  <2> HIDE DEF row
  <2>2. <<row>> \o log \in Seq(Row) /\ Len(<<row>> \o log) = Len(log) + 1
    BY <2>1 DEF TypeOK
  <2>3. PICK n \in Nat : /\ n = IF Len(log) < LogMax THEN Len(log) + 1 ELSE LogMax
                         /\ n <= LogMax /\ n <= Len(log) + 1
    BY DEF TypeOK
  <2>4. SubSeq(<<row>> \o log, 1, n) \in Seq(Row) /\ Len(SubSeq(<<row>> \o log, 1, n)) = n
    BY <2>2, <2>3
  <2> QED BY <1>2, <2>3, <2>4 DEF Fold, row
<1> QED BY <1>1, <1>2

LEMMA TypeInit == Init => TypeOK
BY BoundsAssumption, LimitsAssumption, HostsAssumption
   DEF Init, TypeOK, Threads, Toggles, Thread, PC, Outcome, ServerState, Command, NoCommand, Row

LEMMA TypeStep == TypeOK /\ [Next]_vars => TypeOK'
<1> SUFFICES ASSUME TypeOK, [Next]_vars PROVE TypeOK'
  OBVIOUS
<1> USE BoundsAssumption, LimitsAssumption
<1>a. Toggles \subseteq Threads /\ 0 \in Threads
  BY DEF Toggles, Threads
<1>b. /\ thr \in [Threads -> Thread] /\ cmd \in [Cmds -> Command] /\ grant \in 0..MaxToggles
      /\ epoch \in Nat /\ srv \in [Toggles -> ServerState]
      /\ ui \in [mode : {"dash", "attached", "locked"}, at : SUBSET HostIds,
                 wait : SUBSET Threads, next : {"dash", "attached", "locked"}]
  BY DEF TypeOK
<1>c. ASSUME NEW t \in Threads, NEW pc \in PC PROVE [thr[t] EXCEPT !.pc = pc] \in Thread
  BY <1>b DEF Thread
<1>0. CASE UNCHANGED vars
  BY <1>0 DEF vars, TypeOK
<1>1. ASSUME NEW t \in Toggles, Enter(t) PROVE TypeOK'
  <2>1. [pc |-> IF grant # 0 /\ HostOf(grant) = HostOf(t) THEN "revoke" ELSE "open",
         host |-> thr[t].host, epoch |-> epoch, target |-> grant, out |-> "none"] \in Thread
    BY <1>a, <1>b DEF Thread, PC, Outcome
  <2>2. thr' \in [Threads -> Thread]
    BY <1>1, <1>a, <1>b, <2>1 DEF Enter
  <2> QED BY <1>1, <2>2 DEF Enter, TypeOK, holder, commands, sessions
<1>2. ASSUME NEW t \in Toggles, OpenDone(t) PROVE TypeOK'
  <2>1. thr' \in [Threads -> Thread]
    BY <1>2, <1>a, <1>b, <1>c DEF OpenDone, PC
  <2> QED BY <1>2, <2>1 DEF OpenDone, TypeOK, ServerState, holder, commands, sessions
<1>d. ASSUME NEW t \in Threads, NEW pc \in PC, NEW g \in 0..MaxToggles, NEW out \in Outcome,
             Settle(t, pc, g, out)
      PROVE  thr' \in [Threads -> Thread]
  BY <1>b, <1>d DEF Settle, Thread
<1>3. ASSUME NEW t \in Toggles, OpenFails(t) PROVE TypeOK'
  <2>1. thr' \in [Threads -> Thread]
    BY <1>3, <1>a, <1>d DEF OpenFails, PC, Outcome
  <2> QED BY <1>3, <2>1 DEF OpenFails, TypeOK, holder, commands, sessions
<1>4. ASSUME NEW t \in Toggles, Publish(t) PROVE TypeOK'
  <2>1. thr[t].target \in 0..MaxToggles
    BY <1>a, <1>b DEF Thread
  <2>2. thr' \in [Threads -> Thread]
    BY <1>4, <1>a, <1>d, <2>1 DEF Publish, PC, Outcome
  <2>3. grant' \in 0..MaxToggles /\ epoch' \in Nat
    BY <1>4, <1>b DEF Publish, Toggles
  <2>4. UNCHANGED <<gen, srv, expired, commands, sessions, ui, locks>>
    BY <1>4 DEF Publish
  <2> QED BY <2>2, <2>3, <2>4 DEF TypeOK, commands, sessions
<1>5. ASSUME NEW t \in Toggles, Supersede(t) PROVE TypeOK'
  <2>1. thr' \in [Threads -> Thread]
    BY <1>5, <1>a, <1>d DEF Supersede, PC, Outcome, Toggles
  <2> QED BY <1>5, <2>1 DEF Supersede, TypeOK, holder, commands, sessions
<1>6. ASSUME NEW t \in Threads, Revoke(t) PROVE TypeOK'
  <2>1. thr' \in [Threads -> Thread]
    BY <1>6, <1>b, <1>d DEF Revoke, PC, Outcome
  <2> QED BY <1>6, <2>1 DEF Revoke, TypeOK, commands, sessions
<1>7. ASSUME NEW t \in Threads, CloseStep(t) PROVE TypeOK'
  <2>1. CASE SetClosed(t)
    <3>1. thr' \in [Threads -> Thread]
      BY <2>1, <1>b, <1>c DEF SetClosed, PC
    <3> QED BY <2>1, <3>1 DEF SetClosed, TypeOK, ServerState, holder, commands, sessions
  <2>2. CASE Cancel(t)
    BY <2>2 DEF Cancel, TypeOK, ServerState, holder, commands, sessions
  <2>3. CASE Unlinked(t)
    <3>1. thr[t].out \in Outcome
      BY <1>b DEF Thread
    <3>2. thr' \in [Threads -> Thread]
      BY <2>3, <1>d, <3>1 DEF Unlinked, PC
    <3> QED BY <2>3, <3>2 DEF Unlinked, TypeOK, ServerState, holder, commands, sessions
  <2> QED BY <1>7, <2>1, <2>2, <2>3 DEF CloseStep
<1>8. ASSUME NEW t \in Toggles, Expire(t) PROVE TypeOK'
  BY <1>8 DEF Expire, TypeOK, holder, commands, sessions
<1>9. ASSUME NEW c \in Cmds, NEW g \in Toggles, Ask(c, g) PROVE TypeOK'
  <2>1. [st |-> "asked", g |-> g, id |-> 0] \in Command
    BY DEF Command, Stage
  <2>2. cmd' \in [Cmds -> Command]
    BY <1>9, <1>b, <2>1 DEF Ask
  <2> QED BY <1>9, <2>2 DEF Ask, TypeOK, holder, sessions
<1>e. ASSUME NEW c \in Cmds, NEW st \in Stage \ {"none"}, cmd[c].st # "none"
      PROVE  /\ cmd[c].g \in Toggles /\ cmd[c].id \in Nat
             /\ [cmd[c] EXCEPT !.st = st] \in Command
             /\ KeyOf(c) \in Key
  <2>1. cmd[c] \in [st : Stage \ {"none"}, g : Toggles, id : Nat]
    BY <1>b, <1>e DEF Command, NoCommand
  <2> QED BY <2>1 DEF Command, KeyOf, Key
<1>10. ASSUME NEW c \in Cmds, RunStep(c) PROVE TypeOK'
  <2> DEFINE g == cmd[c].g
  <2>1. seq \in [Toggles -> Nat] /\ inFlight \in [Toggles -> Int] /\ count \in [Toggles -> Int]
    BY DEF TypeOK
  <2>2. ASSUME NEW st \in {"refused", "admitted"}, g \in Toggles
        PROVE  /\ [st |-> st, g |-> g, id |-> seq[g] + 1] \in Command
               /\ [g |-> g, id |-> seq[g] + 1] \in Key
    BY <2>1, <2>2 DEF Command, Stage, Key
  <2>3. CASE Refuse(c)
    <3>1. g \in Toggles
      BY <2>3, <1>e DEF Refuse, Stage
    <3>2. cmd' \in [Cmds -> Command] /\ seq' \in [Toggles -> Nat]
      BY <2>3, <1>b, <2>1, <2>2, <3>1 DEF Refuse
    <3>3. log' \in Seq(Row) /\ Len(log') <= LogMax
      BY <2>3, <2>2, <3>1, FoldType DEF Refuse
    <3> QED BY <2>3, <3>2, <3>3 DEF Refuse, TypeOK, holder, sessions
  <2>4. CASE Admit(c)
    <3>1. g \in Toggles
      BY <2>4, <1>e DEF Admit, Stage
    <3>2. cmd' \in [Cmds -> Command] /\ seq' \in [Toggles -> Nat]
      BY <2>4, <1>b, <2>1, <2>2, <3>1 DEF Admit
    <3>3. inFlight' \in [Toggles -> Int] /\ count' \in [Toggles -> Int]
      BY <2>4, <2>1, <3>1 DEF Admit
    <3> QED BY <2>4, <3>2, <3>3 DEF Admit, TypeOK, holder, sessions
  <2>5. CASE Dispatch(c)
    <3>1. g \in Toggles /\ KeyOf(c) \in Key
      BY <2>5, <1>e DEF Dispatch, Stage
    <3>a. [cmd[c] EXCEPT !.st = "checked"] \in Command /\ [cmd[c] EXCEPT !.st = "refused"] \in Command
      BY <2>5, <1>e DEF Dispatch, Stage
    <3>2. cmd' \in [Cmds -> Command]
      BY <2>5, <1>b, <3>a DEF Dispatch
    <3>b. CASE srv[g] \in Accepting
      <4>1. inFlight' = inFlight /\ count' = count /\ log' = log
        BY <2>5, <3>b DEF Dispatch
      <4> QED BY <2>5, <3>2, <4>1 DEF Dispatch, TypeOK, holder, sessions
    <3>c. CASE srv[g] \notin Accepting
      <4>1. /\ count' = [count EXCEPT ![g] = @ - 1]
            /\ inFlight' = [inFlight EXCEPT ![g] = @ - 1]
            /\ log' = Fold(KeyOf(c), TRUE, TRUE)
        BY <2>5, <3>c DEF Dispatch
      <4>2. inFlight' \in [Toggles -> Int] /\ count' \in [Toggles -> Int]
        BY <4>1, <2>1, <3>1
      <4>3. log' \in Seq(Row) /\ Len(log') <= LogMax
        BY <4>1, <3>1, FoldType
      <4> QED BY <2>5, <3>2, <4>2, <4>3 DEF Dispatch, TypeOK, holder, sessions
    <3> QED BY <3>b, <3>c
  <2>6. CASE Start(c)
    <3>1. cmd' \in [Cmds -> Command] /\ KeyOf(c) \in Key
      BY <2>6, <1>b, <1>e DEF Start, Stage
    <3>2. log' \in Seq(Row) /\ Len(log') <= LogMax
      BY <2>6, <3>1, FoldType DEF Start
    <3> QED BY <2>6, <3>1, <3>2 DEF Start, TypeOK, holder, sessions
  <2>7. CASE Finish(c)
    <3>1. cmd' \in [Cmds -> Command] /\ KeyOf(c) \in Key /\ g \in Toggles
      BY <2>7, <1>b, <1>e DEF Finish, Stage
    <3>2. log' \in Seq(Row) /\ Len(log') <= LogMax
      BY <2>7, <3>1, FoldType DEF Finish
    <3>3. inFlight' \in [Toggles -> Int]
      BY <2>7, <2>1, <3>1 DEF Finish
    <3> QED BY <2>7, <3>1, <3>2, <3>3 DEF Finish, TypeOK, holder, sessions
  <2> QED BY <1>10, <2>3, <2>4, <2>5, <2>6, <2>7 DEF RunStep
<1>f. ASSUME NEW m \in {"dash", "attached", "locked"}, UIRevokes(m)
      PROVE  /\ thr' \in [Threads -> Thread]
             /\ ui' \in [mode : {"dash", "attached", "locked"}, at : SUBSET HostIds,
                         wait : SUBSET Threads, next : {"dash", "attached", "locked"}]
  BY <1>f, <1>a, <1>b, <1>c DEF UIRevokes, PC
<1>g. ASSUME NEW h \in HostIds, Call(h)
      PROVE  thr' \in [Threads -> Thread] /\ gen' \in 0..MaxToggles /\ gen + 1 \in Threads
  <2>1. gen \in 0..MaxToggles /\ gen + 1 \in Threads /\ gen + 1 \in 0..MaxToggles
    BY <1>g DEF Call, Threads, TypeOK
  <2>2. [[thr[gen + 1] EXCEPT !.pc = "called"] EXCEPT !.host = h] \in Thread
    BY <1>b, <2>1 DEF Thread, PC
  <2> QED BY <1>g, <1>b, <2>1, <2>2 DEF Call
<1>h. ui.mode \in {"dash", "attached", "locked"}
  BY <1>b
<1>11. CASE RevokeKey
  BY <1>11, <1>f DEF RevokeKey, TypeOK, holder, commands, sessions
<1>12. ASSUME NEW h \in HostIds, GrantKey(h) PROVE TypeOK'
  BY <1>12, <1>g DEF GrantKey, Call, TypeOK, commands, sessions
<1>13. CASE Lock
  BY <1>13, <1>f DEF Lock, TypeOK, holder, commands, sessions
<1>14. CASE Unlock
  BY <1>14 DEF Unlock, TypeOK, holder, commands, sessions
<1>15. CASE Tick
  BY <1>15, <1>f, <1>h DEF Tick, TypeOK, holder, commands, sessions
<1>16. ASSUME NEW h \in HostIds, SessionEnds(h) PROVE TypeOK'
  BY <1>16 DEF SessionEnds, TypeOK, holder, commands
<1>17. ASSUME NEW h \in HostIds, HandleSessionEnded(h) PROVE TypeOK'
  <2>1. thr' \in [Threads -> Thread]
        /\ ui' \in [mode : {"dash", "attached", "locked"}, at : SUBSET HostIds,
                    wait : SUBSET Threads, next : {"dash", "attached", "locked"}]
    BY <1>17, <1>b, <1>f, <1>h DEF HandleSessionEnded
  <2> QED BY <1>17, <2>1 DEF HandleSessionEnded, TypeOK, holder, commands
<1>18. ASSUME NEW h \in HostIds, Attach(h) PROVE TypeOK'
  BY <1>18 DEF Attach, TypeOK, holder, commands, sessions
<1>19. CASE Detach
  BY <1>19 DEF Detach, TypeOK, holder, commands, sessions
<1>20. CASE HotKey
  BY <1>20, <1>b, <1>g DEF HotKey, Call, TypeOK, commands, sessions
<1>21. CASE Return
  <2>1. PICK t \in ui.wait : thr' = IF t = 0 THEN [thr EXCEPT ![0].pc = "idle"] ELSE thr
    BY <1>21 DEF Return
  <2>2. thr' \in [Threads -> Thread]
    <3>1. CASE t = 0
      <4>1. 0 \in Threads /\ thr[0] \in Thread
        BY <1>b DEF Threads, BoundsAssumption
      <4>2. [thr[0] EXCEPT !.pc = "idle"] \in Thread
        BY <4>1 DEF Thread, PC
      <4> QED BY <2>1, <3>1, <4>1, <4>2, <1>b
    <3> QED BY <2>1, <3>1, <1>b
  <2>3. ui' \in [mode : {"dash", "attached", "locked"}, at : SUBSET HostIds,
                 wait : SUBSET Threads, next : {"dash", "attached", "locked"}]
    BY <1>21, <1>b DEF Return
  <2> QED BY <1>21, <2>2, <2>3 DEF Return, TypeOK, holder, commands, sessions
<1>22. CASE Abandon
  BY <1>22 DEF Abandon, TypeOK, holder, commands, sessions
<1> QED
  BY <1>0, <1>1, <1>2, <1>3, <1>4, <1>5, <1>6, <1>7, <1>8, <1>9, <1>10, <1>11, <1>12, <1>13,
     <1>14, <1>15, <1>16, <1>17, <1>18, <1>19, <1>20, <1>21, <1>22 DEF Next

\* Every variable of the grant, its holder and its audit log keeps its type.
THEOREM TypeCorrect == Spec => []TypeOK
BY TypeInit, TypeStep, PTL DEF Spec

-----------------------------------------------------------------------------
(* The inductive invariant *)

LEMMA ShapesInit == Init => Shapes
BY BoundsAssumption DEF Init, Shapes, CallShape, GrantShape, CloserShape, EpochShape, OwnerShape, WaitShape,
   LockShape, Closing, Toggles, Threads, Standing

\* The shapes speak of no other variable.
LEMMA ShapesFrame ==
  ASSUME Shapes, UNCHANGED <<grant, epoch, gen, thr, srv, ui>>
  PROVE  Shapes'
BY DEF Shapes, CallShape, GrantShape, CloserShape, EpochShape, OwnerShape, WaitShape, LockShape, Closing

LEMMA EnterShapes == ASSUME IInv, NEW t \in Toggles, Enter(t) PROVE Shapes'
<1>a. Toggles \subseteq Threads /\ 0 \in Threads /\ Toggles \subseteq Nat /\ 0 \notin Toggles
  BY BoundsAssumption DEF Toggles, Threads
<1>b. thr \in [Threads -> Thread] /\ srv \in [Toggles -> ServerState] /\ epoch \in Nat /\ gen \in Nat
      /\ grant \in Toggles \cup {0}
  BY BoundsAssumption DEF IInv, TypeOK, Toggles
<1>c. \A u \in Threads : thr[u].epoch \in Nat /\ thr[u].target \in Toggles \cup {0}
  BY <1>b, BoundsAssumption DEF Thread, Toggles
<1>1. CallShape'
  BY <1>a, <1>b, <1>c DEF IInv, Shapes, CallShape, CloserShape, Closing, Standing, Enter, holder
<1>2. GrantShape'
  BY <1>a, <1>b, <1>c DEF IInv, Shapes, CallShape, GrantShape, CloserShape, Closing, Enter, holder
<1>3. CloserShape'
  BY <1>a, <1>b, <1>c DEF IInv, Shapes, CallShape, GrantShape, CloserShape, Closing, Enter, holder
<1>4. EpochShape'
  BY <1>a, <1>b, <1>c DEF IInv, Shapes, EpochShape, Enter, holder
<1>5. OwnerShape'
  BY <1>a, <1>b, <1>c DEF IInv, Shapes, CallShape, CloserShape, OwnerShape, Closing, Standing, Enter, holder
<1>6. WaitShape'
  BY <1>a, <1>b, <1>c DEF IInv, Shapes, WaitShape, Enter, holder
<1>7. LockShape'
  BY <1>a, <1>b, <1>c DEF IInv, Shapes, LockShape, WaitShape, Enter, holder
<1> QED BY <1>1, <1>2, <1>3, <1>4, <1>5, <1>6, <1>7 DEF Shapes

LEMMA OpenDoneShapes == ASSUME IInv, NEW t \in Toggles, OpenDone(t) PROVE Shapes'
<1>a. Toggles \subseteq Threads /\ 0 \in Threads /\ Toggles \subseteq Nat /\ 0 \notin Toggles
  BY BoundsAssumption DEF Toggles, Threads
<1>b. thr \in [Threads -> Thread] /\ srv \in [Toggles -> ServerState] /\ epoch \in Nat /\ gen \in Nat
      /\ grant \in Toggles \cup {0}
  BY BoundsAssumption DEF IInv, TypeOK, Toggles
<1>c. \A u \in Threads : thr[u].epoch \in Nat /\ thr[u].target \in Toggles \cup {0}
  BY <1>b, BoundsAssumption DEF Thread, Toggles
<1>1. CallShape'
  BY <1>a, <1>b, <1>c DEF IInv, Shapes, CallShape, CloserShape, Closing, Standing, OpenDone, holder
<1>2. GrantShape'
  BY <1>a, <1>b, <1>c DEF IInv, Shapes, CallShape, GrantShape, CloserShape, Closing, OpenDone, holder
<1>3. CloserShape'
  BY <1>a, <1>b, <1>c DEF IInv, Shapes, CallShape, GrantShape, CloserShape, Closing, OpenDone, holder
<1>4. EpochShape'
  BY <1>a, <1>b, <1>c DEF IInv, Shapes, EpochShape, OpenDone, holder
<1>5. OwnerShape'
  BY <1>a, <1>b, <1>c DEF IInv, Shapes, CallShape, CloserShape, OwnerShape, Closing, Standing, OpenDone, holder
<1>6. WaitShape'
  BY <1>a, <1>b, <1>c DEF IInv, Shapes, WaitShape, OpenDone, holder
<1>7. LockShape'
  BY <1>a, <1>b, <1>c DEF IInv, Shapes, LockShape, WaitShape, OpenDone, holder
<1> QED BY <1>1, <1>2, <1>3, <1>4, <1>5, <1>6, <1>7 DEF Shapes

LEMMA OpenFailsShapes == ASSUME IInv, NEW t \in Toggles, OpenFails(t) PROVE Shapes'
<1>a. Toggles \subseteq Threads /\ 0 \in Threads /\ Toggles \subseteq Nat /\ 0 \notin Toggles
  BY BoundsAssumption DEF Toggles, Threads
<1>b. thr \in [Threads -> Thread] /\ srv \in [Toggles -> ServerState] /\ epoch \in Nat /\ gen \in Nat
      /\ grant \in Toggles \cup {0}
  BY BoundsAssumption DEF IInv, TypeOK, Toggles
<1>c. \A u \in Threads : thr[u].epoch \in Nat /\ thr[u].target \in Toggles \cup {0}
  BY <1>b, BoundsAssumption DEF Thread, Toggles
<1>1. CallShape'
  BY <1>a, <1>b, <1>c DEF IInv, Shapes, CallShape, CloserShape, Closing, Standing, OpenFails, Settle, holder
<1>2. GrantShape'
  BY <1>a, <1>b, <1>c DEF IInv, Shapes, CallShape, GrantShape, CloserShape, Closing, OpenFails, Settle, holder
<1>3. CloserShape'
  BY <1>a, <1>b, <1>c DEF IInv, Shapes, CallShape, GrantShape, CloserShape, Closing, OpenFails, Settle, holder
<1>4. EpochShape'
  BY <1>a, <1>b, <1>c DEF IInv, Shapes, EpochShape, OpenFails, Settle, holder
<1>5. OwnerShape'
  BY <1>a, <1>b, <1>c DEF IInv, Shapes, CallShape, CloserShape, OwnerShape, Closing, Standing, OpenFails, Settle, holder
<1>6. WaitShape'
  BY <1>a, <1>b, <1>c DEF IInv, Shapes, WaitShape, OpenFails, Settle, holder
<1>7. LockShape'
  BY <1>a, <1>b, <1>c DEF IInv, Shapes, LockShape, WaitShape, OpenFails, Settle, holder
<1> QED BY <1>1, <1>2, <1>3, <1>4, <1>5, <1>6, <1>7 DEF Shapes

LEMMA PublishShapes == ASSUME IInv, NEW t \in Toggles, Publish(t) PROVE Shapes'
<1>a. Toggles \subseteq Threads /\ 0 \in Threads /\ Toggles \subseteq Nat /\ 0 \notin Toggles
  BY BoundsAssumption DEF Toggles, Threads
<1>b. thr \in [Threads -> Thread] /\ srv \in [Toggles -> ServerState] /\ epoch \in Nat /\ gen \in Nat
      /\ grant \in Toggles \cup {0}
  BY BoundsAssumption DEF IInv, TypeOK, Toggles
<1>c. \A u \in Threads : thr[u].epoch \in Nat /\ thr[u].target \in Toggles \cup {0}
  BY <1>b, BoundsAssumption DEF Thread, Toggles
<1>1. CallShape'
  BY <1>a, <1>b, <1>c DEF IInv, Shapes, CallShape, CloserShape, Closing, Standing, Publish, Settle, holder
<1>2. GrantShape'
  BY <1>a, <1>b, <1>c DEF IInv, Shapes, CallShape, GrantShape, CloserShape, Closing, Publish, Settle, holder
<1>3. CloserShape'
  <2>1. thr[t].target = grant /\ grant' = t /\ thr[t].out = "none" /\ thr[t].pc = "opened"
    BY DEF Publish, Overtaken, IInv, Shapes, EpochShape, CallShape
  <2>2. /\ \A u \in Threads \ {t} : thr'[u] = thr[u]
        /\ thr'[t].pc \in {"done", "close"} /\ thr'[t].target = grant
        /\ thr'[t].pc = "close" => grant # 0
        /\ srv' = srv
    BY <1>a, <1>b, <2>1 DEF Publish, Settle
  <2>3. \A u \in Threads \ {t} : Closing(u) => thr[u].target \notin {grant, t}
    BY <1>a, <2>1 DEF IInv, Shapes, CloserShape, Closing
  <2>4. ASSUME NEW u \in Threads, Closing(u)' PROVE
          /\ thr'[u].target \in Toggles \ {grant'}
          /\ thr'[u].pc = "close" => srv'[thr'[u].target] = "open"
          /\ thr'[u].pc = "closing" => srv'[thr'[u].target] \in {"flagged", "cancelled"}
          /\ thr'[u].target = u \/ thr'[thr'[u].target].out \in {"granted", "replaced"}
    <3>1. CASE u = t
      BY <1>a, <1>b, <2>1, <2>2, <2>4, <3>1 DEF IInv, Shapes, GrantShape, CallShape, Closing
    <3>2. CASE u # t
      <4>1. thr'[u] = thr[u] /\ Closing(u) /\ thr[u].target \notin {grant, t}
        BY <2>2, <2>3, <2>4, <3>2 DEF Closing
      <4>2. /\ thr[u].target \in Toggles
            /\ thr[u].pc = "close" => srv[thr[u].target] = "open"
            /\ thr[u].pc = "closing" => srv[thr[u].target] \in {"flagged", "cancelled"}
            /\ thr[u].target = u \/ thr[thr[u].target].out \in {"granted", "replaced"}
        BY <4>1 DEF IInv, Shapes, CloserShape
      <4>3. thr'[thr[u].target] = thr[thr[u].target]
        BY <1>a, <2>2, <4>1, <4>2
      <4> QED BY <2>1, <2>2, <4>1, <4>2, <4>3
    <3> QED BY <3>1, <3>2
  <2>5. ASSUME NEW u \in Threads, NEW v \in Threads, Closing(u)', Closing(v)', thr'[v].target = thr'[u].target
        PROVE  v = u
    BY <2>2, <2>3, <2>5 DEF IInv, Shapes, CloserShape, Closing
  <2> QED BY <2>4, <2>5 DEF CloserShape, Closing
<1>4. EpochShape'
  BY <1>a, <1>b, <1>c DEF IInv, Shapes, EpochShape, Publish, Settle, holder
<1>5. OwnerShape'
  <2>1. thr[t].target = grant /\ grant' = t /\ srv' = srv
        /\ thr' = [thr EXCEPT ![t] = [pc |-> IF grant = 0 THEN "done" ELSE "close", host |-> @.host,
                       epoch |-> 0, target |-> grant, out |-> IF grant = 0 THEN "granted" ELSE "replaced"]]
    BY <1>c DEF Publish, Settle, Overtaken, IInv, Shapes, EpochShape
  <2> SUFFICES ASSUME NEW g \in Toggles, srv[g] \in Standing, g # t
               PROVE  thr'[g].pc = "opened" \/ \E u \in Threads : Closing(u)' /\ thr'[u].target = g
    BY <2>1 DEF OwnerShape
  <2>2. CASE g = grant
    BY <1>a, <1>b, <2>1, <2>2 DEF Closing
  <2>3. CASE thr[g].pc = "opened"
    BY <1>a, <1>b, <2>1, <2>3
  <2>4. CASE \E u \in Threads : Closing(u) /\ thr[u].target = g
    <3>1. PICK u \in Threads : Closing(u) /\ thr[u].target = g
      BY <2>4
    <3>2. u # t
      BY <3>1 DEF Publish, Closing
    <3> QED BY <1>a, <1>b, <2>1, <3>1, <3>2 DEF Closing
  <2> QED BY <2>2, <2>3, <2>4 DEF IInv, Shapes, OwnerShape
<1>6. WaitShape'
  BY <1>a, <1>b, <1>c DEF IInv, Shapes, WaitShape, Publish, Settle, holder
<1>7. LockShape'
  <2>1. thr'[0] = thr[0] /\ ui' = ui
    BY <1>a, <1>b DEF Publish, Settle
  <2> QED BY <2>1 DEF IInv, Shapes, LockShape, Publish, Overtaken
<1> QED BY <1>1, <1>2, <1>3, <1>4, <1>5, <1>6, <1>7 DEF Shapes

LEMMA SupersedeShapes == ASSUME IInv, NEW t \in Toggles, Supersede(t) PROVE Shapes'
<1>a. Toggles \subseteq Threads /\ 0 \in Threads /\ Toggles \subseteq Nat /\ 0 \notin Toggles
  BY BoundsAssumption DEF Toggles, Threads
<1>b. thr \in [Threads -> Thread] /\ srv \in [Toggles -> ServerState] /\ epoch \in Nat /\ gen \in Nat
      /\ grant \in Toggles \cup {0}
  BY BoundsAssumption DEF IInv, TypeOK, Toggles
<1>c. \A u \in Threads : thr[u].epoch \in Nat /\ thr[u].target \in Toggles \cup {0}
  BY <1>b, BoundsAssumption DEF Thread, Toggles
<1>1. CallShape'
  BY <1>a, <1>b, <1>c DEF IInv, Shapes, CallShape, CloserShape, Closing, Standing, Supersede, Settle, holder
<1>2. GrantShape'
  BY <1>a, <1>b, <1>c DEF IInv, Shapes, CallShape, GrantShape, CloserShape, Closing, Supersede, Settle, holder
<1>3. CloserShape'
  BY <1>a, <1>b, <1>c DEF IInv, Shapes, CallShape, GrantShape, CloserShape, Closing, Supersede, Settle, holder
<1>4. EpochShape'
  BY <1>a, <1>b, <1>c DEF IInv, Shapes, EpochShape, Supersede, Settle, holder
<1>5. OwnerShape'
  BY <1>a, <1>b, <1>c DEF IInv, Shapes, CallShape, CloserShape, OwnerShape, Closing, Standing, Supersede, Settle, holder
<1>6. WaitShape'
  BY <1>a, <1>b, <1>c DEF IInv, Shapes, WaitShape, Supersede, Settle, holder
<1>7. LockShape'
  BY <1>a, <1>b, <1>c DEF IInv, Shapes, LockShape, WaitShape, Supersede, Settle, holder
<1> QED BY <1>1, <1>2, <1>3, <1>4, <1>5, <1>6, <1>7 DEF Shapes

LEMMA RevokeShapes == ASSUME IInv, NEW t \in Threads, Revoke(t) PROVE Shapes'
<1>a. Toggles \subseteq Threads /\ 0 \in Threads /\ Toggles \subseteq Nat /\ 0 \notin Toggles
  BY BoundsAssumption DEF Toggles, Threads
<1>b. thr \in [Threads -> Thread] /\ srv \in [Toggles -> ServerState] /\ epoch \in Nat /\ gen \in Nat
      /\ grant \in Toggles \cup {0}
  BY BoundsAssumption DEF IInv, TypeOK, Toggles
<1>c. \A u \in Threads : thr[u].epoch \in Nat /\ thr[u].target \in Toggles \cup {0}
  BY <1>b, BoundsAssumption DEF Thread, Toggles
<1>1. CallShape'
  BY <1>a, <1>b, <1>c DEF IInv, Shapes, CallShape, CloserShape, Closing, Standing, Revoke, Settle, holder
<1>2. GrantShape'
  BY <1>a, <1>b, <1>c DEF IInv, Shapes, CallShape, GrantShape, CloserShape, Closing, Revoke, Settle, holder
<1>3. CloserShape'
  BY <1>a, <1>b, <1>c DEF IInv, Shapes, CallShape, GrantShape, CloserShape, Closing, Revoke, Settle, holder
<1>4. EpochShape'
  BY <1>a, <1>b, <1>c DEF IInv, Shapes, EpochShape, Revoke, Settle, holder
<1>5. OwnerShape'
  BY <1>a, <1>b, <1>c DEF IInv, Shapes, CallShape, CloserShape, OwnerShape, Closing, Standing, Revoke, Settle, holder
<1>6. WaitShape'
  BY <1>a, <1>b, <1>c DEF IInv, Shapes, WaitShape, Revoke, Settle, holder
<1>7. LockShape'
  <2>1. grant' = 0 /\ epoch' = epoch + 1 /\ ui' = ui
        /\ \A u \in Threads \ {t} : thr'[u] = thr[u]
        /\ thr'[t].pc \in {"done", "close"}
    BY <1>a, <1>b DEF Revoke, Settle
  <2>2. \A u \in Toggles : thr'[u].pc \in {"open", "opened"} => thr'[u].epoch < epoch'
    BY <1>a, <1>b, <1>c, <2>1 DEF IInv, Shapes, EpochShape
  <2> QED BY <1>a, <1>b, <1>c, <2>1, <2>2 DEF LockShape
<1> QED BY <1>1, <1>2, <1>3, <1>4, <1>5, <1>6, <1>7 DEF Shapes

LEMMA SetClosedShapes == ASSUME IInv, NEW t \in Threads, SetClosed(t) PROVE Shapes'
<1>a. Toggles \subseteq Threads /\ 0 \in Threads /\ Toggles \subseteq Nat /\ 0 \notin Toggles
  BY BoundsAssumption DEF Toggles, Threads
<1>b. thr \in [Threads -> Thread] /\ srv \in [Toggles -> ServerState] /\ epoch \in Nat /\ gen \in Nat
      /\ grant \in Toggles \cup {0}
  BY BoundsAssumption DEF IInv, TypeOK, Toggles
<1>c. \A u \in Threads : thr[u].epoch \in Nat /\ thr[u].target \in Toggles \cup {0}
  BY <1>b, BoundsAssumption DEF Thread, Toggles
<1>1. CallShape'
  BY <1>a, <1>b, <1>c DEF IInv, Shapes, CallShape, CloserShape, Closing, Standing, SetClosed, holder
<1>2. GrantShape'
  BY <1>a, <1>b, <1>c DEF IInv, Shapes, CallShape, GrantShape, CloserShape, Closing, SetClosed, holder
<1>3. CloserShape'
  BY <1>a, <1>b, <1>c DEF IInv, Shapes, CallShape, GrantShape, CloserShape, Closing, SetClosed, holder
<1>4. EpochShape'
  BY <1>a, <1>b, <1>c DEF IInv, Shapes, EpochShape, SetClosed, holder
<1>5. OwnerShape'
  BY <1>a, <1>b, <1>c DEF IInv, Shapes, CallShape, CloserShape, OwnerShape, Closing, Standing, SetClosed, holder
<1>6. WaitShape'
  BY <1>a, <1>b, <1>c DEF IInv, Shapes, WaitShape, SetClosed, holder
<1>7. LockShape'
  BY <1>a, <1>b, <1>c DEF IInv, Shapes, LockShape, WaitShape, SetClosed, holder
<1> QED BY <1>1, <1>2, <1>3, <1>4, <1>5, <1>6, <1>7 DEF Shapes

LEMMA CancelShapes == ASSUME IInv, NEW t \in Threads, Cancel(t) PROVE Shapes'
<1>a. Toggles \subseteq Threads /\ 0 \in Threads /\ Toggles \subseteq Nat /\ 0 \notin Toggles
  BY BoundsAssumption DEF Toggles, Threads
<1>b. thr \in [Threads -> Thread] /\ srv \in [Toggles -> ServerState] /\ epoch \in Nat /\ gen \in Nat
      /\ grant \in Toggles \cup {0}
  BY BoundsAssumption DEF IInv, TypeOK, Toggles
<1>c. \A u \in Threads : thr[u].epoch \in Nat /\ thr[u].target \in Toggles \cup {0}
  BY <1>b, BoundsAssumption DEF Thread, Toggles
<1>1. CallShape'
  BY <1>a, <1>b, <1>c DEF IInv, Shapes, CallShape, CloserShape, Closing, Standing, Cancel, holder
<1>2. GrantShape'
  BY <1>a, <1>b, <1>c DEF IInv, Shapes, CallShape, GrantShape, CloserShape, Closing, Cancel, holder
<1>3. CloserShape'
  BY <1>a, <1>b, <1>c DEF IInv, Shapes, CallShape, GrantShape, CloserShape, Closing, Cancel, holder
<1>4. EpochShape'
  BY <1>a, <1>b, <1>c DEF IInv, Shapes, EpochShape, Cancel, holder
<1>5. OwnerShape'
  BY <1>a, <1>b, <1>c DEF IInv, Shapes, CallShape, CloserShape, OwnerShape, Closing, Standing, Cancel, holder
<1>6. WaitShape'
  BY <1>a, <1>b, <1>c DEF IInv, Shapes, WaitShape, Cancel, holder
<1>7. LockShape'
  BY <1>a, <1>b, <1>c DEF IInv, Shapes, LockShape, WaitShape, Cancel, holder
<1> QED BY <1>1, <1>2, <1>3, <1>4, <1>5, <1>6, <1>7 DEF Shapes

LEMMA UnlinkedShapes == ASSUME IInv, NEW t \in Threads, Unlinked(t) PROVE Shapes'
<1>a. Toggles \subseteq Threads /\ 0 \in Threads /\ Toggles \subseteq Nat /\ 0 \notin Toggles
  BY BoundsAssumption DEF Toggles, Threads
<1>b. thr \in [Threads -> Thread] /\ srv \in [Toggles -> ServerState] /\ epoch \in Nat /\ gen \in Nat
      /\ grant \in Toggles \cup {0}
  BY BoundsAssumption DEF IInv, TypeOK, Toggles
<1>c. \A u \in Threads : thr[u].epoch \in Nat /\ thr[u].target \in Toggles \cup {0}
  BY <1>b, BoundsAssumption DEF Thread, Toggles
<1>1. CallShape'
  BY <1>a, <1>b, <1>c DEF IInv, Shapes, CallShape, CloserShape, Closing, Standing, Unlinked, Settle, holder
<1>2. GrantShape'
  BY <1>a, <1>b, <1>c DEF IInv, Shapes, CallShape, GrantShape, CloserShape, Closing, Unlinked, Settle, holder
<1>3. CloserShape'
  BY <1>a, <1>b, <1>c DEF IInv, Shapes, CallShape, GrantShape, CloserShape, Closing, Unlinked, Settle, holder
<1>4. EpochShape'
  BY <1>a, <1>b, <1>c DEF IInv, Shapes, EpochShape, Unlinked, Settle, holder
<1>5. OwnerShape'
  BY <1>a, <1>b, <1>c DEF IInv, Shapes, CallShape, CloserShape, OwnerShape, Closing, Standing, Unlinked, Settle, holder
<1>6. WaitShape'
  BY <1>a, <1>b, <1>c DEF IInv, Shapes, WaitShape, Unlinked, Settle, holder
<1>7. LockShape'
  BY <1>a, <1>b, <1>c DEF IInv, Shapes, LockShape, WaitShape, Unlinked, Settle, holder
<1> QED BY <1>1, <1>2, <1>3, <1>4, <1>5, <1>6, <1>7 DEF Shapes

\* The UI calls Toggle: a number that was never used begins a call.
LEMMA CallShapes ==
  ASSUME IInv, NEW h \in HostIds, Call(h), ui.wait = {}, ui.mode # "locked",
         ui' = [ui EXCEPT !.wait = {gen + 1}], srv' = srv
  PROVE  Shapes'
<1>a. Toggles \subseteq Threads /\ 0 \in Threads /\ Toggles \subseteq Nat /\ 0 \notin Toggles
  BY BoundsAssumption DEF Toggles, Threads
<1>b. /\ thr \in [Threads -> Thread] /\ epoch \in Nat /\ gen \in Nat /\ gen + 1 \in Toggles
      /\ grant \in Toggles \cup {0}
      /\ ui \in [mode : {"dash", "attached", "locked"}, at : SUBSET HostIds,
                 wait : SUBSET Threads, next : {"dash", "attached", "locked"}]
  BY BoundsAssumption DEF IInv, TypeOK, Toggles, Call
<1>c. /\ thr[gen + 1].pc = "idle"
      /\ \A u \in Threads \ {gen + 1} : thr'[u] = thr[u]
      /\ thr'[gen + 1].pc = "called" /\ thr'[gen + 1].out = thr[gen + 1].out
      /\ UNCHANGED <<grant, epoch>> /\ gen' = gen + 1
      /\ ui'.wait = {gen + 1} /\ ui'.mode = ui.mode /\ ui'.next = ui.next
  BY <1>a, <1>b DEF Call, Thread, IInv, Shapes, CallShape
<1>1. CallShape'
  BY <1>a, <1>b, <1>c DEF IInv, Shapes, CallShape
<1>2. GrantShape'
  <2>1. \A u \in Threads : thr'[u].out = thr[u].out
    BY <1>c
  <2> QED BY <1>a, <1>b, <1>c, <2>1 DEF IInv, Shapes, GrantShape
<1>3. CloserShape'
  BY <1>a, <1>b, <1>c DEF IInv, Shapes, CallShape, CloserShape, WaitShape, Closing
<1>4. EpochShape'
  BY <1>a, <1>b, <1>c DEF IInv, Shapes, EpochShape
<1>5. OwnerShape'
  BY <1>a, <1>b, <1>c DEF IInv, Shapes, CallShape, OwnerShape, WaitShape, Closing
<1>6. WaitShape'
  BY <1>a, <1>b, <1>c DEF IInv, Shapes, WaitShape
<1>7. LockShape'
  BY <1>a, <1>b, <1>c DEF IInv, Shapes, LockShape, WaitShape
<1> QED BY <1>1, <1>2, <1>3, <1>4, <1>5, <1>6, <1>7 DEF Shapes

\* The UI calls Revoke on a thread of its own that is idle.
LEMMA UIRevokesShapes ==
  ASSUME IInv, NEW next \in {"dash", "attached", "locked"}, UIRevokes(next), ui.wait = {},
         ui.mode # "attached", next # "attached", ui.mode = "locked" => next = "locked",
         UNCHANGED <<grant, epoch, gen, srv>>
  PROVE  Shapes'
<1>a. Toggles \subseteq Threads /\ 0 \in Threads /\ Toggles \subseteq Nat /\ 0 \notin Toggles
  BY BoundsAssumption DEF Toggles, Threads
<1>b. /\ thr \in [Threads -> Thread]
      /\ ui \in [mode : {"dash", "attached", "locked"}, at : SUBSET HostIds,
                 wait : SUBSET Threads, next : {"dash", "attached", "locked"}]
      /\ grant \in Toggles \cup {0}
      /\ \A u \in Threads : thr[u].target \in Toggles \cup {0}
  BY BoundsAssumption DEF IInv, TypeOK, Toggles, Thread
<1>c. /\ thr[0].pc = "idle"
      /\ \A u \in Threads \ {0} : thr'[u] = thr[u]
      /\ thr'[0].pc = "revoke"
      /\ ui'.wait = {0} /\ ui'.mode = ui.mode /\ ui'.next = next
  BY <1>a, <1>b DEF UIRevokes, Thread, IInv, Shapes, WaitShape
<1>1. CallShape'
  BY <1>a, <1>b, <1>c DEF IInv, Shapes, CallShape
<1>2. GrantShape'
  BY <1>a, <1>b, <1>c DEF IInv, Shapes, CallShape, GrantShape
<1>3. CloserShape'
  <2>1. \A u \in Threads : Closing(u)' <=> Closing(u)
    BY <1>a, <1>b, <1>c DEF Closing
  <2>2. \A u \in Threads : Closing(u) =>
          thr'[u] = thr[u] /\ thr[u].target \in Toggles \ {grant}
          /\ thr'[thr[u].target] = thr[thr[u].target]
    BY <1>a, <1>b, <1>c DEF IInv, Shapes, CloserShape, Closing
  <2>3. srv' = srv /\ grant' = grant
    BY <1>a, <1>b, <1>c
  <2> QED BY <2>1, <2>2, <2>3 DEF IInv, Shapes, CloserShape
<1>4. EpochShape'
  BY <1>a, <1>b, <1>c DEF IInv, Shapes, EpochShape
<1>5. OwnerShape'
  BY <1>a, <1>b, <1>c DEF IInv, Shapes, CallShape, OwnerShape, WaitShape, Closing
<1>6. WaitShape'
  BY <1>a, <1>b, <1>c DEF IInv, Shapes, WaitShape
<1>7. LockShape'
  BY <1>a, <1>b, <1>c DEF IInv, Shapes, LockShape, WaitShape
<1> QED BY <1>1, <1>2, <1>3, <1>4, <1>5, <1>6, <1>7 DEF Shapes

LEMMA ReturnShapes == ASSUME IInv, Return PROVE Shapes'
<1>a. Toggles \subseteq Threads /\ 0 \in Threads /\ Toggles \subseteq Nat /\ 0 \notin Toggles
  BY BoundsAssumption DEF Toggles, Threads
<1>b. /\ thr \in [Threads -> Thread]
      /\ ui \in [mode : {"dash", "attached", "locked"}, at : SUBSET HostIds,
                 wait : SUBSET Threads, next : {"dash", "attached", "locked"}]
      /\ grant \in Toggles \cup {0}
      /\ \A u \in Threads : thr[u].target \in Toggles \cup {0}
  BY BoundsAssumption DEF IInv, TypeOK, Toggles, Thread
<1>c. PICK t \in Threads : ui.wait = {t} /\ thr[t].pc = "done"
  BY DEF Return, IInv, Shapes, WaitShape
<1>d. /\ \A u \in Threads \ {0} : thr'[u] = thr[u]
      /\ thr'[0].pc = "idle" /\ thr[0].pc \in {"idle", "done"}
      /\ ui'.wait = {} /\ ui'.mode = ui.next /\ ui'.next = ui.next
      /\ UNCHANGED <<grant, epoch, gen, srv>>
  BY <1>a, <1>b, <1>c DEF Return, holder, Thread, IInv, Shapes, WaitShape
<1>1. CallShape'
  BY <1>a, <1>b, <1>c, <1>d DEF IInv, Shapes, CallShape
<1>2. GrantShape'
  BY <1>a, <1>b, <1>c, <1>d DEF IInv, Shapes, CallShape, GrantShape
<1>3. CloserShape'
  <2>1. \A u \in Threads : Closing(u)' <=> Closing(u)
    BY <1>a, <1>b, <1>c, <1>d DEF Closing
  <2>2. \A u \in Threads : Closing(u) =>
          thr'[u] = thr[u] /\ thr[u].target \in Toggles \ {grant}
          /\ thr'[thr[u].target] = thr[thr[u].target]
    BY <1>a, <1>b, <1>c, <1>d DEF IInv, Shapes, CloserShape, Closing
  <2>3. srv' = srv /\ grant' = grant
    BY <1>a, <1>b, <1>c, <1>d
  <2> QED BY <2>1, <2>2, <2>3 DEF IInv, Shapes, CloserShape
<1>4. EpochShape'
  BY <1>a, <1>b, <1>c, <1>d DEF IInv, Shapes, EpochShape
<1>5. OwnerShape'
  BY <1>a, <1>b, <1>c, <1>d DEF IInv, Shapes, CallShape, OwnerShape, WaitShape, Closing
<1>6. WaitShape'
  BY <1>a, <1>b, <1>c, <1>d DEF IInv, Shapes, WaitShape
<1>7. LockShape'
  BY <1>a, <1>b, <1>c, <1>d DEF IInv, Shapes, LockShape, WaitShape
<1> QED BY <1>1, <1>2, <1>3, <1>4, <1>5, <1>6, <1>7 DEF Shapes

\* Steps of the UI that start no call and finish none.
LEMMA ModeShapes ==
  ASSUME IInv, Unlock \/ Detach \/ Abandon \/ \E h \in HostIds : Attach(h)
  PROVE  Shapes'
<1>a. UNCHANGED <<grant, epoch, gen, thr, srv>>
  BY DEF Unlock, Detach, Abandon, Attach, holder
<1>b. /\ ui \in [mode : {"dash", "attached", "locked"}, at : SUBSET HostIds,
                 wait : SUBSET Threads, next : {"dash", "attached", "locked"}]
  BY DEF IInv, TypeOK
<1>c. ui'.wait = {} /\ ui'.mode # "locked" /\ ui'.next = ui'.mode
  BY <1>b DEF Unlock, Detach, Abandon, Attach, Free, IInv, Shapes, WaitShape
<1>d. thr[0].pc = "idle" /\ \A t \in Toggles : thr[t].pc # "called"
  BY <1>b DEF Unlock, Detach, Abandon, Attach, Free, IInv, Shapes, WaitShape, Toggles
<1>1. WaitShape' /\ LockShape'
  BY <1>a, <1>c, <1>d DEF WaitShape, LockShape
<1> QED BY <1>1, <1>a DEF IInv, Shapes, CallShape, GrantShape, CloserShape, EpochShape, OwnerShape, Closing

LEMMA ShapesStep == IInv /\ [Next]_vars => Shapes'
<1> SUFFICES ASSUME IInv, [Next]_vars PROVE Shapes'
  OBVIOUS
<1>0. CASE UNCHANGED vars
  BY <1>0, ShapesFrame DEF IInv, vars
<1>1. ASSUME NEW t \in Toggles,
             Enter(t) \/ OpenDone(t) \/ OpenFails(t) \/ Publish(t) \/ Supersede(t) \/ Expire(t)
      PROVE  Shapes'
  <2>1. CASE Expire(t)
    BY <2>1, ShapesFrame DEF Expire, IInv, holder
  <2> QED BY <1>1, <2>1, EnterShapes, OpenDoneShapes, OpenFailsShapes, PublishShapes, SupersedeShapes
<1>2. ASSUME NEW t \in Threads, Revoke(t) \/ CloseStep(t) PROVE Shapes'
  BY <1>2, RevokeShapes, SetClosedShapes, CancelShapes, UnlinkedShapes DEF CloseStep
<1>3. ASSUME NEW c \in Cmds, RunStep(c) \/ \E g \in Toggles : Ask(c, g) PROVE Shapes'
  <2>1. UNCHANGED <<grant, epoch, gen, thr, srv, ui>>
    BY <1>3 DEF RunStep, Ask, Refuse, Admit, Dispatch, Start, Finish, holder
  <2> QED BY <2>1, ShapesFrame DEF IInv
<1>a. ui.mode \in {"dash", "attached", "locked"}
  BY DEF IInv, TypeOK
<1>4. CASE RevokeKey
  BY <1>4, UIRevokesShapes DEF RevokeKey, Free, holder
<1>5. ASSUME NEW h \in HostIds, GrantKey(h) PROVE Shapes'
  BY <1>5, CallShapes DEF GrantKey, Free
<1>6. CASE Lock
  BY <1>6, UIRevokesShapes DEF Lock, Free, holder
<1>7. CASE Tick
  BY <1>7, <1>a, UIRevokesShapes DEF Tick, Handling, holder
<1>8. ASSUME NEW h \in HostIds, SessionEnds(h) PROVE Shapes'
  BY <1>8, ShapesFrame DEF SessionEnds, IInv, holder
<1>9. ASSUME NEW h \in HostIds, HandleSessionEnded(h) PROVE Shapes'
  BY <1>9, <1>a, UIRevokesShapes, ShapesFrame DEF HandleSessionEnded, Handling, IInv, holder
<1>10. CASE HotKey
  BY <1>10, CallShapes DEF HotKey, Free, IInv, TypeOK
<1>11. CASE Return
  BY <1>11, ReturnShapes
<1>12. CASE Unlock \/ Detach \/ Abandon \/ \E h \in HostIds : Attach(h)
  BY <1>12, ModeShapes
<1> QED
  BY <1>0, <1>1, <1>2, <1>3, <1>4, <1>5, <1>6, <1>7, <1>8, <1>9, <1>10, <1>11, <1>12 DEF Next

\* Every reachable state satisfies the inductive invariant: what every stage of a call of
\* Toggle, Close or the lock says of the grant and of the sockets that stand.
THEOREM Inductive == Spec => []IInv
<1>1. Init => IInv
  BY TypeInit, ShapesInit DEF IInv
<1>2. IInv /\ [Next]_vars => IInv'
  BY TypeStep, ShapesStep DEF IInv
<1> QED BY <1>1, <1>2, PTL DEF Spec

\* A locked vault has no grant, however long an Open hangs: the calls of Toggle
\* that entered before the lock's Revoke are all overtaken by it.
THEOREM LockedSafe == Spec => []LockedHasNoGrant
<1>1. IInv => LockedHasNoGrant
  BY DEF IInv, Shapes, LockShape, LockedHasNoGrant
<1> QED BY <1>1, Inductive, PTL

\* With no call running the standing sockets are the current grant's: every
\* other owner of a socket is a call that has not returned.
THEOREM NothingLeaks == Spec => []NoStrayGrant
<1>1. IInv => NoStrayGrant
  <2> SUFFICES ASSUME IInv, Settled PROVE {g \in Toggles : srv[g] \in Standing} = {grant} \ {0}
    BY DEF NoStrayGrant
  <2>1. \A t \in Threads : ~Closing(t) /\ thr[t].pc # "opened"
    BY DEF Settled, Closing
  <2>2. Toggles \subseteq Threads /\ 0 \notin Toggles /\ grant \in Toggles \cup {0}
    BY BoundsAssumption DEF Toggles, Threads, IInv, TypeOK
  <2>3. \A g \in Toggles : srv[g] \in Standing => g = grant
    BY <2>1, <2>2 DEF IInv, Shapes, OwnerShape
  <2>4. grant # 0 => grant \in Toggles /\ srv[grant] \in Standing
    BY <2>2 DEF IInv, Shapes, GrantShape, Standing
  <2> QED BY <2>2, <2>3, <2>4
<1> QED BY <1>1, Inductive, PTL

-----------------------------------------------------------------------------
(* The audit log and the counters *)

Recorded == {"running", "ended", "refused"}
Numbered == {"admitted", "checked"} \cup Recorded

\* Every command belongs to a call that was made, and a number handed out by a
\* grant is one command's.
KeyShape ==
  \A c \in Cmds :
    /\ cmd[c].st # "none" => cmd[c].g <= gen
    /\ cmd[c].st \in Numbered => cmd[c].id <= seq[cmd[c].g]
    /\ \A d \in Cmds :
         cmd[c].st \in Numbered /\ cmd[d].st \in Numbered /\ KeyOf(d) = KeyOf(c) => d = c

AuditInv == KeyShape /\ AuditIsTrue

\* The row an event leaves in the log.
RowFor(k, fin, ref) == [key |-> k, host |-> HostOf(k.g), finished |-> fin, refused |-> ref]

\* Recording an event leaves one row with its key and every other row as it was,
\* and only a full log forgets one (record).
LEMMA FoldEffect ==
  ASSUME TypeOK, NEW k \in Key, NEW fin \in BOOLEAN, NEW ref \in BOOLEAN,
         \A i, j \in DOMAIN log : log[i].key = log[j].key => i = j,
         \A i \in DOMAIN log : log[i].host = HostOf(log[i].key.g)
  PROVE  LET new == Fold(k, fin, ref) IN
         /\ \A i, j \in DOMAIN new : new[i].key = new[j].key => i = j
         /\ \A i \in DOMAIN new : \/ new[i] = RowFor(k, fin, ref)
                                  \/ \E j \in DOMAIN log : log[j].key # k /\ new[i] = log[j]
         /\ \E i \in DOMAIN new : new[i] = RowFor(k, fin, ref)
         /\ \A j \in DOMAIN log : log[j].key # k =>
              Len(new) = LogMax \/ \E i \in DOMAIN new : new[i] = log[j]
         /\ Len(log) = LogMax => Len(new) = LogMax
<1> DEFINE row == RowFor(k, fin, ref)
<1> USE LimitsAssumption
<1>a. /\ log \in Seq(Row) /\ Len(log) \in Nat /\ Len(log) <= LogMax /\ DOMAIN log = 1..Len(log)
      /\ \A i \in 1..Len(log) : log[i] \in Row
  BY DEF TypeOK
<1>b. row.key = k
  BY DEF RowFor
<1>1. CASE \E i \in DOMAIN log : log[i].key = k
  <2> DEFINE new == [i \in DOMAIN log |->
         IF log[i].key = k THEN [log[i] EXCEPT !.finished = fin, !.refused = ref]
         ELSE log[i]]
  <2>1. \A i \in DOMAIN log : log[i].key = k => new[i] = row
    BY <1>a DEF Row, RowFor
  <2>2. \A i \in DOMAIN log : log[i].key # k => new[i] = log[i]
    OBVIOUS
  <2>3. DOMAIN new = DOMAIN log
    OBVIOUS
  <2>4. Fold(k, fin, ref) = new
    BY <1>1 DEF Fold
  <2>5. Fold(k, fin, ref) \in Seq(Row)
    BY FoldType
  <2> HIDE DEF new, row
  <2>6. Len(new) = Len(log)
    <3>1. Len(new) \in Nat /\ DOMAIN new = 1..Len(new) /\ DOMAIN new = 1..Len(log)
      BY <2>3, <2>4, <2>5, <1>a, LenProperties
    <3>2. Len(log) \in Nat /\ new \in Seq(Row)
      BY <2>4, <2>5, <1>a
    <3> QED BY <3>1, <3>2
  <2>7. \A i \in DOMAIN new : new[i].key = log[i].key
    BY <2>1, <2>2, <2>3, <1>b
  <2> QED BY <1>1, <2>1, <2>2, <2>3, <2>4, <2>6, <2>7 DEF row
<1>2. CASE ~ \E i \in DOMAIN log : log[i].key = k
  <2>1. row \in Row
    BY DEF TypeOK, Row, RowFor, Key, Thread, HostOf, Toggles, Threads
  <2>2. PICK n \in Nat : n = IF Len(log) < LogMax THEN Len(log) + 1 ELSE LogMax
    BY <1>a
  <2>3. n <= LogMax /\ n <= Len(log) + 1 /\ n >= 1
    BY <2>2, <1>a
  <2> DEFINE all == <<row>> \o log
             new == SubSeq(all, 1, n)
  <2>4. Fold(k, fin, ref) = new
    BY <1>2, <2>2 DEF Fold, RowFor
  <2> HIDE DEF row
  <2>5. all \in Seq(Row) /\ Len(all) = Len(log) + 1
    BY <2>1, <1>a
  <2>6. all[1] = row /\ \A i \in 1..Len(log) : all[i + 1] = log[i]
    BY <2>1, <1>a
  <2> HIDE DEF all
  <2>7. DOMAIN new = 1..n /\ Len(new) = n /\ \A i \in 1..n : new[i] = all[i]
    BY <2>3, <2>5, <1>a
  <2> HIDE DEF new
  <2>8. new[1] = row /\ \A i \in 2..n : i - 1 \in DOMAIN log /\ new[i] = log[i - 1]
    <3>1. \A i \in 2..n : i - 1 \in 1..Len(log) /\ all[(i - 1) + 1] = log[i - 1] /\ (i - 1) + 1 = i
      BY <2>3, <2>6, <1>a
    <3> QED BY <2>3, <2>6, <2>7, <3>1, <1>a
  <2>9. \A i, j \in DOMAIN new : new[i].key = new[j].key => i = j
    <3> SUFFICES ASSUME NEW i \in 1..n, NEW j \in 1..n, new[i].key = new[j].key PROVE i = j
      BY <2>7
    <3>1. \A m \in 2..n : new[m].key # k
      BY <1>2, <2>8
    <3>2. CASE i = 1
      BY <3>1, <3>2, <2>8, <1>b
    <3>3. CASE j = 1
      BY <3>1, <3>3, <2>8, <1>b
    <3>4. CASE i # 1 /\ j # 1
      <4>1. i - 1 \in DOMAIN log /\ j - 1 \in DOMAIN log /\ log[i - 1].key = log[j - 1].key
        BY <3>4, <2>8
      <4>2. i - 1 = j - 1
        BY <4>1
      <4> QED BY <4>2
    <3> QED BY <3>2, <3>3, <3>4
  <2>10. \A i \in DOMAIN new : new[i] = row \/ \E j \in DOMAIN log : log[j].key # k /\ new[i] = log[j]
    BY <1>2, <2>7, <2>8
  <2>11. \E i \in DOMAIN new : new[i] = row
    BY <2>3, <2>7, <2>8
  <2>12. \A j \in DOMAIN log : n = LogMax \/ \E i \in DOMAIN new : new[i] = log[j]
    <3> SUFFICES ASSUME NEW j \in 1..Len(log), n # LogMax PROVE \E i \in DOMAIN new : new[i] = log[j]
      BY <1>a
    <3>1. j + 1 \in 1..n /\ all[j + 1] = log[j]
      BY <2>2, <2>6, <1>a
    <3> QED BY <3>1, <2>7
  <2>13. Len(log) = LogMax => n = LogMax
    BY <2>2
  <2> QED BY <2>4, <2>7, <2>9, <2>10, <2>11, <2>12, <2>13 DEF row
<1> QED BY <1>1, <1>2

\* No step changes the host of a call that was made.
LEMMA HostKept ==
  ASSUME IInv, [Next]_vars
  PROVE  gen' >= gen /\ \A t \in Toggles : t <= gen => thr'[t].host = thr[t].host
<1>a. Toggles \subseteq Threads /\ 0 \in Threads /\ 0 \notin Toggles /\ Threads \subseteq Nat
  BY BoundsAssumption DEF Toggles, Threads
<1>b. thr \in [Threads -> Thread] /\ gen \in Nat
  BY DEF IInv, TypeOK
<1>1. ASSUME NEW h \in HostIds, Call(h) PROVE gen' >= gen /\ \A t \in Toggles : t <= gen => thr'[t].host = thr[t].host
  BY <1>1, <1>a, <1>b DEF Call
<1>2. ASSUME UNCHANGED gen, \/ UNCHANGED thr
                               \/ \E pc \in PC : thr' = [thr EXCEPT ![0].pc = pc]
      PROVE  gen' >= gen /\ \A t \in Toggles : t <= gen => thr'[t].host = thr[t].host
  BY <1>2, <1>a, <1>b
<1>3. ASSUME NEW t \in Threads, UNCHANGED gen, thr'[t].host = thr[t].host,
             \A u \in Threads \ {t} : thr'[u] = thr[u]
      PROVE  gen' >= gen /\ \A u \in Toggles : u <= gen => thr'[u].host = thr[u].host
  BY <1>3, <1>a, <1>b
<1>4. ASSUME NEW t \in Threads, NEW pc, NEW g, NEW out, Settle(t, pc, g, out)
      PROVE  thr'[t].host = thr[t].host /\ \A u \in Threads \ {t} : thr'[u] = thr[u]
  BY <1>4, <1>b DEF Settle
<1>5. ASSUME NEW t \in Toggles,
             Enter(t) \/ OpenDone(t) \/ OpenFails(t) \/ Publish(t) \/ Supersede(t) \/ Expire(t)
      PROVE  gen' >= gen /\ \A u \in Toggles : u <= gen => thr'[u].host = thr[u].host
  <2>1. t \in Threads
    BY <1>a
  <2>2. CASE Enter(t)
    BY <2>1, <2>2, <1>3, <1>b DEF Enter, holder
  <2>3. CASE OpenDone(t)
    <3>1. thr'[t].host = thr[t].host /\ \A u \in Threads \ {t} : thr'[u] = thr[u]
      BY <2>1, <2>3, <1>b DEF OpenDone, Thread
    <3> QED BY <2>1, <2>3, <3>1, <1>3 DEF OpenDone, holder
  <2>4. CASE OpenFails(t) \/ Publish(t) \/ Supersede(t)
    BY <2>1, <2>4, <1>3, <1>4 DEF OpenFails, Publish, Supersede, holder
  <2>5. CASE Expire(t)
    BY <2>5, <1>2 DEF Expire, holder
  <2> QED BY <1>5, <2>2, <2>3, <2>4, <2>5
<1>6. ASSUME NEW t \in Threads, Revoke(t) \/ CloseStep(t)
      PROVE  gen' >= gen /\ \A u \in Toggles : u <= gen => thr'[u].host = thr[u].host
  <2>1. CASE Revoke(t)
    BY <2>1, <1>3, <1>4 DEF Revoke
  <2>2. CASE SetClosed(t)
    <3>1. thr'[t].host = thr[t].host /\ \A u \in Threads \ {t} : thr'[u] = thr[u]
      BY <2>2, <1>b DEF SetClosed, Thread
    <3> QED BY <2>2, <3>1, <1>3 DEF SetClosed, holder
  <2>3. CASE Cancel(t)
    BY <2>3, <1>2 DEF Cancel, holder
  <2>4. CASE Unlinked(t)
    BY <2>4, <1>3, <1>4 DEF Unlinked, holder
  <2> QED BY <1>6, <2>1, <2>2, <2>3, <2>4 DEF CloseStep
<1>7. CASE \E c \in Cmds : RunStep(c) \/ \E g \in Toggles : Ask(c, g)
  BY <1>7, <1>2 DEF RunStep, Ask, Refuse, Admit, Dispatch, Start, Finish, holder
<1>8. CASE HotKey \/ \E h \in HostIds : GrantKey(h)
  BY <1>8, <1>1 DEF HotKey, GrantKey, IInv, TypeOK
<1>9. CASE \/ RevokeKey \/ Lock \/ Unlock \/ Tick \/ Detach \/ Return \/ Abandon
           \/ \E h \in HostIds : SessionEnds(h) \/ HandleSessionEnded(h) \/ Attach(h)
  BY <1>9, <1>2 DEF RevokeKey, Lock, Unlock, Tick, Detach, Return, Abandon, SessionEnds,
                    HandleSessionEnded, Attach, UIRevokes, PC, holder
<1>10. CASE UNCHANGED vars
  BY <1>10, <1>2 DEF vars
<1> QED BY <1>5, <1>6, <1>7, <1>8, <1>9, <1>10 DEF Next

\* One command moves and its event is recorded: the log stays true.
LEMMA AuditMove ==
  ASSUME TypeOK, AuditInv, KeyShape', UNCHANGED thr, NEW c \in Cmds,
         cmd'[c].st \in Recorded, KeyOf(c)' \in Key, c \in Audited => KeyOf(c)' = KeyOf(c),
         \A d \in Cmds \ {c} : cmd'[d] = cmd[d],
         log' = Fold(KeyOf(c)', cmd'[c].st # "running", cmd'[c].st = "refused")
  PROVE  AuditIsTrue'
<1>0. PICK k \in Key, fin \in BOOLEAN, ref \in BOOLEAN :
        k = KeyOf(c)' /\ fin = (cmd'[c].st # "running") /\ ref = (cmd'[c].st = "refused")
  OBVIOUS
<1>1. \A i \in DOMAIN log : log[i].host = HostOf(log[i].key.g)
  <2> SUFFICES ASSUME NEW i \in DOMAIN log PROVE log[i].host = HostOf(log[i].key.g)
    OBVIOUS
  <2>1. PICK d \in Audited : RowOf(d, log[i])
    BY DEF AuditInv, AuditIsTrue
  <2> QED BY <2>1 DEF RowOf, KeyOf
<1>2. \A i, j \in DOMAIN log : log[i].key = log[j].key => i = j
  BY DEF AuditInv, AuditIsTrue
<1>3. PICK row : row = RowFor(k, fin, ref)
  OBVIOUS
<1>4. /\ \A i, j \in DOMAIN log' : log'[i].key = log'[j].key => i = j
      /\ \A i \in DOMAIN log' : \/ log'[i] = row
                                \/ \E j \in DOMAIN log : log[j].key # k /\ log'[i] = log[j]
      /\ \E i \in DOMAIN log' : log'[i] = row
      /\ \A j \in DOMAIN log : log[j].key # k =>
           Len(log') = LogMax \/ \E i \in DOMAIN log' : log'[i] = log[j]
      /\ Len(log) = LogMax => Len(log') = LogMax
  <2>1. log' = Fold(k, fin, ref)
    BY <1>0
  <2> QED BY <1>1, <1>2, <1>3, <2>1, FoldEffect
<1>5. RowOf(c, row)' /\ c \in Audited'
  BY <1>0, <1>3 DEF RowOf, RowFor, KeyOf, HostOf, Audited, Recorded
<1>6. \A d \in Cmds \ {c} : \A r : /\ RowOf(d, r)' <=> RowOf(d, r)
                                   /\ d \in Audited' <=> d \in Audited
                                   /\ KeyOf(d)' = KeyOf(d)
  BY DEF RowOf, KeyOf, HostOf, Audited
<1>7. \A d \in Audited \ {c} : KeyOf(d) # k
  BY <1>0, <1>6 DEF KeyShape, Audited, Numbered, Recorded
<1>8. \A i \in DOMAIN log' : \E d \in Audited' : RowOf(d, log[i])'
  <2> SUFFICES ASSUME NEW i \in DOMAIN log' PROVE \E d \in Audited' : RowOf(d, log[i])'
    OBVIOUS
  <2>1. CASE log'[i] = row
    BY <2>1, <1>5
  <2>2. ASSUME NEW j \in DOMAIN log, log[j].key # k, log'[i] = log[j]
        PROVE  \E d \in Audited' : RowOf(d, log[i])'
    <3>1. PICK d \in Audited : RowOf(d, log[j])
      BY DEF AuditInv, AuditIsTrue
    <3>2. d # c
      BY <2>2, <3>1, <1>0 DEF RowOf
    <3> QED BY <2>2, <3>1, <3>2, <1>6 DEF Audited
  <2> QED BY <2>1, <2>2, <1>4
<1>9. ASSUME NEW d \in Audited' PROVE Len(log') = LogMax \/ \E i \in DOMAIN log' : RowOf(d, log[i])'
  <2>1. CASE d = c
    BY <2>1, <1>4, <1>5
  <2>2. CASE d # c
    <3>1. d \in Audited \ {c}
      BY <2>2, <1>6 DEF Audited
    <3>2. CASE Len(log) = LogMax
      BY <3>2, <1>4
    <3>3. ASSUME NEW j \in DOMAIN log, RowOf(d, log[j])
          PROVE  Len(log') = LogMax \/ \E i \in DOMAIN log' : RowOf(d, log[i])'
      <4>1. log[j].key # k
        BY <3>1, <3>3, <1>7 DEF RowOf
      <4>2. PICK r : r = log[j]
        OBVIOUS
      <4>3. d \in Cmds \ {c} /\ RowOf(d, r)
        BY <3>1, <3>3, <4>2 DEF Audited
      <4>4. RowOf(d, r)'
        BY <4>3, <1>6
      <4> QED BY <4>1, <4>2, <4>4, <1>4
    <3> QED BY <3>1, <3>2, <3>3 DEF AuditInv, AuditIsTrue
  <2> QED BY <2>1, <2>2
<1> QED BY <1>4, <1>8, <1>9 DEF AuditIsTrue

\* A step of a command's goroutine moves that command only, along the stages of
\* Grant.run, and it is numbered when it leaves the gates.
LEMMA StageMoves ==
  ASSUME TypeOK, NEW c \in Cmds, RunStep(c)
  PROVE  /\ cmd[c].g \in Toggles /\ cmd[c].id \in Nat
         /\ cmd'[c].g = cmd[c].g
         /\ \A d \in Cmds \ {c} : cmd'[d] = cmd[d]
         /\ UNCHANGED <<gen, thr>>
         /\ \/ /\ cmd[c].st = "asked" /\ cmd'[c].st \in {"admitted", "refused"}
               /\ cmd'[c].id = seq[cmd[c].g] + 1 /\ seq' = [seq EXCEPT ![cmd[c].g] = @ + 1]
            \/ /\ cmd[c].st \in {"admitted", "checked", "running"}
               /\ cmd'[c].st \in {"checked", "running", "ended", "refused"}
               /\ cmd'[c].id = cmd[c].id /\ UNCHANGED seq
<1>a. cmd \in [Cmds -> Command] /\ cmd[c].st # "none"
  BY DEF TypeOK, RunStep, Refuse, Admit, Dispatch, Start, Finish
<1>b. cmd[c] \in [st : Stage \ {"none"}, g : Toggles, id : Nat]
  BY <1>a DEF Command, NoCommand
<1>1. CASE Refuse(c)
  BY <1>1, <1>a, <1>b DEF Refuse, holder
<1>2. CASE Admit(c)
  BY <1>2, <1>a, <1>b DEF Admit, holder
<1>c. ASSUME NEW st, cmd' = [cmd EXCEPT ![c].st = st]
      PROVE  /\ cmd'[c].st = st /\ cmd'[c].g = cmd[c].g /\ cmd'[c].id = cmd[c].id
             /\ \A d \in Cmds \ {c} : cmd'[d] = cmd[d]
  BY <1>c, <1>a, <1>b
<1>3. CASE Dispatch(c)
  <2>1. cmd[c].st = "admitted" /\ UNCHANGED <<gen, thr, seq>>
    BY <1>3 DEF Dispatch, holder
  <2>2. cmd' = [cmd EXCEPT ![c].st = "checked"] \/ cmd' = [cmd EXCEPT ![c].st = "refused"]
    BY <1>3 DEF Dispatch
  <2> QED BY <1>b, <1>c, <2>1, <2>2
<1>4. CASE Start(c)
  <2>1. cmd[c].st = "checked" /\ UNCHANGED <<gen, thr, seq>> /\ cmd' = [cmd EXCEPT ![c].st = "running"]
    BY <1>4 DEF Start, holder
  <2> QED BY <1>b, <1>c, <2>1
<1>5. CASE Finish(c)
  <2>1. cmd[c].st = "running" /\ UNCHANGED <<gen, thr, seq>> /\ cmd' = [cmd EXCEPT ![c].st = "ended"]
    BY <1>5 DEF Finish, holder
  <2> QED BY <1>b, <1>c, <2>1
<1> QED BY <1>1, <1>2, <1>3, <1>4, <1>5 DEF RunStep

\* Every other step leaves the commands, their counters and the log alone.
LEMMA CommandsKept ==
  ASSUME [Next]_vars, ~ \E c \in Cmds : RunStep(c) \/ \E g \in Toggles : Ask(c, g)
  PROVE  UNCHANGED commands
BY DEF Next, Enter, OpenDone, OpenFails, Publish, Supersede, Expire, Revoke, CloseStep,
       SetClosed, Cancel, Unlinked, GrantKey, SessionEnds, HandleSessionEnded, Attach, RevokeKey, Lock,
       Unlock, Tick, Detach, HotKey, Return, Abandon, commands, vars

\* A numbered command has its call, its number and its key; an event of another
\* command never bears that key.
LEMMA KeyStep == ASSUME IInv, KeyShape, [Next]_vars PROVE KeyShape'
<1>a. cmd \in [Cmds -> Command] /\ seq \in [Toggles -> Nat] /\ gen \in Nat
  BY DEF IInv, TypeOK
<1>b. \A c \in Cmds : cmd[c].st # "none" => cmd[c].g \in Toggles /\ cmd[c].id \in Nat
  BY <1>a DEF Command, NoCommand
<1>c. gen' >= gen /\ gen' \in Nat
  <2>1. TypeOK'
    BY TypeStep DEF IInv
  <2> QED BY <2>1, HostKept DEF TypeOK
<1>d. Toggles \subseteq Nat
  BY DEF Toggles
<1>1. CASE UNCHANGED <<cmd, seq>>
  <2>1. \A c \in Cmds : KeyOf(c)' = KeyOf(c)
    BY <1>1 DEF KeyOf
  <2>2. \A c \in Cmds : cmd[c].st # "none" => cmd[c].g <= gen'
    <3> SUFFICES ASSUME NEW c \in Cmds, cmd[c].st # "none" PROVE cmd[c].g <= gen'
      OBVIOUS
    <3>1. cmd[c].g <= gen
      BY DEF KeyShape
    <3>2. cmd[c].g \in Nat
      BY <1>b, <1>d
    <3> QED BY <3>1, <3>2, <1>a, <1>c
  <2> QED BY <1>1, <2>1, <2>2 DEF KeyShape
<1>2. ASSUME NEW c \in Cmds, NEW g \in Toggles, Ask(c, g) PROVE KeyShape'
  <2>1. g <= gen /\ gen' = gen /\ seq' = seq
    <3>1. thr[g].pc # "idle"
      BY <1>2 DEF Ask, Granted
    <3> QED BY <1>2, <1>a, <1>d, <3>1 DEF Ask, holder, IInv, Shapes, CallShape
  <2>2. /\ cmd'[c].st = "asked" /\ cmd'[c].g = g
        /\ \A d \in Cmds \ {c} : cmd'[d] = cmd[d]
    BY <1>2, <1>a DEF Ask
  <2> QED BY <2>1, <2>2 DEF KeyShape, KeyOf, Numbered, Recorded
<1>3. ASSUME NEW c \in Cmds, Refuse(c) \/ Admit(c) PROVE KeyShape'
  <2> DEFINE g == cmd[c].g
  <2>1. /\ cmd[c].st = "asked" /\ gen' = gen /\ g \in Toggles
        /\ cmd'[c].st \in Numbered /\ cmd'[c].g = g /\ cmd'[c].id = seq[g] + 1
        /\ \A d \in Cmds \ {c} : cmd'[d] = cmd[d]
        /\ seq'[g] = seq[g] + 1 /\ \A h \in Toggles \ {g} : seq'[h] = seq[h]
    <3>1. cmd[c].st = "asked" /\ RunStep(c) /\ TypeOK
      BY <1>3 DEF Refuse, Admit, RunStep, IInv
    <3> QED BY <3>1, <1>a, StageMoves DEF Numbered, Recorded
  <2>2. seq[g] \in Nat
    BY <1>a, <2>1
  <2> HIDE DEF g
  <2>3. \A d \in Cmds \ {c} : cmd[d].st \in Numbered => KeyOf(d)' = KeyOf(d) /\ KeyOf(d) # KeyOf(c)'
    <3> SUFFICES ASSUME NEW d \in Cmds \ {c}, cmd[d].st \in Numbered, cmd[d].g = g, cmd[d].id = seq[g] + 1
                 PROVE  FALSE
      BY <2>1 DEF KeyOf
    <3>1. cmd[d].id <= seq[g]
      BY DEF KeyShape
    <3> QED BY <3>1, <2>2
  <2>4. \A d \in Cmds : cmd'[d].st # "none" => cmd'[d].g <= gen'
    BY <2>1 DEF KeyShape, g
  <2>5. \A d \in Cmds : cmd'[d].st \in Numbered => cmd'[d].id <= seq'[cmd'[d].g]
    <3> SUFFICES ASSUME NEW d \in Cmds, cmd'[d].st \in Numbered PROVE cmd'[d].id <= seq'[cmd'[d].g]
      OBVIOUS
    <3>1. CASE d = c
      BY <3>1, <2>1, <2>2
    <3>2. CASE d # c
      <4>1. cmd'[d] = cmd[d] /\ cmd[d].id <= seq[cmd[d].g] /\ cmd[d].g \in Toggles /\ cmd[d].id \in Nat
        BY <3>2, <2>1, <1>b DEF KeyShape, Numbered, Recorded
      <4>2. seq[cmd[d].g] \in Nat
        BY <4>1, <1>a
      <4> QED BY <4>1, <4>2, <2>1, <2>2
    <3> QED BY <3>1, <3>2
  <2>6. \A d, e \in Cmds : cmd'[d].st \in Numbered /\ cmd'[e].st \in Numbered /\ KeyOf(e)' = KeyOf(d)' => e = d
    BY <2>1, <2>3 DEF KeyShape
  <2> QED BY <2>4, <2>5, <2>6 DEF KeyShape
<1>4. ASSUME NEW c \in Cmds, Dispatch(c) \/ Start(c) \/ Finish(c) PROVE KeyShape'
  <2>1. /\ cmd[c].st \in Numbered /\ cmd'[c].st \in Numbered /\ UNCHANGED <<gen, seq>>
        /\ cmd'[c].g = cmd[c].g /\ cmd'[c].id = cmd[c].id
        /\ \A d \in Cmds \ {c} : cmd'[d] = cmd[d]
    <3>1. cmd[c].st # "asked" /\ RunStep(c) /\ TypeOK
      BY <1>4 DEF Dispatch, Start, Finish, RunStep, IInv
    <3> QED BY <3>1, StageMoves DEF Numbered, Recorded
  <2>2. \A d \in Cmds : KeyOf(d)' = KeyOf(d) /\ (cmd'[d].st \in Numbered <=> cmd[d].st \in Numbered)
    BY <2>1 DEF KeyOf
  <2>3. \A d \in Cmds : cmd'[d].st # "none" => cmd[d].st # "none" /\ cmd'[d].g = cmd[d].g /\ cmd'[d].id = cmd[d].id
    BY <2>1 DEF Numbered, Recorded
  <2> QED BY <2>1, <2>2, <2>3 DEF KeyShape, Numbered, Recorded
<1>5. CASE \E c \in Cmds : RunStep(c) \/ \E g \in Toggles : Ask(c, g)
  BY <1>2, <1>3, <1>4, <1>5 DEF RunStep
<1>6. CASE ~ \E c \in Cmds : RunStep(c) \/ \E g \in Toggles : Ask(c, g)
  BY <1>1, <1>6, CommandsKept DEF commands
<1> QED BY <1>5, <1>6

LEMMA AuditStep == ASSUME IInv, AuditInv, [Next]_vars PROVE AuditIsTrue'
<1>a. KeyShape'
  BY KeyStep DEF AuditInv
<1>b. cmd \in [Cmds -> Command] /\ seq \in [Toggles -> Nat] /\ TypeOK
  BY DEF IInv, TypeOK
<1>c. \A c \in Cmds : cmd[c].st # "none" => cmd[c].g \in Toggles /\ cmd[c].id \in Nat
  BY <1>b DEF Command, NoCommand
\* What records nothing and moves no recorded command leaves the log true.
<1>1. ASSUME UNCHANGED log,
             \A c \in Cmds : cmd'[c] = cmd[c] \/ (c \notin Audited /\ c \notin Audited')
      PROVE  AuditIsTrue'
  <2>1. \A c \in Audited : cmd[c].g \in Toggles /\ thr'[cmd[c].g].host = thr[cmd[c].g].host
    <3>1. \A c \in Audited : cmd[c].g \in Toggles /\ cmd[c].g <= gen
      BY <1>c DEF AuditInv, KeyShape, Audited
    <3> QED BY <3>1, HostKept
  <2>2. Audited' = Audited /\ \A c \in Audited : cmd'[c] = cmd[c]
    BY <1>1 DEF Audited
  <2>3. \A c \in Audited : \A r : RowOf(c, r)' <=> RowOf(c, r)
    BY <2>1, <2>2 DEF RowOf, KeyOf, HostOf
  <2> QED BY <1>1, <2>2, <2>3 DEF AuditInv, AuditIsTrue
<1>2. ASSUME NEW c \in Cmds, Refuse(c) PROVE AuditIsTrue'
  <2>1. /\ cmd[c].st = "asked" /\ cmd'[c].st = "refused"
        /\ cmd'[c].g = cmd[c].g /\ cmd'[c].id = seq[cmd[c].g] + 1
        /\ \A d \in Cmds \ {c} : cmd'[d] = cmd[d]
        /\ log' = Fold([g |-> cmd[c].g, id |-> seq[cmd[c].g] + 1], TRUE, TRUE) /\ UNCHANGED thr
    BY <1>2, <1>b, StageMoves DEF Refuse, RunStep
  <2>2. cmd[c].g \in Toggles /\ seq[cmd[c].g] + 1 \in Nat
    BY <2>1, <1>b, <1>c
  <2>3. KeyOf(c)' = [g |-> cmd[c].g, id |-> seq[cmd[c].g] + 1] /\ KeyOf(c)' \in Key
    BY <2>1, <2>2 DEF KeyOf, Key
  <2>4. c \notin Audited
    BY <2>1 DEF Audited
  <2>5. log' = Fold(KeyOf(c)', cmd'[c].st # "running", cmd'[c].st = "refused")
    BY <2>1, <2>3
  <2> QED BY <2>1, <2>3, <2>4, <2>5, <1>a, <1>b, AuditMove DEF Recorded
<1>3. ASSUME NEW c \in Cmds, Start(c) \/ Finish(c) \/ (Dispatch(c) /\ srv[cmd[c].g] \notin Accepting)
      PROVE  AuditIsTrue'
  <2>1. /\ cmd[c].st \in Numbered /\ cmd'[c].st \in Recorded
        /\ cmd'[c].g = cmd[c].g /\ cmd'[c].id = cmd[c].id
        /\ \A d \in Cmds \ {c} : cmd'[d] = cmd[d]
        /\ log' = Fold(KeyOf(c), cmd'[c].st # "running", cmd'[c].st = "refused") /\ UNCHANGED thr
    <3>1. RunStep(c) /\ cmd[c].st \in {"admitted", "checked", "running"}
      BY <1>3 DEF Start, Finish, Dispatch, RunStep
    <3>2. CASE Start(c)
      <4>1. cmd'[c].st = "running" /\ log' = Fold(KeyOf(c), FALSE, FALSE)
        BY <3>2, <1>b DEF Start
      <4> QED BY <3>1, <4>1, <1>b, StageMoves DEF Numbered, Recorded
    <3>3. CASE Finish(c)
      <4>1. cmd'[c].st = "ended" /\ log' = Fold(KeyOf(c), TRUE, FALSE)
        BY <3>3, <1>b DEF Finish
      <4> QED BY <3>1, <4>1, <1>b, StageMoves DEF Numbered, Recorded
    <3>4. CASE Dispatch(c) /\ srv[cmd[c].g] \notin Accepting
      <4>1. cmd' = [cmd EXCEPT ![c].st = "refused"] /\ log' = Fold(KeyOf(c), TRUE, TRUE)
        BY <3>4 DEF Dispatch
      <4>2. cmd'[c].st = "refused"
        BY <4>1, <1>b
      <4> QED BY <3>1, <4>1, <4>2, <1>b, StageMoves DEF Numbered, Recorded
    <3> QED BY <1>3, <3>2, <3>3, <3>4
  <2>2. KeyOf(c)' = KeyOf(c) /\ KeyOf(c)' \in Key
    BY <2>1, <1>c DEF KeyOf, Key, Numbered, Recorded
  <2>3. log' = Fold(KeyOf(c)', cmd'[c].st # "running", cmd'[c].st = "refused")
    BY <2>1, <2>2
  <2> QED BY <2>1, <2>2, <2>3, <1>a, <1>b, AuditMove
<1>4. ASSUME NEW c \in Cmds,
             Admit(c) \/ (\E g \in Toggles : Ask(c, g)) \/ (Dispatch(c) /\ srv[cmd[c].g] \in Accepting)
      PROVE  AuditIsTrue'
  <2>1. /\ c \notin Audited /\ c \notin Audited' /\ UNCHANGED log
        /\ \A d \in Cmds \ {c} : cmd'[d] = cmd[d]
    <3>1. CASE Admit(c)
      BY <3>1, <1>b DEF Admit, Audited
    <3>2. CASE \E g \in Toggles : Ask(c, g)
      BY <3>2, <1>b DEF Ask, Audited, NoCommand
    <3>3. CASE Dispatch(c) /\ srv[cmd[c].g] \in Accepting
      <4>1. cmd' = [cmd EXCEPT ![c].st = "checked"] /\ UNCHANGED log /\ cmd[c].st = "admitted"
        BY <3>3 DEF Dispatch
      <4> QED BY <4>1, <1>b DEF Audited
    <3> QED BY <1>4, <3>1, <3>2, <3>3
  <2> QED BY <2>1, <1>1
<1>5. CASE \E c \in Cmds : RunStep(c) \/ \E g \in Toggles : Ask(c, g)
  <2>1. PICK c \in Cmds : RunStep(c) \/ \E g \in Toggles : Ask(c, g)
    BY <1>5
  <2>2. CASE Dispatch(c)
    <3>1. CASE srv[cmd[c].g] \in Accepting
      BY <2>2, <3>1, <1>4
    <3>2. CASE srv[cmd[c].g] \notin Accepting
      BY <2>2, <3>2, <1>3
    <3> QED BY <3>1, <3>2
  <2>3. CASE Refuse(c)
    BY <2>3, <1>2
  <2>4. CASE Start(c) \/ Finish(c)
    BY <2>4, <1>3
  <2>5. CASE Admit(c) \/ \E g \in Toggles : Ask(c, g)
    BY <2>5, <1>4
  <2> QED BY <2>1, <2>2, <2>3, <2>4, <2>5 DEF RunStep
<1>6. CASE ~ \E c \in Cmds : RunStep(c) \/ \E g \in Toggles : Ask(c, g)
  <2>1. cmd' = cmd /\ log' = log
    BY <1>6, CommandsKept DEF commands
  <2>2. \A c \in Cmds : cmd'[c] = cmd[c] \/ (c \notin Audited /\ c \notin Audited')
    BY <2>1
  <2> QED BY <2>1, <2>2, <1>1
<1> QED BY <1>5, <1>6

\* The audit log is true of every command of every grant, whatever the cap of the
\* log and however many grants, refusals and ends are interleaved.
THEOREM AuditHolds == Spec => []AuditIsTrue
<1>1. Init => AuditInv
  BY DEF Init, AuditInv, KeyShape, AuditIsTrue, Audited, NoCommand, Numbered, Recorded
<1>2. IInv /\ AuditInv /\ [Next]_vars => AuditInv'
  BY AuditStep, KeyStep DEF AuditInv
<1>3. AuditInv => AuditIsTrue
  BY DEF AuditInv
<1> QED BY <1>1, <1>2, <1>3, Inductive, PTL DEF Spec

\* inFlight counts the admitted commands that have not ended, at most the cap of
\* them: what bounds the commands on the host (run).
Counted == {"admitted", "checked", "running", "ended"}
Flying  == {"admitted", "checked", "running"}
CountShape ==
  \A g \in Toggles :
    /\ IsFiniteSet(Under(g, Stage))
    /\ count[g] = Cardinality(Under(g, Counted))
    /\ inFlight[g] = Cardinality(Under(g, Flying)) /\ inFlight[g] <= MaxInFlight

LEMMA UnderFinite ==
  ASSUME NEW g \in Toggles, CountShape, NEW S \in SUBSET Stage
  PROVE  IsFiniteSet(Under(g, S)) /\ Cardinality(Under(g, S)) \in Nat
<1>1. Under(g, S) \subseteq Under(g, Stage) /\ IsFiniteSet(Under(g, Stage))
  BY DEF Under, CountShape
<1> QED BY <1>1, FS_Subset, FS_CardinalityType

\* One command moves: what that does to a set of commands by stage.
LEMMA UnderMoves ==
  ASSUME NEW c \in Cmds, NEW g \in Toggles, NEW S, \A d \in Cmds \ {c} : cmd'[d] = cmd[d]
  PROVE  /\ cmd'[c].g = g /\ cmd'[c].st \in S => Under(g, S)' = Under(g, S) \cup {c}
         /\ ~ (cmd'[c].g = g /\ cmd'[c].st \in S) => Under(g, S)' = Under(g, S) \ {c}
BY DEF Under

LEMMA CountStep == ASSUME IInv, CountShape, [Next]_vars PROVE CountShape'
<1>a. /\ cmd \in [Cmds -> Command] /\ TypeOK
      /\ inFlight \in [Toggles -> Int] /\ count \in [Toggles -> Int]
  BY DEF IInv, TypeOK
<1>b. Counted \subseteq Stage /\ Flying \subseteq Stage /\ Counted \in SUBSET Stage /\ Flying \in SUBSET Stage
  BY DEF Counted, Flying, Stage
\* The command c of grant g moves; its grant's counters follow, others are as before.
<1>1. ASSUME NEW c \in Cmds, NEW g \in Toggles, cmd[c] = NoCommand \/ cmd[c].g = g, cmd'[c].g = g,
             cmd'[c].st \in Stage, \A d \in Cmds \ {c} : cmd'[d] = cmd[d],
             \A h \in Toggles \ {g} : count'[h] = count[h] /\ inFlight'[h] = inFlight[h],
             count'[g] = count[g] + (IF cmd'[c].st \in Counted THEN 1 ELSE 0)
                                  - (IF cmd[c].st \in Counted THEN 1 ELSE 0),
             inFlight'[g] = inFlight[g] + (IF cmd'[c].st \in Flying THEN 1 ELSE 0)
                                        - (IF cmd[c].st \in Flying THEN 1 ELSE 0),
             inFlight'[g] <= MaxInFlight
      PROVE  CountShape'
  <2>1. \A h \in Toggles \ {g} : \A S : Under(h, S)' = Under(h, S)
    BY <1>1 DEF Under, NoCommand, Toggles
  <2>2. IsFiniteSet(Under(g, Stage)')
    <3>1. Under(g, Stage)' = Under(g, Stage) \cup {c}
      BY <1>1, UnderMoves
    <3> QED BY <3>1, UnderFinite, FS_AddElement, <1>b
  <2>3. ASSUME NEW S \in SUBSET Stage, "none" \notin S
        PROVE  Cardinality(Under(g, S)') = Cardinality(Under(g, S)) + (IF cmd'[c].st \in S THEN 1 ELSE 0)
                                                                 - (IF cmd[c].st \in S THEN 1 ELSE 0)
    <3>1. IsFiniteSet(Under(g, S)) /\ Cardinality(Under(g, S)) \in Nat
      BY UnderFinite
    <3>2. c \in Under(g, S) <=> cmd[c].st \in S
      BY <1>1, <2>3 DEF Under, NoCommand
    <3>3. CASE cmd'[c].st \in S
      <4>1. Under(g, S)' = Under(g, S) \cup {c}
        BY <1>1, <3>3, UnderMoves
      <4>2. Cardinality(Under(g, S) \cup {c}) = IF c \in Under(g, S) THEN Cardinality(Under(g, S))
                                               ELSE Cardinality(Under(g, S)) + 1
        BY <3>1, FS_AddElement
      <4>3. Cardinality(Under(g, S)') = Cardinality(Under(g, S) \cup {c})
        BY <4>1
      <4> QED BY <3>1, <3>2, <3>3, <4>2, <4>3
    <3>4. CASE cmd'[c].st \notin S
      <4>1. Under(g, S)' = Under(g, S) \ {c}
        BY <1>1, <3>4, UnderMoves
      <4>2. Cardinality(Under(g, S) \ {c}) = IF c \in Under(g, S) THEN Cardinality(Under(g, S)) - 1
                                             ELSE Cardinality(Under(g, S))
        BY <3>1, FS_RemoveElement
      <4>3. Cardinality(Under(g, S)') = Cardinality(Under(g, S) \ {c})
        BY <4>1
      <4> QED BY <3>1, <3>2, <3>4, <4>2, <4>3
    <3> QED BY <3>3, <3>4
  <2>4. /\ count'[g] = Cardinality(Under(g, Counted)')
        /\ inFlight'[g] = Cardinality(Under(g, Flying)')
    BY <1>1, <1>b, <2>3 DEF CountShape, Counted, Flying
  <2>5. \A h \in Toggles \ {g} :
          /\ IsFiniteSet(Under(h, Stage)')
          /\ count'[h] = Cardinality(Under(h, Counted)')
          /\ inFlight'[h] = Cardinality(Under(h, Flying)') /\ inFlight'[h] <= MaxInFlight
    BY <1>1, <2>1 DEF CountShape
  <2> QED BY <1>1, <2>2, <2>4, <2>5 DEF CountShape
<1>2. ASSUME NEW c \in Cmds, NEW g \in Toggles, Ask(c, g) PROVE CountShape'
  <2>1. /\ cmd[c] = NoCommand /\ cmd'[c].g = g /\ cmd'[c].st = "asked" /\ cmd[c].st = "none"
        /\ \A d \in Cmds \ {c} : cmd'[d] = cmd[d]
        /\ UNCHANGED <<count, inFlight>>
    BY <1>2, <1>a DEF Ask, NoCommand
  <2> QED BY <2>1, <1>1, <1>a DEF Stage, Counted, Flying, CountShape
<1>3. ASSUME NEW c \in Cmds, RunStep(c) PROVE CountShape'
  <2> DEFINE g == cmd[c].g
  <2>1. g \in Toggles /\ cmd'[c].g = g /\ \A d \in Cmds \ {c} : cmd'[d] = cmd[d]
    BY <1>3, <1>a, StageMoves
  <2>2. inFlight[g] \in Int /\ count[g] \in Int /\ inFlight[g] <= MaxInFlight /\ MaxInFlight \in Nat
    BY <2>1, <1>a, LimitsAssumption DEF CountShape
  <2>3. CASE Refuse(c)
    <3>1. cmd[c].st = "asked" /\ cmd'[c].st = "refused" /\ UNCHANGED <<count, inFlight>>
      BY <2>3, <1>a DEF Refuse
    <3> QED BY <2>1, <2>2, <3>1, <1>1 DEF Stage, Counted, Flying
  <2>4. CASE Admit(c)
    <3>1. /\ cmd[c].st = "asked" /\ cmd'[c].st = "admitted"
          /\ inFlight' = [inFlight EXCEPT ![g] = @ + 1] /\ count' = [count EXCEPT ![g] = @ + 1]
          /\ inFlight[g] < MaxInFlight
      BY <2>4, <1>a, <2>2 DEF Admit, Refusal
    <3>2. inFlight'[g] = inFlight[g] + 1 /\ count'[g] = count[g] + 1 /\ inFlight'[g] <= MaxInFlight
          /\ \A h \in Toggles \ {g} : count'[h] = count[h] /\ inFlight'[h] = inFlight[h]
      BY <2>1, <2>2, <3>1, <1>a
    <3> QED BY <2>1, <2>2, <3>1, <3>2, <1>1 DEF Stage, Counted, Flying
  <2>5. CASE Dispatch(c) /\ srv[g] \in Accepting
    <3>1. cmd[c].st = "admitted" /\ cmd' = [cmd EXCEPT ![c].st = "checked"] /\ UNCHANGED <<count, inFlight>>
      BY <2>5 DEF Dispatch
    <3>2. cmd'[c].st = "checked"
      BY <3>1, <1>a
    <3> QED BY <2>1, <2>2, <3>1, <3>2, <1>1 DEF Stage, Counted, Flying
  <2>6. CASE Dispatch(c) /\ srv[g] \notin Accepting
    <3>1. /\ cmd[c].st = "admitted" /\ cmd' = [cmd EXCEPT ![c].st = "refused"]
          /\ inFlight' = [inFlight EXCEPT ![g] = @ - 1] /\ count' = [count EXCEPT ![g] = @ - 1]
      BY <2>6 DEF Dispatch
    <3>2. cmd'[c].st = "refused"
      BY <3>1, <1>a
    <3>3. inFlight'[g] = inFlight[g] - 1 /\ count'[g] = count[g] - 1 /\ inFlight'[g] <= MaxInFlight
          /\ \A h \in Toggles \ {g} : count'[h] = count[h] /\ inFlight'[h] = inFlight[h]
      BY <2>1, <2>2, <3>1, <1>a
    <3> QED BY <2>1, <2>2, <3>1, <3>2, <3>3, <1>1 DEF Stage, Counted, Flying
  <2>7. CASE Start(c)
    <3>1. cmd[c].st = "checked" /\ cmd'[c].st = "running" /\ UNCHANGED <<count, inFlight>>
      BY <2>7, <1>a DEF Start
    <3> QED BY <2>1, <2>2, <3>1, <1>1 DEF Stage, Counted, Flying
  <2>8. CASE Finish(c)
    <3>1. /\ cmd[c].st = "running" /\ cmd'[c].st = "ended" /\ UNCHANGED count
          /\ inFlight' = [inFlight EXCEPT ![g] = @ - 1]
      BY <2>8, <1>a DEF Finish
    <3>2. inFlight'[g] = inFlight[g] - 1 /\ inFlight'[g] <= MaxInFlight
          /\ \A h \in Toggles \ {g} : count'[h] = count[h] /\ inFlight'[h] = inFlight[h]
      BY <2>1, <2>2, <3>1, <1>a
    <3> QED BY <2>1, <2>2, <3>1, <3>2, <1>1 DEF Stage, Counted, Flying
  <2> QED BY <1>3, <2>3, <2>4, <2>5, <2>6, <2>7, <2>8 DEF RunStep
<1>4. CASE ~ \E c \in Cmds : RunStep(c) \/ \E g \in Toggles : Ask(c, g)
  <2>1. cmd' = cmd /\ count' = count /\ inFlight' = inFlight
    BY <1>4, CommandsKept DEF commands
  <2>2. \A g \in Toggles : \A S : Under(g, S)' = Under(g, S)
    BY <2>1 DEF Under
  <2> QED BY <2>1, <2>2 DEF CountShape
<1> QED BY <1>2, <1>3, <1>4

\* Count is the number of commands that were or will be run and never counts a
\* refused one, and no more than MaxInFlight run at once, for every set of
\* commands and every interleaving of admissions, refusals and closes.
THEOREM CountsHold == Spec => []CountsAreHonest
<1>1. Init => CountShape
  <2> SUFFICES ASSUME Init PROVE CountShape
    OBVIOUS
  <2>1. \A g \in Toggles : \A S : Under(g, S) = {}
    BY DEF Init, Under, NoCommand, Toggles
  <2>2. \A g \in Toggles : count[g] = 0 /\ inFlight[g] = 0
    BY DEF Init
  <2> QED BY <2>1, <2>2, FS_EmptySet, LimitsAssumption DEF CountShape
<1>2. IInv /\ CountShape /\ [Next]_vars => CountShape'
  BY CountStep
<1>3. CountShape => CountsAreHonest
  <2> SUFFICES ASSUME CountShape, NEW g \in Toggles
               PROVE  /\ count[g] = Cardinality(Under(g, Counted))
                      /\ Cardinality(Under(g, {"checked", "running"})) <= MaxInFlight
    BY DEF CountsAreHonest, Counted
  <2>1. Under(g, {"checked", "running"}) \subseteq Under(g, Flying)
    BY DEF Under, Flying
  <2>2. IsFiniteSet(Under(g, Flying)) /\ Cardinality(Under(g, Flying)) \in Nat
        /\ Cardinality(Under(g, {"checked", "running"})) \in Nat
    BY UnderFinite DEF Flying, Stage
  <2>3. Cardinality(Under(g, {"checked", "running"})) <= Cardinality(Under(g, Flying))
    BY <2>1, <2>2, FS_Subset
  <2>4. Cardinality(Under(g, Flying)) <= MaxInFlight
    BY DEF CountShape
  <2> QED BY <2>2, <2>3, <2>4, LimitsAssumption DEF CountShape
<1> QED BY <1>1, <1>2, <1>3, Inductive, PTL DEF Spec

-----------------------------------------------------------------------------
(* The holder implements GrantPromise *)

Answerable == {t \in Toggles : thr[t].pc \in {"open", "opened"} /\ thr[t].epoch = epoch}
Entered    == {t \in Toggles : thr[t].pc \notin {"idle", "called"}}

\* What moves no call across the states the promise tells apart is a stutter.
LEMMA PromiseStutters ==
  ASSUME UNCHANGED <<grant, epoch>>,
         \A t \in Toggles : /\ thr'[t].pc \in {"open", "opened"} <=> thr[t].pc \in {"open", "opened"}
                            /\ thr'[t].pc \in {"open", "opened"} => thr'[t].epoch = thr[t].epoch
                            /\ thr'[t].pc \in {"idle", "called"} <=> thr[t].pc \in {"idle", "called"}
  PROVE  UNCHANGED Promise!promise
<1>1. Answerable' = Answerable
  BY DEF Answerable
<1>2. Entered' = Entered
  BY DEF Entered
<1> QED BY <1>1, <1>2 DEF Promise!promise, Answerable, Entered

LEMMA PromiseInit == Init => Promise!Init
<1> SUFFICES ASSUME Init PROVE Promise!Init
  OBVIOUS
<1>1. \A t \in Toggles : thr[t].pc = "idle"
  BY DEF Init, Toggles, Threads
<1> QED BY <1>1 DEF Init, Promise!Init

LEMMA PromiseStep == IInv /\ [Next]_vars => [Promise!Next]_(Promise!promise)
<1> SUFFICES ASSUME IInv, [Next]_vars PROVE Promise!Next \/ UNCHANGED Promise!promise
  OBVIOUS
<1>a. Toggles \subseteq Threads /\ 0 \in Threads /\ 0 \notin Toggles
  BY BoundsAssumption DEF Toggles, Threads
<1>b. thr \in [Threads -> Thread] /\ epoch \in Nat /\ grant \in Toggles \cup {0}
  BY BoundsAssumption DEF IInv, TypeOK, Toggles
<1>c. \A t \in Threads : thr[t].epoch \in Nat
  BY <1>b DEF Thread
<1>0. CASE UNCHANGED <<grant, epoch, thr>>
  BY <1>0, PromiseStutters
<1>1. ASSUME NEW t \in Toggles, Enter(t) PROVE Promise!Ask(t)
  <2>1. /\ UNCHANGED <<grant, epoch>> /\ thr[t].pc = "called"
        /\ thr'[t].pc \in {"open", "revoke"} /\ thr'[t].epoch = epoch
        /\ \A u \in Toggles \ {t} : thr'[u] = thr[u]
    BY <1>1, <1>a, <1>b DEF Enter, holder
  <2>2. t \notin Entered /\ Entered' = Entered \cup {t}
    BY <2>1 DEF Entered
  <2>3. Answerable' \in {Answerable, Answerable \cup {t}}
    <3>1. CASE thr'[t].pc = "open"
      BY <2>1, <3>1 DEF Answerable
    <3>2. CASE thr'[t].pc = "revoke"
      BY <2>1, <3>2 DEF Answerable
    <3> QED BY <2>1, <3>1, <3>2
  <2> QED BY <2>1, <2>2, <2>3 DEF Promise!Ask, Answerable, Entered
<1>2. ASSUME NEW t \in Toggles, OpenDone(t) PROVE UNCHANGED Promise!promise
  BY <1>2, <1>a, <1>b, PromiseStutters DEF OpenDone, holder
<1>3. ASSUME NEW t \in Toggles, OpenFails(t) PROVE Promise!Fail(t) \/ UNCHANGED Promise!promise
  <2>1. /\ UNCHANGED <<grant, epoch>> /\ thr[t].pc = "open" /\ thr'[t].pc = "done"
        /\ \A u \in Toggles \ {t} : thr'[u] = thr[u]
    BY <1>3, <1>a, <1>b DEF OpenFails, Settle, holder
  <2>2. Entered' = Entered
    BY <2>1 DEF Entered
  <2>3. Answerable' = Answerable \ {t}
    BY <2>1 DEF Answerable
  <2>4. CASE t \in Answerable
    BY <2>1, <2>2, <2>3, <2>4 DEF Promise!Fail, Answerable, Entered
  <2>5. CASE t \notin Answerable
    <3>1. Answerable' = Answerable
      BY <2>3, <2>5
    <3> QED BY <2>1, <2>2, <3>1 DEF Promise!promise, Answerable, Entered
  <2> QED BY <2>4, <2>5
<1>4. ASSUME NEW t \in Toggles, Publish(t) PROVE Promise!Grant(t)
  <2>1. /\ thr[t].pc = "opened" /\ thr[t].epoch = epoch /\ thr'[t].pc \in {"done", "close"}
        /\ grant' = t /\ epoch' = epoch + 1
        /\ \A u \in Toggles \ {t} : thr'[u] = thr[u]
    BY <1>4, <1>a, <1>b DEF Publish, Overtaken, Settle
  <2>2. t \in Answerable /\ Entered' = Entered
    BY <2>1 DEF Answerable, Entered
  <2>3. Answerable' = {}
    BY <1>a, <1>b, <1>c, <2>1 DEF Answerable, IInv, Shapes, EpochShape
  <2>4. {grant'} \ {0} = {t}
    BY <1>a, <2>1
  <2> QED BY <2>2, <2>3, <2>4 DEF Promise!Grant, Answerable, Entered
<1>5. ASSUME NEW t \in Toggles, Supersede(t) PROVE UNCHANGED Promise!promise
  <2>1. /\ UNCHANGED <<grant, epoch>> /\ thr[t].pc = "opened" /\ thr'[t].pc = "close"
        /\ thr[t].epoch # epoch /\ \A u \in Toggles \ {t} : thr'[u] = thr[u]
    BY <1>5, <1>a, <1>b DEF Supersede, Overtaken, Settle, holder
  <2>2. Answerable' = Answerable /\ Entered' = Entered
    BY <2>1 DEF Answerable, Entered
  <2> QED BY <2>1, <2>2 DEF Promise!promise, Answerable, Entered
<1>6. ASSUME NEW t \in Threads, Revoke(t) PROVE Promise!Withdraw
  <2>1. /\ grant' = 0 /\ epoch' = epoch + 1
        /\ thr[t].pc = "revoke" /\ thr'[t].pc \in {"done", "close"}
        /\ \A u \in Threads \ {t} : thr'[u] = thr[u]
    BY <1>6, <1>b DEF Revoke, Settle
  <2>2. Entered' = Entered
    BY <1>a, <2>1 DEF Entered
  <2>3. Answerable' = {}
    BY <1>a, <1>b, <1>c, <2>1 DEF Answerable, IInv, Shapes, EpochShape
  <2> QED BY <2>1, <2>2, <2>3 DEF Promise!Withdraw, Answerable, Entered
<1>7. ASSUME NEW t \in Threads, CloseStep(t) PROVE UNCHANGED Promise!promise
  <2>1. /\ UNCHANGED <<grant, epoch>> /\ \A u \in Threads \ {t} : thr'[u] = thr[u]
        /\ thr[t].pc \in {"close", "closing"} /\ thr'[t].pc \in {"close", "closing", "done"}
    <3>1. CASE SetClosed(t)
      BY <3>1, <1>b DEF SetClosed, holder
    <3>2. CASE Cancel(t)
      BY <3>2 DEF Cancel, holder
    <3>3. CASE Unlinked(t)
      BY <3>3, <1>b DEF Unlinked, Settle, holder
    <3> QED BY <1>7, <3>1, <3>2, <3>3 DEF CloseStep
  <2> QED BY <1>a, <2>1, PromiseStutters
<1>8. ASSUME NEW h \in HostIds, Call(h) PROVE UNCHANGED Promise!promise
  <2>1. gen + 1 \in Threads /\ thr[gen + 1].pc = "idle"
    BY <1>8, BoundsAssumption DEF Call, Threads, Toggles, IInv, TypeOK, Shapes, CallShape
  <2>2. /\ UNCHANGED <<grant, epoch>> /\ thr'[gen + 1].pc = "called"
        /\ \A u \in Threads \ {gen + 1} : thr'[u] = thr[u]
    BY <1>8, <1>b, <2>1 DEF Call, Thread
  <2> QED BY <1>a, <2>1, <2>2, PromiseStutters
<1>9. ASSUME UNCHANGED <<grant, epoch>>, \A u \in Toggles : thr'[u] = thr[u]
      PROVE  UNCHANGED Promise!promise
  BY <1>9, PromiseStutters
<1>10. CASE RevokeKey \/ Lock \/ Tick \/ Return \/ \E h \in HostIds : HandleSessionEnded(h)
  BY <1>10, <1>9, <1>a, <1>b DEF RevokeKey, Lock, Tick, Return, HandleSessionEnded, UIRevokes, holder
<1>11. CASE HotKey \/ \E h \in HostIds : GrantKey(h)
  BY <1>11, <1>8 DEF HotKey, GrantKey, IInv, TypeOK
<1>12. CASE \/ Unlock \/ Detach \/ Abandon
            \/ \E h \in HostIds : SessionEnds(h) \/ Attach(h)
            \/ \E t \in Toggles : Expire(t)
  BY <1>12, <1>0 DEF Unlock, Detach, Abandon, SessionEnds, Attach, Expire, holder
<1>13. CASE \E c \in Cmds : RunStep(c) \/ \E g \in Toggles : Ask(c, g)
  BY <1>13, <1>0 DEF RunStep, Ask, Refuse, Admit, Dispatch, Start, Finish, holder
<1>14. CASE UNCHANGED vars
  BY <1>14, <1>0 DEF vars
<1>15. Promise!Next <=> Promise!Withdraw \/ \E t \in Toggles : Promise!Ask(t) \/ Promise!Fail(t) \/ Promise!Grant(t)
  BY DEF Promise!Next
<1> QED
  BY <1>1, <1>2, <1>3, <1>4, <1>5, <1>6, <1>7, <1>10, <1>11, <1>12, <1>13, <1>14, <1>15 DEF Next

\* Every behaviour of the holder, its UI and its attach loop is one that
\* GrantPromise allows: one grant, first answer wins, a withdrawal cancels all.
THEOREM Implements == Spec => KeepsPromise
<1>1. Init => Promise!Init
  BY PromiseInit
<1>2. IInv /\ [Next]_vars => [Promise!Next]_(Promise!promise)
  BY PromiseStep
<1> QED BY <1>1, <1>2, Inductive, PTL DEF Spec, KeepsPromise, Promise!Spec

=============================================================================
