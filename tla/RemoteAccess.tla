---------------------------- MODULE RemoteAccess ----------------------------
(***************************************************************************)
(* The remote-access grant: internal/remoteaccess (holder.go, grant.go)    *)
(* and the places that mint and revoke it (internal/ui,                    *)
(* update_remoteaccess.go, update_unlock.go; internal/sessd, attach.go).   *)
(*                                                                         *)
(* Actors: the UI reducer, blocked while it waits for a call of its own;   *)
(* the goroutine of every Toggle, which the attach loop may stop waiting   *)
(* for while it is stuck in Open; the grant's goroutine for every command  *)
(* a client sends.  A step is one critical section of Holder.mu or         *)
(* Grant.mu, or one of the calls between them that others can observe.     *)
(* A grant is named by the generation of the Toggle that minted it.        *)
(* A host has one session and no session is opened again after it ended.   *)
(***************************************************************************)
EXTENDS Integers, Sequences, FiniteSets

CONSTANTS
  HostIds,      \* hosts with a session
  Cmds,         \* commands clients send
  MaxInFlight,  \* Options.MaxInFlight
  LogMax,       \* LogMax of the audit log
  MaxToggles,   \* bound: calls of Holder.Toggle
  MaxLocks,     \* bound: times the vault is locked
  MaxEnds       \* bound: sessions that end

ASSUME LimitsAssumption == MaxInFlight \in Nat \ {0} /\ LogMax \in Nat \ {0}
ASSUME BoundsAssumption == {MaxToggles, MaxLocks, MaxEnds} \subseteq Nat
ASSUME HostsAssumption == HostIds # {}

Toggles == 1..MaxToggles
Threads == 0..MaxToggles   \* 0 runs the revocations of the UI itself

VARIABLES
  grant,    \* Holder.grant: the generation of the grant, 0 for nil
  epoch,    \* Holder.epoch
  gen,      \* Holder.gen
  thr,      \* the calls of Toggle and Revoke
  srv,      \* Grant: none, open, flagged (closed is set), cancelled, down
  expired,  \* grants past expiresAt
  cmd,      \* Grant.run, one goroutine per command
  seq,      \* Grant.seq
  inFlight, \* Grant.inFlight
  count,    \* Grant.count
  log,      \* Holder.log, newest first
  alive,    \* hosts whose session is alive
  ended,    \* SessionEndedMsg not handled yet
  ui,       \* mode, attached host, call it waits for, mode after that call
  locks     \* how much of MaxLocks has been used

holder   == <<grant, epoch, gen>>
commands == <<cmd, seq, inFlight, count, log>>
sessions == <<alive, ended>>
vars == <<grant, epoch, gen, thr, srv, expired, cmd, seq, inFlight, count, log,
          alive, ended, ui, locks>>

-----------------------------------------------------------------------------

PC == {"idle", "called", "open", "opened", "revoke", "close", "closing", "done"}
Outcome == {"none", "granted", "replaced", "revoked", "superseded", "failed"}
\* A call's host, the epoch it captured, the grant it found and will close, and
\* the outcome it returns.
Thread == [pc : PC, host : HostIds, epoch : Nat, target : 0..MaxToggles, out : Outcome]

ServerState == {"none", "open", "flagged", "cancelled", "down"}
\* The accept loop and the context end before Close returns.
Accepting == {"open", "flagged"}
Standing == {"open", "flagged", "cancelled"}

Stage == {"none", "asked", "admitted", "checked", "running", "ended", "refused"}
NoCommand == [st |-> "none", g |-> 0, id |-> 0]
Command == {NoCommand} \cup [st : Stage \ {"none"}, g : Toggles, id : Nat]
Key == [g : Toggles, id : Nat]
Row == [key : Key, host : HostIds, finished : BOOLEAN, refused : BOOLEAN]

HostOf(g) == thr[g].host
Granted(g) == thr[g].pc = "done" /\ thr[g].out \in {"granted", "replaced"}

Init ==
  /\ grant = 0 /\ epoch = 0 /\ gen = 0
  /\ \E h \in HostIds :
       /\ thr = [t \in Threads |-> [pc |-> "idle", host |-> h, epoch |-> 0, target |-> 0,
                                    out |-> "none"]]
       /\ ui = [mode |-> "dash", at |-> {}, wait |-> {}, next |-> "dash"]
  /\ srv = [g \in Toggles |-> "none"]
  /\ expired = {}
  /\ cmd = [c \in Cmds |-> NoCommand]
  /\ seq = [g \in Toggles |-> 0]
  /\ inFlight = [g \in Toggles |-> 0]
  /\ count = [g \in Toggles |-> 0]
  /\ log = <<>>
  /\ alive = HostIds /\ ended = {}
  /\ locks = 0

-----------------------------------------------------------------------------
(* Holder.Toggle and Holder.Revoke *)

\* A key calls Toggle.  Calls are numbered here and not in the critical section
\* that increments Holder.gen: all that matters is that no two share a number.
Call(h) ==
  /\ gen < MaxToggles
  /\ gen' = gen + 1
  /\ thr' = [thr EXCEPT ![gen + 1].pc = "called", ![gen + 1].host = h]
  /\ UNCHANGED <<grant, epoch>>

\* The first critical section: the grant of the same host is to be revoked, in
\* any other case a new one is opened.
Enter(t) ==
  /\ thr[t].pc = "called"
  /\ thr' = [thr EXCEPT ![t] =
       [pc |-> IF grant # 0 /\ HostOf(grant) = HostOf(t) THEN "revoke" ELSE "open",
        host |-> @.host, epoch |-> epoch, target |-> grant, out |-> "none"]]
  /\ UNCHANGED <<holder, srv, expired, commands, sessions, ui, locks>>

\* The captured epoch is of no use past the second critical section.
Settle(t, pc, target, out) ==
  thr' = [thr EXCEPT ![t] = [pc |-> pc, host |-> @.host, epoch |-> 0,
                             target |-> target, out |-> out]]

\* Open: the socket listens and the accept loop runs before it returns.
OpenDone(t) ==
  /\ thr[t].pc = "open"
  /\ thr' = [thr EXCEPT ![t].pc = "opened"]
  /\ srv' = [srv EXCEPT ![t] = "open"]
  /\ UNCHANGED <<holder, expired, commands, sessions, ui, locks>>

OpenFails(t) ==
  /\ thr[t].pc = "open"
  /\ Settle(t, "done", 0, "failed")
  /\ UNCHANGED <<holder, srv, expired, commands, sessions, ui, locks>>

\* Mutant: the grant stands for the epoch, so a withdrawal of no grant is missed.
OvertakenByGrant(t) == thr[t].target # grant
Overtaken(t) == thr[t].epoch # epoch

Publish(t) ==
  /\ thr[t].pc = "opened" /\ ~Overtaken(t)
  /\ grant' = t /\ epoch' = epoch + 1
  /\ LET cur == thr[t].target IN
       IF cur = 0 THEN Settle(t, "done", 0, "granted") ELSE Settle(t, "close", cur, "replaced")
  /\ UNCHANGED <<gen, srv, expired, commands, sessions, ui, locks>>

\* Mutant: the socket of the loser stays.
SupersedeLeaks(t) ==
  /\ thr[t].pc = "opened" /\ Overtaken(t)
  /\ Settle(t, "done", 0, "superseded")
  /\ UNCHANGED <<holder, srv, expired, commands, sessions, ui, locks>>
Supersede(t) ==
  /\ thr[t].pc = "opened" /\ Overtaken(t)
  /\ Settle(t, "close", t, "superseded")
  /\ UNCHANGED <<holder, srv, expired, commands, sessions, ui, locks>>

\* Mutants: with no grant there is nothing to revoke; Open runs under the mutex.
RevokeNothing(t) ==
  /\ thr[t].pc = "revoke"
  /\ grant' = 0 /\ epoch' = IF grant = 0 THEN epoch ELSE epoch + 1
  /\ Settle(t, IF grant = 0 THEN "done" ELSE "close", grant, "revoked")
  /\ UNCHANGED <<gen, srv, expired, commands, sessions, ui, locks>>
RevokeAfterOpen(t) ==
  /\ thr[t].pc = "revoke" /\ \A u \in Toggles : thr[u].pc # "open"
  /\ grant' = 0 /\ epoch' = epoch + 1
  /\ Settle(t, IF grant = 0 THEN "done" ELSE "close", grant, "revoked")
  /\ UNCHANGED <<gen, srv, expired, commands, sessions, ui, locks>>
Revoke(t) ==
  /\ thr[t].pc = "revoke"
  /\ grant' = 0 /\ epoch' = epoch + 1
  /\ Settle(t, IF grant = 0 THEN "done" ELSE "close", grant, "revoked")
  /\ UNCHANGED <<gen, srv, expired, commands, sessions, ui, locks>>

-----------------------------------------------------------------------------
(* Grant.Close, called by Toggle and Revoke *)

\* A grant has one closer, so the early return for a closed one is never taken.
SetClosed(t) ==
  LET g == thr[t].target IN
  /\ thr[t].pc = "close" /\ srv[g] = "open"
  /\ srv' = [srv EXCEPT ![g] = "flagged"]
  /\ thr' = [thr EXCEPT ![t].pc = "closing"]
  /\ UNCHANGED <<holder, expired, commands, sessions, ui, locks>>

Cancel(t) ==
  /\ thr[t].pc = "closing" /\ srv[thr[t].target] = "flagged"
  /\ srv' = [srv EXCEPT ![thr[t].target] = "cancelled"]
  /\ UNCHANGED <<holder, thr, expired, commands, sessions, ui, locks>>

\* The listener is closed, the socket unlinked, the accept loop gone.
Unlinked(t) ==
  /\ thr[t].pc = "closing" /\ srv[thr[t].target] = "cancelled"
  /\ srv' = [srv EXCEPT ![thr[t].target] = "down"]
  /\ Settle(t, "done", 0, thr[t].out)
  /\ UNCHANGED <<holder, expired, commands, sessions, ui, locks>>

-----------------------------------------------------------------------------
(* Grant.handle and Grant.run *)

KeyOf(c) == [g |-> cmd[c].g, id |-> cmd[c].id]

\* record: the row with the event's key is updated, or a new one prepended.
\* Mutant: rows are told apart by the command's number only.
FoldById(k, finished, refused) ==
  IF \E i \in DOMAIN log : log[i].key.id = k.id
  THEN [i \in DOMAIN log |->
         IF log[i].key.id = k.id THEN [log[i] EXCEPT !.finished = finished, !.refused = refused]
         ELSE log[i]]
  ELSE LET row == [key |-> k, host |-> HostOf(k.g), finished |-> finished, refused |-> refused]
       IN  SubSeq(<<row>> \o log, 1, IF Len(log) < LogMax THEN Len(log) + 1 ELSE LogMax)
Fold(k, finished, refused) ==
  IF \E i \in DOMAIN log : log[i].key = k
  THEN [i \in DOMAIN log |->
         IF log[i].key = k THEN [log[i] EXCEPT !.finished = finished, !.refused = refused]
         ELSE log[i]]
  ELSE LET row == [key |-> k, host |-> HostOf(k.g), finished |-> finished, refused |-> refused]
       IN  SubSeq(<<row>> \o log, 1, IF Len(log) < LogMax THEN Len(log) + 1 ELSE LogMax)

\* A client that was given the command line connects and authenticates.
Ask(c, g) ==
  /\ cmd[c] = NoCommand /\ Granted(g) /\ srv[g] \in Standing
  /\ cmd' = [cmd EXCEPT ![c] = [st |-> "asked", g |-> g, id |-> 0]]
  /\ UNCHANGED <<holder, thr, srv, expired, seq, inFlight, count, log, sessions, ui, locks>>

\* Mutant: one command too many.
RefusalLate(g) == srv[g] # "open" \/ g \in expired \/ inFlight[g] > MaxInFlight
Refusal(g) == srv[g] # "open" \/ g \in expired \/ inFlight[g] >= MaxInFlight

Refuse(c) ==
  LET g == cmd[c].g IN
  /\ cmd[c].st = "asked" /\ Refusal(g)
  /\ seq' = [seq EXCEPT ![g] = @ + 1]
  /\ cmd' = [cmd EXCEPT ![c] = [st |-> "refused", g |-> g, id |-> seq[g] + 1]]
  /\ log' = Fold([g |-> g, id |-> seq[g] + 1], TRUE, TRUE)
  /\ UNCHANGED <<holder, thr, srv, expired, inFlight, count, sessions, ui, locks>>

Admit(c) ==
  LET g == cmd[c].g IN
  /\ cmd[c].st = "asked" /\ ~Refusal(g)
  /\ seq' = [seq EXCEPT ![g] = @ + 1]
  /\ cmd' = [cmd EXCEPT ![c] = [st |-> "admitted", g |-> g, id |-> seq[g] + 1]]
  /\ inFlight' = [inFlight EXCEPT ![g] = @ + 1]
  /\ count' = [count EXCEPT ![g] = @ + 1]
  /\ UNCHANGED <<holder, thr, srv, expired, log, sessions, ui, locks>>

\* The context is looked at again between the gates and the dispatch.  Mutant: a
\* command whose context is gone is neither run nor refused.
DispatchLive(c) ==
  /\ cmd[c].st = "admitted" /\ srv[cmd[c].g] \in Accepting
  /\ cmd' = [cmd EXCEPT ![c].st = "checked"]
  /\ UNCHANGED <<holder, thr, srv, expired, seq, inFlight, count, log, sessions, ui, locks>>
Dispatch(c) ==
  LET g == cmd[c].g IN
  /\ cmd[c].st = "admitted"
  /\ \/ /\ srv[g] \in Accepting
        /\ cmd' = [cmd EXCEPT ![c].st = "checked"]
        /\ UNCHANGED <<inFlight, count, log>>
     \/ /\ srv[g] \notin Accepting
        /\ cmd' = [cmd EXCEPT ![c].st = "refused"]
        /\ count' = [count EXCEPT ![g] = @ - 1]
        /\ inFlight' = [inFlight EXCEPT ![g] = @ - 1]
        /\ log' = Fold(KeyOf(c), TRUE, TRUE)
  /\ UNCHANGED <<holder, thr, srv, expired, seq, sessions, ui, locks>>

\* The start event, and the request frame Exec writes whatever the context is.
Start(c) ==
  /\ cmd[c].st = "checked"
  /\ cmd' = [cmd EXCEPT ![c].st = "running"]
  /\ log' = Fold(KeyOf(c), FALSE, FALSE)
  /\ UNCHANGED <<holder, thr, srv, expired, seq, inFlight, count, sessions, ui, locks>>

\* Exec returned: the command ended, or the context or the session did.
Finish(c) ==
  /\ cmd[c].st = "running"
  /\ cmd' = [cmd EXCEPT ![c].st = "ended"]
  /\ inFlight' = [inFlight EXCEPT ![cmd[c].g] = @ - 1]
  /\ log' = Fold(KeyOf(c), TRUE, FALSE)
  /\ UNCHANGED <<holder, thr, srv, expired, seq, count, sessions, ui, locks>>

Expire(g) ==
  /\ srv[g] \in Standing /\ g \notin expired
  /\ expired' = expired \cup {g}
  /\ UNCHANGED <<holder, thr, srv, commands, sessions, ui, locks>>

-----------------------------------------------------------------------------
(* The UI: one handler at a time, suspended while a session is attached *)

Free(mode) == ui.wait = {} /\ ui.mode = mode
Handling == ui.wait = {} /\ ui.mode # "attached"

\* The UI calls Holder.Revoke and waits for it.
UIRevokes(next) ==
  /\ thr' = [thr EXCEPT ![0].pc = "revoke"]
  /\ ui' = [ui EXCEPT !.wait = {0}, !.next = next]

\* The r key of the hosts tab, and x in the overlay: any live grant is revoked;
\* with none, the selected host's live session is given one.
RevokeKey ==
  /\ Free("dash") /\ grant # 0
  /\ UIRevokes("dash")
  /\ UNCHANGED <<holder, srv, expired, commands, sessions, locks>>

GrantKey(h) ==
  /\ Free("dash") /\ grant = 0 /\ h \in alive
  /\ Call(h)
  /\ ui' = [ui EXCEPT !.wait = {gen + 1}]
  /\ UNCHANGED <<srv, expired, commands, sessions, locks>>

Lock ==
  /\ Free("dash") /\ locks < MaxLocks
  /\ locks' = locks + 1
  /\ UIRevokes("locked")
  /\ UNCHANGED <<holder, srv, expired, commands, sessions>>

Unlock ==
  /\ Free("locked")
  /\ ui' = [ui EXCEPT !.mode = "dash", !.next = "dash"]
  /\ UNCHANGED <<holder, thr, srv, expired, commands, sessions, locks>>

\* The tick: a grant past its deadline is revoked.
Tick ==
  /\ Handling /\ grant \in expired
  /\ UIRevokes(ui.mode)
  /\ UNCHANGED <<holder, srv, expired, commands, sessions, locks>>

SessionEnds(h) ==
  /\ h \in alive /\ Cardinality(HostIds \ alive) < MaxEnds
  /\ alive' = alive \ {h} /\ ended' = ended \cup {h}
  /\ UNCHANGED <<holder, thr, srv, expired, commands, ui, locks>>

HandleSessionEnded(h) ==
  /\ Handling /\ h \in ended
  /\ ended' = ended \ {h}
  /\ \/ grant # 0 /\ HostOf(grant) = h /\ UIRevokes(ui.mode)
     \/ (grant = 0 \/ HostOf(grant) # h) /\ UNCHANGED <<thr, ui>>
  /\ UNCHANGED <<holder, srv, expired, commands, alive, locks>>

Attach(h) ==
  /\ Free("dash") /\ h \in alive
  /\ ui' = [ui EXCEPT !.mode = "attached", !.next = "attached", !.at = {h}]
  /\ UNCHANGED <<holder, thr, srv, expired, commands, sessions, locks>>

\* Detached by its key, or the session ended.
Detach ==
  /\ Free("attached")
  /\ ui' = [ui EXCEPT !.mode = "dash", !.next = "dash", !.at = {}]
  /\ UNCHANGED <<holder, thr, srv, expired, commands, sessions, locks>>

\* The hotkey of an attached session runs Toggle on a goroutine of its own.
HotKey ==
  /\ Free("attached")
  /\ \E h \in ui.at : Call(h)
  /\ ui' = [ui EXCEPT !.wait = {gen + 1}]
  /\ UNCHANGED <<srv, expired, commands, sessions, locks>>

\* The call the UI or the attach loop was waiting for has returned.
Return ==
  /\ \E t \in ui.wait :
       /\ thr[t].pc = "done"
       /\ thr' = IF t = 0 THEN [thr EXCEPT ![0].pc = "idle"] ELSE thr
  /\ ui' = [ui EXCEPT !.wait = {}, !.mode = ui.next]
  /\ UNCHANGED <<holder, srv, expired, commands, sessions, locks>>

\* remoteAccessTimeout: the attach loop goes on without the answer.  Ten seconds
\* are enough for the goroutine to have entered Toggle.
Abandon ==
  /\ ui.mode = "attached"
  /\ \E t \in ui.wait : thr[t].pc \notin {"called", "done"}
  /\ ui' = [ui EXCEPT !.wait = {}]
  /\ UNCHANGED <<holder, thr, srv, expired, commands, sessions, locks>>

-----------------------------------------------------------------------------

CloseStep(t) == SetClosed(t) \/ Cancel(t) \/ Unlinked(t)
RunStep(c) == Refuse(c) \/ Admit(c) \/ Dispatch(c) \/ Start(c) \/ Finish(c)

Next ==
  \/ \E t \in Toggles : Enter(t) \/ OpenDone(t) \/ OpenFails(t) \/ Publish(t) \/ Supersede(t) \/ Expire(t)
  \/ \E t \in Threads : Revoke(t) \/ CloseStep(t)
  \/ \E c \in Cmds : RunStep(c) \/ \E g \in Toggles : Ask(c, g)
  \/ \E h \in HostIds : GrantKey(h) \/ SessionEnds(h) \/ HandleSessionEnded(h) \/ Attach(h)
  \/ RevokeKey \/ Lock \/ Unlock \/ Tick \/ Detach \/ HotKey \/ Return \/ Abandon

Spec == Init /\ [][Next]_vars

\* A goroutine that is not inside Open or Exec goes on, and so does the UI when
\* its call returns; Exec returns once its context is cancelled.  Open may hang
\* for ever, and nobody has to press a key.
FairSpec ==
  /\ Spec
  /\ \A t \in Threads : WF_vars(Revoke(t)) /\ WF_vars(CloseStep(t))
  /\ \A c \in Cmds : WF_vars(Refuse(c) \/ Admit(c) \/ Dispatch(c) \/ Start(c))
                     /\ WF_vars(Finish(c) /\ srv[cmd[c].g] \notin Accepting)
  /\ \A t \in Toggles : WF_vars(Enter(t)) /\ WF_vars(Publish(t)) /\ WF_vars(Supersede(t))
  /\ WF_vars(Return)

-----------------------------------------------------------------------------
(* Properties *)

TypeOK ==
  /\ grant \in 0..MaxToggles /\ epoch \in Nat /\ gen \in 0..MaxToggles
  /\ thr \in [Threads -> Thread]
  /\ srv \in [Toggles -> ServerState]
  /\ expired \subseteq Toggles
  /\ cmd \in [Cmds -> Command]
  /\ seq \in [Toggles -> Nat] /\ inFlight \in [Toggles -> Int] /\ count \in [Toggles -> Int]
  /\ log \in Seq(Row) /\ Len(log) <= LogMax
  /\ alive \subseteq HostIds /\ ended \subseteq HostIds
  /\ ui \in [mode : {"dash", "attached", "locked"}, at : SUBSET HostIds,
             wait : SUBSET Threads, next : {"dash", "attached", "locked"}]
  /\ locks \in 0..MaxLocks

\* A locked vault has no grant, and none appears on it: not even the grant of a
\* Toggle that the attach loop gave up on before the lock and whose Open only
\* returns after it (the scenario of Holder.epoch).
LockedHasNoGrant == ui.mode = "locked" => grant = 0

Settled == \A t \in Threads : thr[t].pc \in {"idle", "called", "done"}

\* When no call is running, the sockets that stand are those of the current
\* grant and nothing else: an overtaken, replaced or revoked grant is never
\* leaked with its socket bound and its context live (Toggle, Revoke, Close).
NoStrayGrant ==
  Settled => {g \in Toggles : srv[g] \in Standing} = {grant} \ {0}

\* The audit log: no two rows are one command, no row mixes two commands or two
\* hosts, a row reads as running exactly while its command does, and a command
\* that ran or was refused is missing only once the log is full (record, emit).
RowOf(c, row) ==
  /\ row.key = KeyOf(c) /\ row.host = HostOf(cmd[c].g)
  /\ row.finished = (cmd[c].st # "running")
  /\ row.refused = (cmd[c].st = "refused")
Audited == {c \in Cmds : cmd[c].st \in {"running", "ended", "refused"}}
AuditIsTrue ==
  /\ \A i, j \in DOMAIN log : log[i].key = log[j].key => i = j
  /\ \A i \in DOMAIN log : \E c \in Audited : RowOf(c, log[i])
  /\ \A c \in Audited :
       Len(log) = LogMax \/ \E i \in DOMAIN log : RowOf(c, log[i])

\* Grant.Count counts the commands that were or will be run, never one that was
\* refused, and no more than MaxInFlight of them are on the host at once,
\* whatever the order of admissions, refusals and a Close (run).
Under(g, states) == {c \in Cmds : cmd[c].g = g /\ cmd[c].st \in states}
CountsAreHonest ==
  \A g \in Toggles :
    /\ count[g] = Cardinality(Under(g, {"admitted", "checked", "running", "ended"}))
    /\ Cardinality(Under(g, {"checked", "running"})) <= MaxInFlight

\* The holder keeps the promise of GrantPromise: a request is answerable as long
\* as its epoch is the current one.
Promise == INSTANCE GrantPromise WITH
  Requests <- Toggles,
  live     <- {grant} \ {0},
  asked    <- {t \in Toggles : thr[t].pc \in {"open", "opened"} /\ thr[t].epoch = epoch},
  made     <- {t \in Toggles : thr[t].pc \notin {"idle", "called"}}
KeepsPromise == Promise!Spec

\* Locking never waits for a grant that is being opened (the reason Holder has
\* no lock around Open).
LockNeverWaits == ui.wait = {0} /\ ui.next = "locked" ~> ui.mode = "locked"

\* A command whose grant is revoked is over for the audit log: its row does not
\* read as running for ever, and an admitted command is run or refused.
RevokedCommandEnds ==
  \A c \in Cmds : cmd[c].st \in {"asked", "admitted", "checked", "running"}
                   /\ srv[cmd[c].g] = "down" ~> cmd[c].st \in {"ended", "refused"}

-----------------------------------------------------------------------------
(* What a comment says, and the code does not do *)

\* grant.go, run: a Close that lands after the context was checked hands Exec an
\* already cancelled context, and the command is aborted rather than run.
CloseStopsStarts ==
  [][\A c \in Cmds : cmd[c].st = "checked" /\ srv[cmd[c].g] = "down"
       => cmd'[c].st # "running"]_vars
=============================================================================
