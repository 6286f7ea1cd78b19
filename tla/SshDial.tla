------------------------------ MODULE SshDial ------------------------------
(***************************************************************************)
(* Opening an SSH connection: the connect rounds of package sshx (auth.go, *)
(* dial.go, hostkey.go, prompt.go, forward.go) and the half of the UI that  *)
(* starts a dial, answers its prompts and takes its result                  *)
(* (update_session.go, update_forwards.go).                                 *)
(*                                                                         *)
(* A dial is a goroutine of its own.  It walks TCP, host key and the auth   *)
(* chain, and blocks on a reply channel whenever it has to ask.  A session  *)
(* is dialed in its host process, so a cancelled dial is abandoned there    *)
(* and then; a forward is dialed in this process, and its context reaches   *)
(* the TCP dial and the prompts but not the handshake.  What the dials send *)
(* to the event loop (`inbox') is a set: prompts and results come from      *)
(* different goroutines and may overtake each other.                        *)
(***************************************************************************)
EXTENDS Naturals, Sequences, FiniteSets

CONSTANTS
    Keys,        \* public keys
    NoKey,       \* no key: a host that is not bound to one
    BatchSize,   \* keyBatchSize
    MaxRounds,   \* maxKeyRounds
    MaxAsked,    \* interactive password attempts, 3 in the code
    MaxDials,    \* bound: dials of one run
    Setups       \* the hosts and servers of a run, see `host'

\* A place a key comes from, and a stored host with the server behind it.
Source == [src : {"agent", "file", "vault"}, key : Keys, lock : {"plain", "locked", "broken"}]
Setup ==
    [mode : {"key", "password"}, bound : Keys \union {NoKey}, agent : Seq(Keys), useAgent : BOOLEAN,
     file : Seq(Source), vault : Seq(Source), password : {"right", "wrong", "none"},
     server : [key : {"known", "unknown", "changed"}, allows : SUBSET {"publickey", "password", "ki"},
               good : SUBSET Keys, limit : Nat]]

ASSUME DialAssumption ==
    /\ NoKey \notin Keys
    /\ BatchSize \in Nat \ {0} /\ MaxRounds \in Nat \ {0}
    /\ MaxAsked \in Nat \ {0} /\ MaxDials \in Nat \ {0}
    /\ \A s \in Setups : s \in Setup

VARIABLES
    host,      \* the stored host, the sources of its keys and its server; fixed
    known,     \* known_hosts has the server's key
    stored,    \* the host's password in the vault
    eng,       \* eng[d]: the goroutine of dial d
    inbox,     \* messages of the dials that the event loop has not taken
    ui,        \* the fields of the UI's Model a dial uses
    imported   \* a background import has reported

vars == <<host, known, stored, eng, inbox, ui, imported>>

Dials   == 1..MaxDials
NoDial  == 0
Nothing == "none"
Secrets == {"right", "wrong"}
Covered == "import"   \* an overlay that has nothing to do with the dial
HasMoreWorthy == {"authfailed", "toomany"}

---------------------------------------------------------------------------
(* The recipe of a dial *)

\* The bound key alone while the vault holds it, the whole vault otherwise.
VaultKeySpecs ==
    LET mine == {i \in DOMAIN host.vault : host.vault[i].key = host.bound}
    IN  CASE host.mode = "password" -> [keys |-> <<>>, bound |-> FALSE]
          [] host.mode = "key" /\ mine # {} ->
               [keys |-> <<host.vault[CHOOSE i \in mine : TRUE]>>, bound |-> TRUE]
          [] OTHER -> [keys |-> host.vault, bound |-> FALSE]

\* The frame a session's child process is given has no field for the binding,
\* nor for the agent setting: the child's Manager keeps its default, agent on.
SpecToWire(spec) == [spec EXCEPT !.bound = FALSE, !.agent = TRUE]

HostSpec(kind) ==
    LET spec == [keys |-> VaultKeySpecs.keys, bound |-> VaultKeySpecs.bound,
                 agent |-> host.useAgent, password |-> stored]
    IN  IF kind = "session" THEN SpecToWire(spec) ELSE spec

NoSpec   == [keys |-> <<>>, bound |-> FALSE, agent |-> FALSE, password |-> Nothing]
NoPrompt == [type |-> Nothing, dial |-> NoDial, about |-> <<>>, n |-> 0]

Idle == [pc |-> "idle", kind |-> Nothing, spec |-> NoSpec, ctx |-> FALSE,
         round |-> 0, db |-> FALSE, tries |-> 0, tried |-> {}, merr |-> Nothing,
         todo |-> <<>>, signers |-> <<>>, built |-> FALSE, err |-> Nothing,
         offset |-> 0, batch |-> <<>>, attempt |-> 0, about |-> <<>>,
         reply |-> Nothing, asked |-> <<>>, offers |-> <<>>, won |-> Nothing,
         refused |-> FALSE]

\* Where publickey looks, in offer order.
Sources(e) ==
    LET fromAgent == [i \in 1..Len(host.agent) |->
                        [src |-> "agent", key |-> host.agent[i], lock |-> "plain"]]
    IN  (IF e.spec.agent /\ ~e.spec.bound THEN fromAgent ELSE <<>>)
            \o host.file \o e.spec.keys

Methods == IF host.mode = "password" THEN <<"password", "ki">> ELSE <<"publickey", "ki">>

---------------------------------------------------------------------------
(* Rounds *)

HasMore(e) == e.offset < Len(e.signers)

\* Mutant: a second connection is given up.
RedialsNever(e, err) == FALSE

\* connect redials only for an auth failure, and only while keys remain.
Redials(e, err) == err \in HasMoreWorthy /\ HasMore(e) /\ e.round < MaxRounds

NewRound(e) == [e EXCEPT !.pc = "tcp", !.round = @ + 1, !.tried = {}, !.tries = 1,
                         !.merr = Nothing, !.attempt = 0, !.batch = <<>>]

Report(d, kind, err) == [type |-> "done", dial |-> d, kind |-> kind, err |-> err]

Finish(d, e, err) ==
    /\ eng' = [eng EXCEPT ![d] = [e EXCEPT !.pc = "done", !.merr = err]]
    /\ inbox' = inbox \union {Report(d, e.kind, err)}

Fail(d, e, err) ==
    IF Redials(e, err)
    THEN eng' = [eng EXCEPT ![d] = NewRound(e)] /\ inbox' = inbox
    ELSE Finish(d, e, err)

Step(d, e) == eng' = [eng EXCEPT ![d] = e] /\ inbox' = inbox

\* promptHostKey and promptSecret: a message with its own reply channel.
Ask(d, e, about) ==
    /\ eng' = [eng EXCEPT ![d] = [e EXCEPT !.pc = "wait", !.about = about,
                                           !.reply = Nothing, !.asked = Append(@, about)]]
    /\ inbox' = inbox \union {[type |-> "prompt", dial |-> d, about |-> about,
                               n |-> Len(e.asked) + 1]}

\* A method that did not authenticate; its error counts only if it was the last.
MethodFailed(e, err) == [e EXCEPT !.pc = "next", !.merr = err, !.batch = <<>>]

\* The server counts an attempt and hangs up at its limit.
Rejected(d, e, after) ==
    LET n == e.tries + 1
    IN  IF n >= host.server.limit
        THEN Fail(d, [e EXCEPT !.tries = n], "toomany")
        ELSE Step(d, [after EXCEPT !.tries = n])

---------------------------------------------------------------------------
(* Steps of the dialing goroutine *)

\* The known_hosts file is read once per connection, before the TCP dial.
Connect(d) ==
    LET e == eng[d]
    IN  /\ e.pc = "tcp"
        /\ \/ ~e.ctx /\ Step(d, [e EXCEPT !.pc = "hostkey", !.db = known])
           \/ ~e.ctx /\ Fail(d, e, "unreachable")
           \/ e.ctx /\ Fail(d, e, "canceled")
        /\ UNCHANGED <<host, known, stored, ui, imported>>

HostKeyCallback(d) ==
    LET e == eng[d]
    IN  /\ e.pc = "hostkey"
        /\ CASE host.server.key = "changed" -> Fail(d, e, "changed")
             [] host.server.key # "changed" /\ e.db -> Step(d, [e EXCEPT !.pc = "next"])
             [] OTHER -> Ask(d, e, <<"hostkey">>)
        /\ UNCHANGED <<host, known, stored, ui, imported>>

\* keyRing.next: the next batch, and the ring moves on.
RingNext(e) ==
    LET end == IF e.offset + BatchSize < Len(e.signers) THEN e.offset + BatchSize
                                                        ELSE Len(e.signers)
    IN  [e EXCEPT !.batch = SubSeq(e.signers, e.offset + 1, end), !.offset = end]

Untried(e) ==
    {i \in DOMAIN Methods : Methods[i] \notin e.tried /\ Methods[i] \in host.server.allows}
Upcoming(e) == Methods[CHOOSE i \in Untried(e) : \A j \in Untried(e) : i <= j]

\* In a later round the ring answers, with the first error of the collection;
\* x/crypto offers nothing when the callback returns an error.
LaterRound(e) ==
    LET r == RingNext(e)
    IN  IF e.err # Nothing THEN MethodFailed(r, e.err) ELSE [r EXCEPT !.pc = "offer"]

Collects(e) == ~e.built

NextMethod(d) ==
    LET e == eng[d]
        m == Upcoming(e)
        u == [e EXCEPT !.tried = @ \union {m}, !.merr = Nothing]
    IN  /\ e.pc = "next"
        /\ CASE Untried(e) = {} ->
                  Fail(d, e, IF e.merr # Nothing THEN e.merr ELSE "authfailed")
             [] Untried(e) # {} /\ m = "publickey" ->
                  Step(d, IF Collects(e) THEN [u EXCEPT !.pc = "collect", !.todo = Sources(e)]
                                         ELSE LaterRound(u))
             [] Untried(e) # {} /\ m = "password" -> Step(d, [u EXCEPT !.pc = "password"])
             [] OTHER -> Ask(d, u, <<"ki">>)
        /\ UNCHANGED <<host, known, stored, ui, imported>>

\* Duplicates are dropped by public key.
Add(e, k) == IF \E i \in 1..Len(e.signers) : e.signers[i] = k
             THEN e ELSE [e EXCEPT !.signers = Append(@, k)]

\* A bad key file is remembered as the first error; a bad vault key is skipped.
Skip(e, src, err) ==
    [e EXCEPT !.todo = Tail(@), !.pc = "collect",
              !.err = IF src = "file" /\ @ = Nothing THEN err ELSE @]

Keep(e) == [Add(e, Head(e.todo).key) EXCEPT !.todo = Tail(@), !.pc = "collect"]

Collect(d) ==
    LET e == eng[d]
        s == Head(e.todo)
        b == [e EXCEPT !.built = TRUE]
    IN  /\ e.pc = "collect"
        /\ CASE e.todo = <<>> /\ e.signers = <<>> /\ e.err # Nothing ->
                  Step(d, MethodFailed(b, e.err))
             [] e.todo = <<>> /\ (e.signers # <<>> \/ e.err = Nothing) ->
                  Step(d, [RingNext(b) EXCEPT !.pc = "offer"])
             [] e.todo # <<>> /\ s.lock = "plain"  -> Step(d, Keep(e))
             [] e.todo # <<>> /\ s.lock = "broken" -> Step(d, Skip(e, s.src, "unreadable"))
             [] OTHER -> Ask(d, e, <<"passphrase", s.src, s.key>>)
        /\ UNCHANGED <<host, known, stored, ui, imported>>

\* The server answers one offered key.
Offer(d) ==
    LET e == eng[d]
        k == Head(e.batch)
        o == [e EXCEPT !.batch = Tail(@), !.offers = Append(@, k)]
    IN  /\ e.pc = "offer"
        /\ CASE e.batch = <<>> -> Step(d, MethodFailed(e, Nothing))
             [] e.batch # <<>> /\ k \in host.server.good -> Step(d, [o EXCEPT !.pc = "up"])
             [] OTHER -> Rejected(d, o, o)
        /\ UNCHANGED <<host, known, stored, ui, imported>>

HasStored(e) == e.spec.password # Nothing
MaxAttempts(e) == IF HasStored(e) THEN MaxAsked + 1 ELSE MaxAsked

TryPassword(d, e, pw) ==
    IF pw = "right"
    THEN Step(d, [e EXCEPT !.pc = "up", !.won = pw])
    ELSE LET a == [e EXCEPT !.attempt = @ + 1, !.pc = "password"]
         IN  Rejected(d, a, IF a.attempt = MaxAttempts(e) THEN MethodFailed(a, Nothing) ELSE a)

\* The stored password is replayed first; after that the user is asked.
PasswordMethod(d) ==
    LET e == eng[d]
    IN  /\ e.pc = "password"
        /\ IF HasStored(e) /\ e.attempt = 0
           THEN TryPassword(d, e, e.spec.password)
           ELSE Ask(d, e, <<"password">>)
        /\ UNCHANGED <<host, known, stored, ui, imported>>

\* Mutant: the accepted key is not written down.
HostKeyForgotten(d, e, ok) ==
    known' = known /\ IF ok = "yes" THEN Step(d, [e EXCEPT !.pc = "next"])
                                   ELSE Fail(d, e, "rejected")

\* What each kind of prompt makes of its answer; `none' is a cancelled prompt.
HostKeyAnswered(d, e, ok) ==
    CASE ok = "yes" -> \/ known' = TRUE /\ Step(d, [e EXCEPT !.pc = "next"])
                       \/ known' = known /\ Fail(d, e, "unwritable")
      [] ok = "ended" -> known' = known /\ Fail(d, e, "canceled")
      [] OTHER     -> known' = known /\ Fail(d, e, "rejected")

PassphraseAnswered(d, e, a) ==
    LET s == Head(e.todo)
    IN  Step(d, CASE a = "right" -> Keep(e)
                  [] a = "wrong" -> Skip(e, s.src, "passphrase")
                  [] OTHER       -> Skip(e, s.src, "canceled"))

PasswordAnswered(d, e, a) ==
    IF a \in Secrets THEN TryPassword(d, e, a)
    ELSE Step(d, MethodFailed([e EXCEPT !.refused = (a = "cancel")], "canceled"))

KeyboardAnswered(d, e, a) ==
    CASE a = "right" -> Step(d, [e EXCEPT !.pc = "up"])
      [] a = "wrong" -> Rejected(d, e, MethodFailed(e, Nothing))
      [] OTHER       -> Step(d, MethodFailed([e EXCEPT !.refused = (a = "cancel")], "canceled"))

Answered(d, e, a) ==
    CASE e.about[1] = "hostkey"    -> HostKeyAnswered(d, e, a)
      [] e.about[1] = "passphrase" -> known' = known /\ PassphraseAnswered(d, e, a)
      [] e.about[1] = "password"   -> known' = known /\ PasswordAnswered(d, e, a)
      [] OTHER                     -> known' = known /\ KeyboardAnswered(d, e, a)

\* The select of a prompt: its reply, or the context.
Woken(d) ==
    LET e == eng[d]
        r == [e EXCEPT !.reply = Nothing]
    IN  /\ e.pc = "wait"
        /\ \/ e.reply # Nothing /\ Answered(d, r, e.reply)
           \/ e.ctx /\ Answered(d, r, "ended")
        /\ UNCHANGED <<host, stored, ui, imported>>

\* The shell (or the forward's listener) on top of the connection.
Opened(d) ==
    LET e == eng[d]
    IN  /\ e.pc = "up"
        /\ \E err \in {"ok", "refused"} : Finish(d, e, err)
        /\ UNCHANGED <<host, known, stored, ui, imported>>

\* A cancelled context ends the TCP dial whatever the server does; nothing ends a read
\* of the handshake, for no dial has a deadline (dial.go:86-96, update_forwards.go:201).
Local(d)   == NextMethod(d) \/ Collect(d) \/ Woken(d) \/ (eng[d].ctx /\ Connect(d))
Network(d) == Connect(d) \/ HostKeyCallback(d) \/ Offer(d) \/ PasswordMethod(d) \/ Opened(d)

---------------------------------------------------------------------------
(* The event loop.  It is suspended while a session holds the terminal. *)

Running == ~ui.attached

\* What a finished dial collected is garbage by the time the next one starts.
Forgotten(e) ==
    IF e.pc = "done" THEN [Idle EXCEPT !.pc = "done", !.kind = e.kind, !.ctx = e.ctx,
                                       !.won = e.won, !.merr = e.merr, !.round = MaxRounds]
                     ELSE e

\* startConnect's dial, or submitForwardForm.
StartDial(kind) ==
    /\ Running /\ ui.modal = Nothing
    /\ \E d \in Dials :
          /\ eng[d].pc = "idle" /\ \A c \in 1..(d - 1) : eng[c].pc # "idle"
          /\ eng' = [[c \in Dials |-> Forgotten(eng[c])] EXCEPT
                       ![d] = [Idle EXCEPT !.pc = "tcp", !.kind = kind, !.round = 1,
                                           !.tries = 1, !.spec = HostSpec(kind)]]
          /\ ui' = [ui EXCEPT !.modal = "connecting", !.dialing = d, !.cancel = d]
    /\ UNCHANGED <<host, known, stored, inbox, imported>>

HandlePrompt ==
    /\ Running
    /\ \E p \in inbox :
          /\ p.type = "prompt"
          /\ inbox' = inbox \ {p}
          /\ ui' = IF p.about = <<"hostkey">>
                   THEN [ui EXCEPT !.hostKey = p, !.modal = "hostkey"]
                   ELSE [ui EXCEPT !.secret = p, !.remember = FALSE, !.modal = "secret"]
    /\ UNCHANGED <<host, known, stored, eng, imported>>

\* Mutant: an answered prompt does not go back to the spinner.
RestoreNothing(u) == [u EXCEPT !.modal = Nothing]

RestoreAfterPrompt(u) ==
    [u EXCEPT !.modal = IF u.dialing # NoDial THEN "connecting" ELSE Nothing]

\* The answer goes to the channel of that very prompt, read or not.
Reply(p, a) ==
    LET e == eng[p.dial]
    IN  eng' = IF e.pc = "wait" /\ Len(e.asked) = p.n
               THEN [eng EXCEPT ![p.dial].reply = a] ELSE eng

HostKeyModalKey ==
    /\ Running /\ ui.modal = "hostkey" /\ ui.hostKey # NoPrompt
    /\ \E a \in {"yes", "no"} : Reply(ui.hostKey, a)
    /\ ui' = RestoreAfterPrompt([ui EXCEPT !.hostKey = NoPrompt])
    /\ UNCHANGED <<host, known, stored, inbox, imported>>

\* enter: the secret goes to the engine, and with "remember" on to pendingPW.
SecretEnter ==
    /\ Running /\ ui.modal = "secret" /\ ui.secret # NoPrompt
    /\ \E a \in Secrets :
          /\ Reply(ui.secret, a)
          /\ ui' = RestoreAfterPrompt(
                     [ui EXCEPT !.secret = NoPrompt, !.remember = FALSE,
                                !.pendingPW = IF ui.remember /\ a # stored THEN a ELSE @])
    /\ UNCHANGED <<host, known, stored, inbox, imported>>

SecretEsc ==
    /\ Running /\ ui.modal = "secret" /\ ui.secret # NoPrompt
    /\ Reply(ui.secret, "cancel")
    /\ ui' = RestoreAfterPrompt([ui EXCEPT !.secret = NoPrompt, !.remember = FALSE,
                                           !.pendingPW = Nothing])
    /\ UNCHANGED <<host, known, stored, inbox, imported>>

SecretRemember ==
    /\ Running /\ ui.modal = "secret" /\ ui.secret # NoPrompt
    /\ ui.secret.about = <<"password">>
    /\ ui' = [ui EXCEPT !.remember = ~@]
    /\ UNCHANGED <<host, known, stored, eng, inbox, imported>>

\* esc on the connecting overlay.  A session's dial returns at once and its
\* host process is told to end; a forward's goroutine finds its context done
\* the next time it looks.
ConnectingKey ==
    LET d == ui.cancel
    IN  /\ Running /\ ui.modal = "connecting" /\ d # NoDial
        /\ IF eng[d].kind = "session" /\ eng[d].pc \notin {"done", "gone"}
           THEN /\ eng' = [eng EXCEPT ![d] = [Idle EXCEPT !.pc = "gone", !.kind = "session",
                                                          !.ctx = TRUE]]
                /\ inbox' = inbox \union {Report(d, "session", "canceled")}
           ELSE eng' = [eng EXCEPT ![d].ctx = TRUE] /\ UNCHANGED inbox
        /\ UNCHANGED <<host, known, stored, ui, imported>>

\* Mutant: the result takes the overlay down and leaves the dial on record.
OverlayDown(u) ==
    [u EXCEPT !.pendingPW = Nothing, !.modal = IF @ = "connecting" THEN Nothing ELSE @]

Over(u) == [u EXCEPT !.dialing = NoDial, !.cancel = NoDial, !.pendingPW = Nothing,
                     !.modal = IF @ = "connecting" THEN Nothing ELSE @]

DialErr(u, err) == IF err = "changed" THEN [u EXCEPT !.modal = "error"] ELSE u

\* persistPassword, unless there is nothing pending.
Persist(u) == IF u.pendingPW # Nothing THEN u.pendingPW ELSE stored

HandleDialDone ==
    /\ Running
    /\ \E m \in inbox :
          /\ m.type = "done" /\ m.kind = "session"
          /\ inbox' = inbox \ {m}
          /\ IF m.err # "ok"
             THEN ui' = DialErr(Over(ui), m.err) /\ stored' = stored
             ELSE /\ stored' = Persist(ui)
                  /\ ui' = IF ui.hintSeen
                           THEN [Over(ui) EXCEPT !.modal = Nothing, !.attached = TRUE]
                           ELSE [Over(ui) EXCEPT !.modal = "hint", !.hintSeen = TRUE]
    /\ UNCHANGED <<host, known, eng, imported>>

\* A forward never persists a password.
HandleForwardDone ==
    /\ Running
    /\ \E m \in inbox :
          /\ m.type = "done" /\ m.kind = "forward"
          /\ inbox' = inbox \ {m}
          /\ ui' = DialErr(Over(ui), m.err)
    /\ UNCHANGED <<host, known, stored, eng, imported>>

SessionHintKey ==
    /\ Running /\ ui.modal = "hint"
    /\ \E hand \in BOOLEAN : ui' = [ui EXCEPT !.modal = Nothing, !.attached = hand]
    /\ UNCHANGED <<host, known, stored, eng, inbox, imported>>

HandleDetached ==
    /\ ui.attached
    /\ ui' = [ui EXCEPT !.attached = FALSE]
    /\ UNCHANGED <<host, known, stored, eng, inbox, imported>>

\* An import started earlier reports: its summary or its error takes the overlay.
HandleImportDone ==
    /\ Running /\ ~imported /\ imported' = TRUE
    /\ ui' = [ui EXCEPT !.modal = Covered]
    /\ UNCHANGED <<host, known, stored, eng, inbox>>

Dismiss ==
    /\ Running /\ ui.modal \in {Covered, "error"}
    /\ ui' = [ui EXCEPT !.modal = Nothing]
    /\ UNCHANGED <<host, known, stored, eng, inbox, imported>>

---------------------------------------------------------------------------

NewUi == [modal |-> Nothing, hostKey |-> NoPrompt, secret |-> NoPrompt, remember |-> FALSE,
          pendingPW |-> Nothing, dialing |-> NoDial, cancel |-> NoDial,
          hintSeen |-> FALSE, attached |-> FALSE]

Init ==
    /\ host \in Setups
    /\ known = (host.server.key = "known")
    /\ stored = host.password
    /\ eng = [d \in Dials |-> Idle]
    /\ inbox = {} /\ imported = FALSE
    /\ ui = NewUi

Engine(d) == Local(d) \/ Network(d)
Handle    == HandlePrompt \/ HandleDialDone \/ HandleForwardDone

Next ==
    \/ \E d \in Dials : Engine(d)
    \/ \E kind \in {"session", "forward"} : StartDial(kind)
    \/ Handle
    \/ HostKeyModalKey \/ SecretEnter \/ SecretEsc \/ SecretRemember \/ ConnectingKey
    \/ SessionHintKey \/ HandleDetached \/ HandleImportDone \/ Dismiss

Spec == Init /\ [][Next]_vars

\* The goroutines of the program run and the event loop takes its messages.
\* What a server or a user does is not promised: a server may fall silent for good.
Runs == /\ \A d \in Dials : WF_vars(Local(d))
        /\ WF_vars(Handle)
SilentSpec == Spec /\ Runs

---------------------------------------------------------------------------
(* Properties *)

\* hostkey.go: nothing is offered, asked for or opened on a connection whose
\* server key known_hosts does not hold, and a changed key is never asked about.
TrustComesFirst ==
    \A d \in Dials :
        LET e == eng[d]
            trusting == \/ e.offers # <<>> \/ e.pc \in {"next", "collect", "offer", "password", "up"}
                        \/ \E i \in 1..Len(e.asked) : e.asked[i] # <<"hostkey">>
        IN  /\ trusting => known
            /\ host.server.key = "changed" => ~trusting /\ e.asked = <<>>

\* keyRing, connect: over all its rounds a dial offers the collected keys in order,
\* none twice and none left out, and it reports that authentication failed only when
\* every one was offered or the rounds are used up (sources without errors).
Exhausted(e) == Len(e.offers) \in {Len(e.signers), MaxRounds * BatchSize}
HopelessOnlyWhenTried ==
    \A d \in Dials :
        LET e == eng[d]
        IN  e.err = Nothing =>
               /\ e.built => e.offers \o e.batch = SubSeq(e.signers, 1, e.offset)
               /\ e.pc = "done" /\ e.merr \in HasMoreWorthy => Exhausted(e)

\* The goroutine waits for an answer nobody has given yet.
Waiting(d) == eng[d].pc = "wait" /\ eng[d].reply = Nothing /\ ~eng[d].ctx

\* Its prompt is on the way, or the user can answer something or cancel it.
CanBeMoved(d) ==
    \/ \E p \in inbox : p.type = "prompt" /\ p.dial = d
    \/ ui.modal \in {"hostkey", "secret"}
    \/ ui.modal = "connecting" /\ ui.cancel = d

\* prompt.go, restoreAfterPrompt: while a dial waits for an answer there is
\* always a key the user can press that moves it on, whatever prompts of
\* cancelled dials arrive late (no import having reported meanwhile).
AnswerableUnlessCovered ==
    ~imported => \A d \in Dials : Waiting(d) => CanBeMoved(d)

\* dialCmd, awaitCtl: once esc has cancelled a dial, the UI is rid of it, unless it waits
\* for the server for ever; a session's, which is given up at once, never does.
ServersTurn(d) ==
    eng[d].pc \in {"hostkey", "offer", "password", "up"} \/ (eng[d].pc = "tcp" /\ ~eng[d].ctx)
EscEnds(d)  == eng[d].ctx ~> ui.dialing # d
EscEndsDial == \A d \in Dials : []<>~ServersTurn(d) => EscEnds(d)

---------------------------------------------------------------------------
(* What the texts say and the code does not do; see README, section 8 *)

\* submitForwardForm: esc works for a forward as it does for a session, at once.
EscWorksUnchanged == \A d \in Dials : EscEnds(d)

\* promptSecret: a wait can never be for a modal that will not show.
AuthNeverHangs == \A d \in Dials : Waiting(d) => CanBeMoved(d)

\* README: a host bound to a key offers that one only, the agent is skipped.
BoundKeyIsAlone ==
    \A d \in Dials :
        LET e == eng[d]
        IN  (e.built /\ VaultKeySpecs.bound /\ host.file = <<>>) =>
               e.signers \in {<<>>, <<host.bound>>}

\* README: the password that is stored is the one that logged in.
RememberedIsAccepted ==
    [][\A m \in inbox \ inbox' :
           stored' # stored => m.type = "done" /\ stored' = eng[m.dial].won]_vars

\* promptSecret: a nil reply means that the user canceled authentication.
CancelIsObeyed == \A d \in Dials : ~(eng[d].refused /\ eng[d].pc = "wait")

\* publicKeySigners: a source that fails does not sink the others.
BrokenSourceSinksNone ==
    \A d \in Dials :
        (eng[d].pc = "done" /\ eng[d].merr \in HasMoreWorthy \union {"unreadable"})
            => Exhausted(eng[d])
=============================================================================
