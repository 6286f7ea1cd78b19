----------------------------- MODULE SessionHost -----------------------------
(***************************************************************************)
(* One session host (internal/sessd): the child process that owns one SSH  *)
(* session, the unix socket it serves, and the wharf runs connected to it. *)
(*                                                                         *)
(* host.go is the process: an accept loop, one read loop per connection,   *)
(* the goroutine of the dial, the goroutine of every exec, the watchdog.   *)
(* client.go and exec.go are the other end: a Remote in the Pool of a      *)
(* wharf run, its read loop, and the goroutine that dials or adopts.       *)
(* Frames travel in order, up[c] to the host and down[c] to the client; a  *)
(* connection that was closed is still read to its end.                    *)
(*                                                                         *)
(* The Spawner forked the host and dials; every other client found the     *)
(* socket and adopts it.  Bytes of the shell are left to AttachStream.     *)
(***************************************************************************)
EXTENDS Naturals, Sequences, FiniteSets

CONSTANTS Spawner,     \* the wharf run that started this host
          Adopters,    \* the wharf runs that may find its socket
          Execs,       \* commands run over the session
          MaxPrompts,  \* prompts the dial may raise
          MaxUses,     \* attaches and execs the runs try between them
          None

Clients == Adopters \union {Spawner}

ASSUME SessionAssumption ==
    /\ Spawner \notin Adopters
    /\ None \notin Clients
    /\ MaxPrompts \in Nat
    /\ MaxUses \in Nat

VARIABLES
    proto,     \* the protocol version the host speaks
    hp,        \* the process: "serve", "ended" (h.ended), "done" (gone)
    sock,      \* its socket file exists
    shell,     \* the remote shell: "none", "live", "over"
    sess,      \* h.sess is set
    dialConn,  \* the client that dials and answers the prompts
    dialPc,    \* where the goroutine of conn.dial is
    asked,     \* prompts raised so far
    replies,   \* c.replies of the dialing client, a buffer of one
    conns,     \* h.conns
    closed,    \* clients whose c.closed fired
    attached,  \* h.attached
    live,      \* the writer installed in the session's tee
    hpc,       \* what the read loop of a connection is in the middle of
    execs,     \* per exec, where the goroutine of conn.exec is
    pc,        \* per run, where its use of this session is
    open,      \* runs whose end of the connection is open
    served,    \* connections whose host end is open
    up, down,  \* frames in flight
    ctl,       \* r.ctl
    alive,     \* runs whose Remote says it is alive
    ended,     \* runs whose r.done is closed
    pool,      \* runs whose Pool holds the Remote
    prompt,    \* the prompt the spawner's UI shows, 0 for none
    uses,      \* attaches and execs still to be tried
    calls      \* per exec, the call of Remote.Exec that waits for it

dialVars == <<dialConn, dialPc, asked, replies>>
procVars == <<proto, hp, sock, shell, sess>>
connVars == <<conns, closed, attached, live, hpc>>
remoteVars == <<pc, open, alive, ended, pool, ctl>>
userVars == <<prompt, uses, calls>>
vars == <<procVars, dialVars, connVars, execs, served, up, down, remoteVars,
          userVars>>

NoCall == [by |-> None, st |-> "none", got |-> None]
Frame(kind, arg) == [kind |-> kind, arg |-> arg]

(* A write on a connection lands unless its own end is closed; what the    *)
(* other end no longer reads is lost.                                      *)
Sent(c, f) == IF c \in served \intersect open THEN [down EXCEPT ![c] = Append(@, f)] ELSE down
Asks(c, f) == IF c \in open \intersect served THEN [up EXCEPT ![c] = Append(@, f)] ELSE up

(* A start: whether the host is an old one, left running by an earlier     *)
(* wharf of any version, or was forked just now; the runs that never come, *)
(* the commands nobody runs, and how many uses of the session there are.   *)
Start(old, absent, idle, left) ==
    /\ proto \in IF old THEN {1, 2, 3} ELSE {2}
    /\ hp = "serve"
    /\ sock = TRUE
    /\ shell = IF old THEN "live" ELSE "none"
    /\ sess = old
    /\ dialConn = None
    /\ dialPc = IF old THEN "over" ELSE "none"
    /\ asked = 0
    /\ replies = None
    /\ conns = {}
    /\ closed = {}
    /\ attached = None
    /\ live = None
    /\ hpc = [c \in Clients |-> "read"]
    /\ execs = [e \in Execs |-> "none"]
    /\ pc = [c \in Clients |->
               IF c # Spawner THEN IF c \in absent THEN "gone" ELSE "off" ELSE IF old THEN "gone" ELSE "spawned"]
    /\ open = {}
    /\ served = {}
    /\ up = [c \in Clients |-> <<>>]
    /\ down = [c \in Clients |-> <<>>]
    /\ ctl = [c \in Clients |-> <<>>]
    /\ alive = {}
    /\ ended = {}
    /\ pool = {}
    /\ prompt = 0
    /\ uses = left
    /\ calls = [e \in Execs |-> IF e \in idle THEN [NoCall EXCEPT !.st = "lost"] ELSE NoCall]

Init == \E old \in BOOLEAN : Start(old, {}, {}, MaxUses)

-----------------------------------------------------------------------------
(* The host process.                                                       *)

(* Host.shutdown: the first call tells every client the session is over.   *)
ShutDown ==
    IF hp = "serve"
    THEN /\ hp' = "ended"
         /\ down' = [c \in Clients |->
                       IF c \in conns \intersect served \intersect open
                       THEN Append(down[c], Frame("ended", 0)) ELSE down[c]]
    ELSE UNCHANGED <<hp, down>>

(* The process is gone, with everything it held in memory.                 *)
ProcessGone ==
    /\ hp' = "done"
    /\ shell' = "over"
    /\ dialConn' = None
    /\ dialPc' = "over"
    /\ replies' = None
    /\ conns' = {}
    /\ closed' = Clients
    /\ attached' = None
    /\ live' = None
    /\ hpc' = [c \in Clients |-> "gone"]
    /\ execs' = [e \in Execs |-> "over"]
    /\ served' = {}
    /\ up' = [c \in Clients |-> <<>>]
    /\ UNCHANGED <<proto, sess, asked, down, remoteVars, userVars>>

(* Serve returns: the listener, the socket file and every connection go.   *)
Exit == hp = "ended" /\ sock' = FALSE /\ ProcessGone

(* The process dies: nobody is told and the socket file stays.             *)
Crash == hp = "serve" /\ ProcessGone /\ UNCHANGED sock

NoWatchdog == FALSE

(* watchdog: no session, no client, for idleGrace.  That outlasts the      *)
(* dialTimeout a spawner needs to connect or give up.                      *)
Watchdog ==
    /\ hp = "serve"
    /\ ~sess
    /\ conns = {}
    /\ pc[Spawner] # "spawned"
    /\ ShutDown
    /\ UNCHANGED <<proto, sock, shell, sess, dialVars, connVars, execs, served, up,
                   remoteVars, userVars>>

(* The remote shell exits, or its connection drops.                        *)
ShellEnds ==
    /\ shell = "live"
    /\ hp # "done"
    /\ shell' = "over"
    /\ UNCHANGED <<proto, hp, sock, sess, dialVars, connVars, execs, served, up, down,
                   remoteVars, userVars>>

(* notify of SessionEndedMsg: the end of the session shuts the host down.  *)
SessionEnded ==
    /\ shell = "over"
    /\ hp = "serve"
    /\ ShutDown
    /\ UNCHANGED <<proto, sock, shell, sess, dialVars, connVars, execs, served, up,
                   remoteVars, userVars>>

-----------------------------------------------------------------------------
(* conn.dial, on its own goroutine, and the prompts of its auth chain.     *)

DialStart ==
    /\ dialPc = "start"
    /\ hp # "done"
    /\ dialPc' = "auth"
    /\ dialConn' = IF Spawner \in conns THEN Spawner ELSE None
    /\ UNCHANGED <<procVars, asked, replies, connVars, execs, served, up, down,
                   remoteVars, userVars>>

(* relayPrompt: a client that left answers as a cancel.                    *)
AskPrompt ==
    /\ dialPc = "auth"
    /\ hp # "done"
    /\ asked < MaxPrompts
    /\ IF dialConn = None
       THEN dialPc' = "failed" /\ UNCHANGED <<asked, down>>
       ELSE /\ dialPc' = "asking"
            /\ asked' = asked + 1
            /\ down' = Sent(dialConn, Frame("prompt", asked + 1))
    /\ UNCHANGED <<procVars, dialConn, replies, connVars, execs, served, up, remoteVars,
                   userVars>>

PeekReply ==
    /\ dialPc = "asking"
    /\ hp # "done"
    /\ replies # None
    /\ dialPc' = IF replies.ok THEN "auth" ELSE "failed"
    /\ UNCHANGED <<procVars, dialConn, asked, replies, connVars, execs, served, up, down,
                   remoteVars, userVars>>

TakeReply ==
    /\ dialPc = "asking"
    /\ hp # "done"
    /\ replies # None
    /\ replies' = None
    /\ dialPc' = IF replies.ok THEN "auth" ELSE "failed"
    /\ UNCHANGED <<procVars, dialConn, asked, connVars, execs, served, up, down,
                   remoteVars, userVars>>

(* The prompt, and the context of the dial, end with their client.         *)
DialOrphaned ==
    /\ dialPc \in {"auth", "asking"}
    /\ hp # "done"
    /\ Spawner \in closed
    /\ dialPc' = "failed"
    /\ UNCHANGED <<procVars, dialConn, asked, replies, connVars, execs, served, up, down,
                   remoteVars, userVars>>

(* mgr.Dial returns.                                                       *)
AuthReturns ==
    /\ dialPc = "auth"
    /\ hp # "done"
    /\ \/ dialPc' = "failed" /\ UNCHANGED shell
       \/ dialPc' = "made" /\ shell' = "live"
    /\ UNCHANGED <<proto, hp, sock, sess, dialConn, asked, replies, connVars, execs,
                   served, up, down, remoteVars, userVars>>

(* A failed dial leaves nothing to keep alive.  The error frame goes out   *)
(* ahead of the notice of the shutdown.                                    *)
DialFailed ==
    /\ dialPc = "failed"
    /\ hp # "done"
    /\ dialPc' = "over"
    /\ LET told == Sent(Spawner, Frame("error", 0)) IN
         IF hp = "serve"
         THEN /\ hp' = "ended"
              /\ down' = [c \in Clients |->
                            IF c \in conns \intersect served \intersect open
                            THEN Append(told[c], Frame("ended", 0)) ELSE told[c]]
         ELSE down' = told /\ UNCHANGED hp
    /\ UNCHANGED <<proto, sock, shell, sess, dialConn, asked, replies, connVars, execs,
                   served, up, remoteVars, userVars>>

(* The client vanished while the dial completed: close what nobody knows.  *)
DialKept ==
    /\ dialPc = "made"
    /\ hp # "done"
    /\ IF Spawner \in closed
       THEN dialPc' = "over" /\ shell' = "over" /\ ShutDown
       ELSE dialPc' = "kept" /\ UNCHANGED <<shell, hp, down>>
    /\ UNCHANGED <<proto, sock, sess, dialConn, asked, replies, connVars, execs, served,
                   up, remoteVars, userVars>>

DialInstalled ==
    /\ dialPc = "kept"
    /\ hp # "done"
    /\ dialPc' = "over"
    /\ sess' = TRUE
    /\ down' = Sent(Spawner, Frame("dialok", 0))
    /\ UNCHANGED <<proto, hp, sock, shell, dialConn, asked, replies, connVars, execs,
                   served, up, remoteVars, userVars>>

-----------------------------------------------------------------------------
(* conn.exec, on its own goroutine: register, run, answer.                 *)

By(e) == calls[e].by

ExecStart(e) ==
    /\ execs[e] = "spawned"
    /\ hp # "done"
    /\ IF sess
       THEN execs' = [execs EXCEPT ![e] = "running"] /\ UNCHANGED down
       ELSE /\ execs' = [execs EXCEPT ![e] = "over"]
            /\ down' = Sent(By(e), Frame("execEnd", [id |-> e, got |-> None]))
    /\ UNCHANGED <<procVars, dialVars, connVars, served, up, remoteVars, userVars>>

(* The command ends; or it was abandoned, and is answered with an error.   *)
ExecEnds(e) ==
    /\ execs[e] \in {"running", "stopping"}
    /\ hp # "done"
    /\ execs' = [execs EXCEPT ![e] = "over"]
    /\ down' = Sent(By(e), Frame("execEnd",
                 [id |-> e, got |-> IF execs[e] = "running" /\ shell = "live"
                                    THEN e ELSE None]))
    /\ UNCHANGED <<procVars, dialVars, connVars, served, up, remoteVars, userVars>>

(* A client that vanishes, or the host's own end, cancels the command.     *)
ExecOrphaned(e) ==
    /\ execs[e] = "running"
    /\ hp = "ended" \/ By(e) \in closed
    /\ execs' = [execs EXCEPT ![e] = "stopping"]
    /\ UNCHANGED <<procVars, dialVars, connVars, served, up, down, remoteVars, userVars>>

(* cancelExec: an id that is not registered is not an error.               *)
Canceled(e) ==
    IF execs[e] = "running" THEN [execs EXCEPT ![e] = "stopping"] ELSE execs

-----------------------------------------------------------------------------
(* conn.handle: one frame off a connection.                                *)

Reads(c, kind) ==
    /\ hp # "done"
    /\ c \in conns \intersect served
    /\ hpc[c] = "read"
    /\ up[c] # <<>>
    /\ Head(up[c]).kind = kind
    /\ up' = [up EXCEPT ![c] = Tail(@)]

HandleInfo(c) ==
    /\ Reads(c, "info")
    /\ down' = Sent(c, Frame("infook", sess /\ shell = "live"))
    /\ UNCHANGED <<procVars, dialVars, connVars, execs, served, remoteVars, userVars>>

HandleDial(c) ==
    /\ Reads(c, "dial")
    /\ dialPc' = "start"
    /\ UNCHANGED <<procVars, dialConn, asked, replies, connVars, execs, served, down,
                   remoteVars, userVars>>

(* No prompt outstanding in the buffer's place: the reply is dropped.      *)
HandleReply(c) ==
    /\ Reads(c, "reply")
    /\ replies' = IF replies = None THEN Head(up[c]).arg ELSE replies
    /\ UNCHANGED <<procVars, dialConn, dialPc, asked, connVars, execs, served, down,
                   remoteVars, userVars>>

HandleExec(c) ==
    /\ Reads(c, "exec")
    /\ execs' = [execs EXCEPT ![Head(up[c]).arg] = "spawned"]
    /\ UNCHANGED <<procVars, dialVars, connVars, served, down, remoteVars, userVars>>

HandleCancel(c) ==
    /\ Reads(c, "cancel")
    /\ execs' = Canceled(Head(up[c]).arg)
    /\ UNCHANGED <<procVars, dialVars, connVars, served, down, remoteVars, userVars>>

(* conn.attach, up to the replay: one client streams at a time.            *)
MayAttach(c) == sess /\ attached \in {None, c}

HandleAttach(c) ==
    /\ Reads(c, "attach")
    /\ IF MayAttach(c)
       THEN /\ attached' = c
            /\ hpc' = [hpc EXCEPT ![c] = "golive"]
            /\ UNCHANGED down
       ELSE /\ down' = Sent(c, Frame("error", 0))
            /\ UNCHANGED <<attached, hpc>>
    /\ UNCHANGED <<procVars, dialVars, conns, closed, live, execs, served, remoteVars,
                   userVars>>

(* GoLive: the replay reaches the client and its writer is installed, or   *)
(* the write fails and the attach is undone.                               *)
GoLive(c) ==
    /\ hpc[c] = "golive"
    /\ hp # "done"
    /\ hpc' = [hpc EXCEPT ![c] = "read"]
    /\ \/ live' = c /\ UNCHANGED attached
       \/ c \notin open /\ attached' = None /\ UNCHANGED live
    /\ UNCHANGED <<procVars, dialVars, conns, closed, execs, served, up, down, remoteVars,
                   userVars>>

HandleDetach(c) ==
    /\ Reads(c, "detach")
    /\ attached' = IF attached = c THEN None ELSE attached
    /\ hpc' = IF sess THEN [hpc EXCEPT ![c] = "unset"] ELSE hpc
    /\ UNCHANGED <<procVars, dialVars, conns, closed, live, execs, served, down,
                   remoteVars, userVars>>

(* tee.unsetLive: only the writer that is still installed is taken out.    *)
LiveWithNobody(c) == None
LiveWithout(c) == IF live = c THEN None ELSE live

UnsetLive(c) ==
    /\ hpc[c] = "unset"
    /\ hp # "done"
    /\ hpc' = [hpc EXCEPT ![c] = "read"]
    /\ live' = LiveWithout(c)
    /\ UNCHANGED <<procVars, dialVars, conns, closed, attached, execs, served, up, down,
                   remoteVars, userVars>>

HandleKill(c) ==
    /\ Reads(c, "kill")
    /\ IF sess
       THEN shell' = "over" /\ UNCHANGED <<hp, down>>
       ELSE ShutDown /\ UNCHANGED shell
    /\ UNCHANGED <<proto, sock, sess, dialVars, connVars, execs, served, remoteVars,
                   userVars>>

(* Output meets a terminal that is gone: the tee drops the writer.         *)
LiveFails ==
    /\ hp # "done"
    /\ shell = "live"
    /\ live # None
    /\ live \notin open \intersect served
    /\ live' = None
    /\ UNCHANGED <<procVars, dialVars, conns, closed, attached, hpc, execs, served, up,
                   down, remoteVars, userVars>>

(* Host.drop, under the lock: what it found decides what follows.          *)
Drop(c) ==
    /\ hp # "done"
    /\ c \in conns
    /\ hpc[c] = "read"
    /\ c \notin served \/ (up[c] = <<>> /\ c \notin open)
    /\ conns' = conns \ {c}
    /\ attached' = IF attached = c THEN None ELSE attached
    /\ dialConn' = IF dialConn = c THEN None ELSE dialConn
    /\ hpc' = [hpc EXCEPT ![c] = IF sess THEN "dropped"
                                 ELSE IF conns = {c} THEN "droppedLast" ELSE "droppedEarly"]
    /\ UNCHANGED <<procVars, dialPc, asked, replies, closed, live, execs, served, up, down,
                   remoteVars, userVars>>

(* Host.drop, unlocked: release whoever waits for this client; the last    *)
(* client of a host that never had a session takes it along.               *)
Dropped(c) ==
    /\ hp # "done"
    /\ hpc[c] \in {"dropped", "droppedEarly", "droppedLast"}
    /\ closed' = closed \union {c}
    /\ live' = IF hpc[c] = "dropped" THEN LiveWithout(c) ELSE live
    /\ served' = served \ {c}
    /\ hpc' = [hpc EXCEPT ![c] = "gone"]
    /\ IF hpc[c] = "droppedLast" THEN ShutDown ELSE UNCHANGED <<hp, down>>
    /\ UNCHANGED <<proto, sock, shell, sess, dialVars, conns, attached, execs, up,
                   remoteVars, userVars>>

-----------------------------------------------------------------------------
(* The Remote of a wharf run.                                              *)

(* Remote.finish, once.                                                    *)
FinishSilently(c) == alive' = alive \ {c} /\ pool' = pool \ {c} /\ UNCHANGED ended

Finish(c) ==
    IF c \in ended THEN UNCHANGED <<alive, ended, pool>>
    ELSE /\ alive' = alive \ {c}
         /\ ended' = ended \union {c}
         /\ pool' = pool \ {c}

(* Remote.closeConn.                                                       *)
CloseConn(c) == open' = open \ {c} /\ Finish(c)

Goes(c, where) == pc' = [pc EXCEPT ![c] = where]

(* Pool.Dial connects to the child it started and asks it to dial; Adopt   *)
(* connects to a socket it found and asks who answers.                     *)
Connect(c) ==
    /\ pc[c] \in {"off", "spawned"}
    /\ sock
    /\ hp # "done"
    /\ conns' = conns \union {c}
    /\ open' = open \union {c}
    /\ served' = served \union {c}
    /\ up' = [up EXCEPT ![c] = <<Frame(IF c = Spawner THEN "dial" ELSE "info", 0)>>]
    /\ Goes(c, IF c = Spawner THEN "dialing" ELSE "probing")
    /\ UNCHANGED <<procVars, dialVars, closed, attached, live, hpc, execs, down, alive,
                   ended, pool, ctl, userVars>>

(* Nobody listens: the host died without cleaning up.                      *)
ConnectFails(c) ==
    /\ pc[c] \in {"off", "spawned"}
    /\ hp = "done"
    /\ sock' = FALSE
    /\ Goes(c, "failed")
    /\ UNCHANGED <<proto, hp, shell, sess, dialVars, connVars, execs, served, up, down,
                   open, alive, ended, pool, ctl, userVars>>

(* awaitCtl is handed the next control reply, also when r.done is closed.  *)
DialAnswered(c) ==
    /\ pc[c] = "dialing"
    /\ ctl[c] # <<>>
    /\ ctl' = [ctl EXCEPT ![c] = Tail(@)]
    /\ IF Head(ctl[c]).kind = "dialok"
       THEN Goes(c, "dialled") /\ UNCHANGED <<open, alive, ended, pool>>
       ELSE Goes(c, "failed") /\ CloseConn(c)
    /\ UNCHANGED <<procVars, dialVars, connVars, execs, served, up, down, userVars>>

(* awaitCtl gives up: the session is gone, or the user canceled the dial.  *)
DialAbandoned(c) ==
    /\ pc[c] = "dialing"
    /\ Goes(c, "failed")
    /\ CloseConn(c)
    /\ UNCHANGED <<procVars, dialVars, connVars, execs, served, up, down, ctl, userVars>>

RetireFrame(c) == Asks(c, Frame("kill", 0))

(* Adopt judges the answer.  It leaves alone what it does not understand,  *)
(* keeps a live session, and retires a host that has nothing running.      *)
Probed(c) ==
    /\ pc[c] = "probing"
    /\ ctl[c] # <<>>
    /\ ctl' = [ctl EXCEPT ![c] = Tail(@)]
    /\ LET understood == Head(ctl[c]).kind = "infook" /\ proto \in 1..2
           keeps == understood /\ Head(ctl[c]).arg
           retires == understood /\ ~Head(ctl[c]).arg IN
         /\ Goes(c, IF keeps THEN "dialled" ELSE "failed")
         /\ IF keeps THEN UNCHANGED <<open, alive, ended, pool>> ELSE CloseConn(c)
         /\ up' = IF retires THEN RetireFrame(c) ELSE up
         /\ sock' = (sock /\ ~retires)
    /\ UNCHANGED <<proto, hp, shell, sess, dialVars, connVars, execs, served, down,
                   userVars>>

(* The probe times out, or the connection ends first: the socket stays.    *)
ProbeFails(c) ==
    /\ pc[c] = "probing"
    /\ Goes(c, "failed")
    /\ CloseConn(c)
    /\ UNCHANGED <<procVars, dialVars, connVars, execs, served, up, down, ctl, userVars>>

(* setAlive and register, after the answer came in.                        *)
Enlist(c) ==
    /\ pc[c] = "dialled"
    /\ Goes(c, "listed")
    /\ alive' = alive \union {c}
    /\ pool' = pool \union {c}
    /\ UNCHANGED <<procVars, dialVars, connVars, execs, served, up, down, open, ended, ctl,
                   userVars>>

(* readLoop: one frame off the socket.                                     *)
Receives(c, kinds) ==
    /\ c \in open
    /\ c \notin ended
    /\ down[c] # <<>>
    /\ Head(down[c]).kind \in kinds
    /\ down' = [down EXCEPT ![c] = Tail(@)]

ReadCtl(c) ==
    /\ Receives(c, {"dialok", "infook", "error"})
    /\ ctl' = IF Len(ctl[c]) < 4 THEN [ctl EXCEPT ![c] = Append(@, Head(down[c]))] ELSE ctl
    /\ UNCHANGED <<procVars, dialVars, connVars, execs, served, up, pc, open, alive, ended,
                   pool, userVars>>

ReadPrompt(c) ==
    /\ Receives(c, {"prompt"})
    /\ prompt' = Head(down[c]).arg
    /\ UNCHANGED <<procVars, dialVars, connVars, execs, served, up, remoteVars, uses,
                   calls>>

(* lookupExec and finish: the answer goes to the call that waits for it.   *)
Answered(end) ==
    LET call == calls[end.id] IN
    [calls EXCEPT ![end.id] =
       IF call.st = "waiting" THEN [call EXCEPT !.st = "answered", !.got = end.got] ELSE call]

ReadExecEnd(c) ==
    /\ Receives(c, {"execEnd"})
    /\ calls' = Answered(Head(down[c]).arg)
    /\ UNCHANGED <<procVars, dialVars, connVars, execs, served, up, remoteVars, prompt,
                   uses>>

ReadEnded(c) ==
    /\ Receives(c, {"ended"})
    /\ CloseConn(c)
    /\ UNCHANGED <<procVars, dialVars, connVars, execs, served, up, pc, ctl, userVars>>

ReadFails(c) ==
    /\ c \in open
    /\ c \notin ended \union served
    /\ down[c] = <<>>
    /\ Finish(c)
    /\ UNCHANGED <<procVars, dialVars, connVars, execs, served, up, down, pc, open, ctl,
                   userVars>>

-----------------------------------------------------------------------------
(* What the user does with it.                                             *)

AnswerPrompt(c, ok) ==
    /\ prompt # 0
    /\ pc[c] # "gone"
    /\ up' = Asks(c, Frame("reply", [n |-> prompt, ok |-> ok]))
    /\ prompt' = 0
    /\ UNCHANGED <<procVars, dialVars, connVars, execs, served, down, remoteVars, uses,
                   calls>>

Listed(c) == c \in pool \intersect alive /\ pc[c] = "listed"

Attach(c) ==
    /\ Listed(c)
    /\ uses > 0
    /\ uses' = uses - 1
    /\ up' = Asks(c, Frame("attach", 0))
    /\ Goes(c, IF c \in open THEN "attached" ELSE "listed")
    /\ UNCHANGED <<procVars, dialVars, connVars, execs, served, down, open, alive, ended,
                   pool, ctl, prompt, calls>>

(* The detach key, or the end of the session, ends the takeover.           *)
Detach(c) ==
    /\ pc[c] = "attached"
    /\ up' = Asks(c, Frame("detach", 0))
    /\ Goes(c, "listed")
    /\ UNCHANGED <<procVars, dialVars, connVars, execs, served, down, open, alive, ended,
                   pool, ctl, userVars>>

(* Remote.Close: the kill, and the wait for the end.                       *)
Kill(c) ==
    /\ Listed(c)
    /\ up' = Asks(c, Frame("kill", 0))
    /\ Goes(c, "killing")
    /\ UNCHANGED <<procVars, dialVars, connVars, execs, served, down, open, alive, ended,
                   pool, ctl, userVars>>

Killed(c) ==
    /\ pc[c] = "killing"
    /\ Goes(c, "listed")
    /\ \/ c \in ended /\ UNCHANGED <<open, alive, ended, pool>>
       \/ CloseConn(c)
    /\ UNCHANGED <<procVars, dialVars, connVars, execs, served, up, down, ctl, userVars>>

(* Remote.Exec: an older host is never asked, it would never answer.       *)
CanExec == proto >= 2

Exec(c, e) ==
    /\ Listed(c) \/ (pc[c] = "attached" /\ c \in pool)
    /\ calls[e].st = "none"
    /\ uses > 0
    /\ uses' = uses - 1
    /\ calls' = [calls EXCEPT ![e] =
                   [by |-> c, st |-> IF CanExec /\ c \in open THEN "waiting" ELSE "returned",
                    got |-> None]]
    /\ up' = IF CanExec THEN Asks(c, Frame("exec", e)) ELSE up
    /\ UNCHANGED <<procVars, dialVars, connVars, execs, served, down, remoteVars,
                   prompt>>

Return(e, how) == calls' = [calls EXCEPT ![e].st = how]

(* The answer, or the end of the session, whichever select sees.           *)
ExecReturns(e) ==
    /\ \/ calls[e].st = "answered" /\ Return(e, "returned")
       \/ calls[e].st \in {"waiting", "answered"} /\ By(e) \in ended /\ Return(e, "lost")
    /\ UNCHANGED <<procVars, dialVars, connVars, execs, served, up, down, remoteVars,
                   prompt, uses>>

(* The grant is revoked: stop waiting, and tell the host to abandon it.    *)
CancelExec(e) ==
    /\ calls[e].st \in {"waiting", "answered"}
    /\ Return(e, "canceled")
    /\ up' = Asks(By(e), Frame("cancel", e))
    /\ UNCHANGED <<procVars, dialVars, connVars, execs, served, down, remoteVars, prompt,
                   uses>>

(* The run quits (Pool.Detach) or dies; the session stays where it is.     *)
Quit(c) ==
    /\ pc[c] # "gone"
    /\ Goes(c, "gone")
    /\ open' = open \ {c}
    /\ alive' = alive \ {c}
    /\ ended' = ended \union {c}
    /\ pool' = pool \ {c}
    /\ ctl' = [ctl EXCEPT ![c] = <<>>]
    /\ down' = [down EXCEPT ![c] = <<>>]
    /\ prompt' = IF c = Spawner THEN 0 ELSE prompt
    /\ calls' = [e \in Execs |-> IF By(e) = c THEN [calls[e] EXCEPT !.st = "lost"]
                                 ELSE calls[e]]
    /\ UNCHANGED <<procVars, dialVars, connVars, execs, served, up, uses>>

-----------------------------------------------------------------------------
HostStep ==
    \/ Exit \/ Watchdog \/ SessionEnded
    \/ DialStart \/ TakeReply \/ DialOrphaned \/ DialFailed \/ DialKept \/ DialInstalled
    \/ \E e \in Execs : ExecStart(e) \/ ExecOrphaned(e)
    \/ \E c \in Clients :
         \/ HandleInfo(c) \/ HandleDial(c) \/ HandleReply(c) \/ HandleExec(c)
         \/ HandleCancel(c) \/ HandleAttach(c) \/ GoLive(c) \/ HandleDetach(c)
         \/ UnsetLive(c) \/ HandleKill(c) \/ Drop(c) \/ Dropped(c)

RemoteStep(c) ==
    \/ DialAnswered(c) \/ Probed(c) \/ Enlist(c)
    \/ ReadCtl(c) \/ ReadPrompt(c) \/ ReadExecEnd(c) \/ ReadEnded(c) \/ ReadFails(c)

World ==
    \/ Crash \/ ShellEnds \/ LiveFails \/ AskPrompt \/ AuthReturns
    \/ \E e \in Execs : ExecEnds(e) \/ ExecReturns(e) \/ CancelExec(e)
    \/ \E c \in Clients :
         \/ Connect(c) \/ ConnectFails(c) \/ DialAbandoned(c) \/ ProbeFails(c)
         \/ Attach(c) \/ Detach(c) \/ Kill(c) \/ Killed(c) \/ Quit(c)
    \/ \E ok \in BOOLEAN : AnswerPrompt(Spawner, ok)
    \/ \E c \in Clients, e \in Execs : Exec(c, e)

Next == HostStep \/ (\E c \in Clients : RemoteStep(c)) \/ World

Spec == Init /\ [][Next]_vars

(* Goroutines run, and a read loop reads what has arrived; nothing forces  *)
(* a user, a shell, a server or a crash.                                   *)
Fairness ==
    /\ WF_vars(HostStep)
    /\ \A c \in Clients : WF_vars(RemoteStep(c))
    /\ \A e \in Execs : WF_vars(ExecReturns(e))

FairSpec == Spec /\ Fairness

-----------------------------------------------------------------------------
(* Properties.                                                             *)

(* Output has one reader, and the right one: a writer is installed only    *)
(* for the client the host calls attached, or for one whose own read loop  *)
(* is about to take it out; and a client that attached, is connected and   *)
(* is done attaching has its writer installed.                             *)
(* (host.go attach, detach, drop; ring.go goLive, unsetLive)               *)
OneStream ==
    /\ live # None => attached = live \/ hpc[live] \in {"unset", "dropped"}
    /\ \A c \in open \intersect served :
         attached = c /\ hpc[c] = "read" /\ hp # "done" => live = c

(* A reply in the buffer answers the prompt that is outstanding, never an  *)
(* earlier one: the auth chain is not handed the password typed for        *)
(* something else.  (host.go relayPrompt, client.go relayPrompt)           *)
AnswerFitsPrompt == replies # None => replies.n = asked /\ dialPc # "auth"

(* A host without a session whose spawner gave up goes away, or comes to   *)
(* hold a session after all: no process is stranded on a prompt nobody     *)
(* will answer.  (host.go dial, relayPrompt, drop, watchdog)               *)
NoStrandedHost ==
    (pc[Spawner] \in {"failed", "gone"} /\ ~sess) ~> (hp = "done" \/ sess)

(* A command a run waits for does not outlive its host.                    *)
(* (exec.go Exec; client.go readLoop, finish)                              *)
DeadHostFreesExec ==
    \A e \in Execs :
      (calls[e].st = "waiting" /\ hp = "done") ~> (calls[e].st # "waiting")

(* The pool lists no session that has ended: an alive flag left set would  *)
(* outlive the session it describes.  (client.go finish, Dial, Adopt)      *)
ListedIsLive == \A c \in pool \intersect alive : c \notin ended

(* A command whose caller canceled it is not running once the host has     *)
(* read the cancel: the frame and the command run on different goroutines. *)
(* (exec.go Exec, cancelExec; host.go handle)                              *)
CanceledStops ==
    \A e \in Execs :
      calls[e].st = "canceled" /\ up[By(e)] = <<>> => execs[e] # "running"

(* A run that adopts does not end a dial another run is still driving.     *)
(* (client.go Adopt)                                                       *)
AdoptSparesDials ==
    pc[Spawner] = "dialing" /\ dialPc \in {"auth", "asking"} =>
      \A c \in Adopters : \A i \in DOMAIN up[c] : up[c][i].kind # "kill"
=============================================================================
