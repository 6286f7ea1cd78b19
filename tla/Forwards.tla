------------------------------ MODULE Forwards ------------------------------
(***************************************************************************)
(* The life of a port forward (sshx/forward.go, socks5.go, the registry of  *)
(* sshx/manager.go) and the event loop that lists, closes and hears of it   *)
(* (ui/update_forwards.go, the quit of ui/update_forms.go).                 *)
(*                                                                         *)
(* Four goroutines can end a forward: its accept loop, the waiter on its    *)
(* SSH connection, its keepalive and the event loop.  The first runs the    *)
(* body of end, the others wait in sync.Once.  The last thing the body does *)
(* is program.Send: it hands the message to the event loop and returns when *)
(* the loop has taken it (main.go, run: mgr.SetNotify(p.Send)).             *)
(***************************************************************************)
EXTENDS Naturals, FiniteSets

CONSTANTS
    Fwds,      \* forwards of a run
    Conns      \* connections a run makes through each

VARIABLES
    fwd,       \* fwd[f]: the forward, see NewForward
    conn,      \* conn[f][c]: one connection through it
    pipes,     \* pipes[f]: the counter the overlay shows
    ui,        \* what the event loop is doing
    told       \* told[f]: the reasons the UI was given for the end of f

vars == <<fwd, conn, pipes, ui, told>>

Enders  == {"ui", "accept", "wait", "keepalive"}
Nobody  == "nobody"
Failure == "failure"
Clean   == "closed"     \* a nil error

NewForward == [pc |-> "none", client |-> FALSE, ln |-> FALSE, alive |-> FALSE,
               listed |-> FALSE, broken |-> FALSE, asked |-> FALSE,
               once |-> Nobody, at |-> Nobody, reason |-> Clean,
               ended |-> {}]

Update(f, r) == fwd' = [fwd EXCEPT ![f] = r]

---------------------------------------------------------------------------
(* StartForward *)

Connected(f) ==
    /\ fwd[f].pc = "none"
    /\ Update(f, [fwd[f] EXCEPT !.pc = "connected", !.client = TRUE])
    /\ UNCHANGED <<conn, pipes, ui, told>>

\* Mutant: a listener that cannot be opened leaves the connection behind.
ListenFailsOpen(f) == [fwd[f] EXCEPT !.pc = "failed"]

ListenFails(f) == [fwd[f] EXCEPT !.pc = "failed", !.client = FALSE]

ForwardListen(f) ==
    /\ fwd[f].pc = "connected"
    /\ \/ Update(f, [fwd[f] EXCEPT !.pc = "listening", !.ln = TRUE])
       \/ Update(f, ListenFails(f))
    /\ UNCHANGED <<conn, pipes, ui, told>>

\* registerForward, then the goroutines.
Registered(f) == [fwd[f] EXCEPT !.pc = "running", !.alive = TRUE, !.listed = TRUE]

Start(f) ==
    /\ fwd[f].pc = "listening"
    /\ Update(f, Registered(f))
    /\ UNCHANGED <<conn, pipes, ui, told>>

---------------------------------------------------------------------------
(* end *)

\* The SSH connection or the listener breaks.
Breaks(f) ==
    /\ fwd[f].pc = "running" /\ ~fwd[f].broken
    /\ \/ fwd[f].client /\ Update(f, [fwd[f] EXCEPT !.client = FALSE, !.broken = TRUE])
       \/ fwd[f].ln /\ Update(f, [fwd[f] EXCEPT !.ln = FALSE, !.broken = TRUE])
    /\ UNCHANGED <<conn, pipes, ui, told>>

\* Who has a reason to call end, and which error it brings.
Calls(f, e) ==
    /\ fwd[f].pc = "running" /\ e \notin fwd[f].ended
    /\ CASE e = "accept"    -> ~fwd[f].ln
         [] e = "wait"      -> ~fwd[f].client
         [] e = "keepalive" -> ~fwd[f].client
         [] OTHER           -> ui.pc = "closing" /\ ui.on = f
Brings(e) == IF e \in {"accept", "wait"} THEN Failure ELSE Clean

OnceFree(f) == fwd[f].once = Nobody

EnterEnd(f, e) ==
    /\ Calls(f, e) /\ OnceFree(f)
    /\ Update(f, [fwd[f] EXCEPT !.once = e, !.reason = Brings(e), !.alive = FALSE,
                                !.at = "tear"])
    /\ UNCHANGED <<conn, pipes, ui, told>>

\* The listener and the client are closed and done is; then the registry
\* entry goes.
TearDown(f) ==
    /\ fwd[f].at = "tear"
    /\ Update(f, [fwd[f] EXCEPT !.ln = FALSE, !.client = FALSE, !.at = "remove"])
    /\ UNCHANGED <<conn, pipes, ui, told>>

\* Mutant: an entry outlives its forward.
StillListed(f) == [fwd[f] EXCEPT !.at = "notify"]

Unlisted(f) == [fwd[f] EXCEPT !.listed = FALSE, !.at = "notify"]

RemoveForward(f) ==
    /\ fwd[f].at = "remove"
    /\ Update(f, Unlisted(f))
    /\ UNCHANGED <<conn, pipes, ui, told>>

\* p.Send: a rendezvous with the event loop; after the program it returns at once.
Notify(f) ==
    /\ fwd[f].at = "notify" /\ ui.pc \in {"idle", "gone"}
    /\ Update(f, [fwd[f] EXCEPT !.at = "over"])
    /\ told' = IF ui.pc = "idle" THEN [told EXCEPT ![f] = @ \union {fwd[f].reason}] ELSE told
    /\ UNCHANGED <<conn, pipes, ui>>

\* The body has run: every call of end returns.
LeaveEnd(f, e) ==
    /\ Calls(f, e) /\ fwd[f].at = "over"
    /\ Update(f, [fwd[f] EXCEPT !.ended = @ \union {e}])
    /\ ui' = IF e = "ui" THEN [ui EXCEPT !.pc = IF ui.todo = {} THEN "idle" ELSE "quitting"]
                         ELSE ui
    /\ UNCHANGED <<conn, pipes, told>>

---------------------------------------------------------------------------
(* Connections through a forward *)

Accept(f, c) ==
    /\ fwd[f].pc = "running" /\ fwd[f].ln /\ conn[f][c] = "none"
    /\ conn' = [conn EXCEPT ![f][c] = "accepted"]
    /\ UNCHANGED <<fwd, pipes, ui, told>>

\* handleLocal, handleRemote, handleDynamic: the target is dialed through the
\* client (after a SOCKS5 request, for a dynamic forward), or the connection
\* is dropped.
Handle(f, c) ==
    /\ conn[f][c] = "accepted"
    /\ \/ /\ fwd[f].client
          /\ conn' = [conn EXCEPT ![f][c] = "piping"] /\ pipes' = [pipes EXCEPT ![f] = @ + 1]
       \/ conn' = [conn EXCEPT ![f][c] = "over"] /\ UNCHANGED pipes
    /\ UNCHANGED <<fwd, ui, told>>

\* pipe: one direction reaches its end and half-closes the other.
OneWay(s) == CASE s = "piping" -> "halfclosed" [] OTHER -> "over"

EndOfStream(f, c) ==
    /\ conn[f][c] \in {"piping", "halfclosed"}
    /\ conn' = [conn EXCEPT ![f][c] = OneWay(@)]
    /\ pipes' = IF conn[f][c] = "halfclosed" THEN [pipes EXCEPT ![f] = @ - 1] ELSE pipes
    /\ UNCHANGED <<fwd, ui, told>>

---------------------------------------------------------------------------
(* The event loop *)

Listed == {f \in Fwds : fwd[f].listed}

\* x in the forwards overlay.
ForwardsKey ==
    /\ ui.pc = "idle"
    /\ \E f \in Listed :
          /\ ui' = [pc |-> "closing", on |-> f, todo |-> {}]
          /\ Update(f, [fwd[f] EXCEPT !.asked = TRUE])
    /\ UNCHANGED <<conn, pipes, told>>

\* doQuit: CloseAll takes the list, and closes one after the other.
DoQuit ==
    /\ ui.pc = "idle"
    /\ ui' = [pc |-> "quitting", on |-> CHOOSE f \in Fwds : TRUE, todo |-> Listed]
    /\ UNCHANGED <<fwd, conn, pipes, told>>

CloseAll ==
    /\ ui.pc = "quitting"
    /\ IF ui.todo = {}
       THEN ui' = [ui EXCEPT !.pc = "gone"] /\ UNCHANGED fwd
       ELSE \E f \in ui.todo :
               /\ ui' = [pc |-> "closing", on |-> f, todo |-> ui.todo \ {f}]
               /\ Update(f, [fwd[f] EXCEPT !.asked = TRUE])
    /\ UNCHANGED <<conn, pipes, told>>

\* A session takes the terminal, and gives it back.
Attach   == ui.pc = "idle" /\ ui' = [ui EXCEPT !.pc = "attached"] /\ UNCHANGED <<fwd, conn, pipes, told>>
Detached == ui.pc = "attached" /\ ui' = [ui EXCEPT !.pc = "idle"] /\ UNCHANGED <<fwd, conn, pipes, told>>

---------------------------------------------------------------------------

Init ==
    /\ fwd = [f \in Fwds |-> NewForward]
    /\ conn = [f \in Fwds |-> [c \in Conns |-> "none"]]
    /\ pipes = [f \in Fwds |-> 0]
    /\ ui = [pc |-> "idle", on |-> CHOOSE f \in Fwds : TRUE, todo |-> {}]
    /\ told = [f \in Fwds |-> {}]

End(f) == \/ \E e \in Enders : EnterEnd(f, e) \/ LeaveEnd(f, e)
          \/ TearDown(f) \/ RemoveForward(f)

Next ==
    \/ \E f \in Fwds : \/ Connected(f) \/ ForwardListen(f) \/ Start(f) \/ Breaks(f)
                       \/ End(f) \/ Notify(f)
                       \/ \E c \in Conns : Accept(f, c) \/ Handle(f, c) \/ EndOfStream(f, c)
    \/ ForwardsKey \/ DoQuit \/ CloseAll \/ Attach \/ Detached

Spec == Init /\ [][Next]_vars

\* Goroutines run; a Send is served by an event loop that comes back for messages.
FairSpec == Spec /\ WF_vars(CloseAll) /\ \A f \in Fwds : WF_vars(End(f)) /\ SF_vars(Notify(f))

---------------------------------------------------------------------------
(* Properties *)

\* StartForward, end: an SSH connection or a listener that is open belongs to a
\* forward being started or to one the user can see and close.
NothingLeaks ==
    \A f \in Fwds :
        fwd[f].client \/ fwd[f].ln => fwd[f].pc \in {"connected", "listening"} \/ fwd[f].listed

\* A forward that stopped is reported and gone from the list, as long as the event
\* loop keeps coming back for messages.
EndIsTold ==
    []<>(ui.pc = "idle") =>
        \A f \in Fwds : (fwd[f].pc = "running" /\ ~fwd[f].alive) ~> (told[f] # {} /\ ~fwd[f].listed)

---------------------------------------------------------------------------
(* What the texts say and the code does not do; see README, section 8 *)

\* Close is "safe to call from any goroutine": a close from the event loop returns.
CloseReturns == ui.pc = "closing" ~> ui.pc # "closing"

\* end: "err is nil on a deliberate Close and non-nil when a listener or connection
\* failure ended it".
NilMeansDeliberate == \A f \in Fwds : Clean \in told[f] => fwd[f].asked
=============================================================================
