---------------------------- MODULE GrantPromise ----------------------------
(***************************************************************************)
(* What the owner of the remote-access grant promises, with no goroutines  *)
(* in it: one grant at most is live; the first request answered wins and   *)
(* cancels every other; a withdrawal cancels the grants still being minted *)
(* as well as the live one; and a cancelled request never comes back.      *)
(***************************************************************************)
EXTENDS Naturals

CONSTANT Requests   \* requests for a grant, in the order they can be made

VARIABLES
  live,    \* the set of live grants: empty or one request
  asked,   \* requests that may still become live
  made     \* requests made so far

promise == <<live, asked, made>>

Init == live = {} /\ asked = {} /\ made = {}

\* A request is new; asking changes nothing about the grant that is live.
Ask(r) ==
  /\ r \notin made
  /\ made' = made \cup {r}
  /\ asked' \in {asked, asked \cup {r}}
  /\ UNCHANGED live

\* Opening its socket failed: the request is over, the live grant stays.
Fail(r) ==
  /\ r \in asked
  /\ asked' = asked \ {r}
  /\ UNCHANGED <<live, made>>

Grant(r) ==
  /\ r \in asked
  /\ live' = {r} /\ asked' = {}
  /\ UNCHANGED made

Withdraw ==
  /\ live' = {} /\ asked' = {}
  /\ UNCHANGED made

Next == Withdraw \/ \E r \in Requests : Ask(r) \/ Fail(r) \/ Grant(r)

Spec == Init /\ [][Next]_promise
=============================================================================
