----------------------------- MODULE MCSshDial -----------------------------
(* Hosts and servers for SshDial. *)
EXTENDS SshDial
CONSTANTS k1, k2, k3

KeySource(src, k, lock) == [src |-> src, key |-> k, lock |-> lock]
Server(key, allows, good, limit) ==
    [key |-> key, allows |-> allows, good |-> good, limit |-> limit]

\* Three keys from three sources, one of them locked, on a strict server.
FleetHost ==
    [mode |-> "key", bound |-> NoKey, agent |-> <<k1>>, useAgent |-> TRUE,
     file |-> <<KeySource("file", k2, "plain")>>, password |-> Nothing,
     vault |-> <<KeySource("vault", k1, "plain"), KeySource("vault", k3, "locked")>>,
     server |-> Server("unknown", {"publickey", "ki"}, {k3}, 3)]

\* A host that refuses every key, with a key file that cannot be read.
HopelessHost ==
    [FleetHost EXCEPT !.file = <<KeySource("file", k1, "broken")>>,
                      !.vault = <<KeySource("vault", k2, "plain"), KeySource("vault", k3, "plain")>>,
                      !.server = Server("known", {"publickey"}, {}, 3)]

\* A host bound to its own key, with the agent switched off.
BoundHost ==
    [FleetHost EXCEPT !.bound = k3, !.useAgent = FALSE, !.file = <<>>,
                      !.server = Server("known", {"publickey"}, {k3}, 3)]

\* Password hosts: nothing stored, and a stored password that is out of date.
PasswordHost ==
    [FleetHost EXCEPT !.mode = "password",
                      !.server = Server("known", {"password"}, {}, 4)]
StaleHost == [PasswordHost EXCEPT !.password = "wrong", !.server = Server("known", {"password", "ki"}, {}, 4)]

ChangedHost == [FleetHost EXCEPT !.server.key = "changed"]

AllSetups == {FleetHost, HopelessHost, BoundHost, PasswordHost, StaleHost, ChangedHost}
=============================================================================
