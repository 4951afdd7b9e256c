---------------------------- MODULE MCDvkMigrate -----------------------------
(* Instances of DvkMigrate for TLC. *)
EXTENDS DvkMigrate

CONSTANTS server, client1, client2, remote

ThreeNodes == {"a", "b", "c"}

\* A server that migrates and its two clients, one of which sends also to a
\* server that is at another node at first.
Four == {server, client1, client2, remote}
FourHome == [p \in Four |-> IF p = remote THEN "b" ELSE "a"]
Servers == {server, remote}
Both == [p \in Four |-> IF p = client1 THEN Servers
                         ELSE IF p = client2 THEN {server} ELSE {}]
=============================================================================
