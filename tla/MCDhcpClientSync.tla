-------------------------- MODULE MCDhcpClientSync --------------------------
(* Small instances of DhcpClientSync for TLC. An address is leased, the lease *)
(* is renewed, or the address is given to another client.                     *)
EXTENDS DhcpClientSync

CONSTANT i1

Lease(m, h, x) == [mac |-> m, hostname |-> h, expire |-> x]

MCLeases == {Lease("m1", "a", 1), Lease("m1", "a", 2), Lease("m2", "b", 2)}
==============================================================================
