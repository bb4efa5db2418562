------------------------- MODULE MCSubnetAdmission -------------------------
(* Eight addresses; the node has address 1 in network 0..1 on eth0.         *)
EXTENDS SubnetAdmission, TLC

NameSymmetry == Permutations(Names)

MCHostAddrs == [i \in Interfaces |-> <<[ip |-> 1, size |-> 2]>>]

Req(range, vlan, addr) ==
    [cidr |-> [ip |-> 4, size |-> 4], range |-> range, iface |-> "", vlan |-> vlan,
     addr |-> addr, gateway |-> None, dns |-> None]

\* Two Subnets of one link, with and without vlanId; a range and one
\* of two parts that includes it; another place; a VLAN; what the webhook
\* refuses or what meets the network of the host.
MCRequests ==
    LET a == [ip |-> 4, size |-> 4] IN
    { Req(<<<<5, 5>>>>, NoVlan, a),
      Req(<<<<5, 5>>, <<6, 7>>>>, 0, a),
      Req(<<<<6, 7>>>>, 0, [ip |-> 5, size |-> 8]),
      Req(<<<<6, 7>>>>, 2, [ip |-> 5, size |-> 4]),
      Req(<<<<7, 6>>>>, 3, a),
      Req(<<<<5, BadIP>>>>, 3, a),
      [Req(<<<<0, 2>>>>, 2, [ip |-> 0, size |-> 4]) EXCEPT !.cidr = [ip |-> 0, size |-> 4]],
      [Req(<<<<0, 0>>>>, 0, [ip |-> 1, size |-> 2]) EXCEPT
          !.cidr = [ip |-> 1, size |-> 4], !.gateway = 3, !.dns = 7] }
=============================================================================
