--------------------------- MODULE SubnetContract ---------------------------
(***************************************************************************)
(* What the users of a Subnet may rely on: while it lives it stays where   *)
(* it is and its addresses never become fewer. Leases and bindings         *)
(* outlive every change of the spec because of it.                         *)
(***************************************************************************)
CONSTANTS Names, Addresses,
          Places,  \* network, link and own address of a Subnet
          None

VARIABLES place, addresses

Init ==
    /\ place = [n \in Names |-> None]
    /\ addresses = [n \in Names |-> {}]

\* Only Subnet n changes.
Becomes(n) ==
    /\ place' = [place EXCEPT ![n] = place'[n]]
    /\ addresses' = [addresses EXCEPT ![n] = addresses'[n]]

Admit(n) ==
    /\ place[n] = None
    /\ place'[n] \in Places
    /\ addresses'[n] \subseteq Addresses
    /\ Becomes(n)

Expand(n) ==
    /\ place[n] \in Places
    /\ place'[n] = place[n]
    /\ addresses[n] \subseteq addresses'[n] /\ addresses'[n] \subseteq Addresses
    /\ Becomes(n)

Withdraw(n) ==
    /\ place[n] \in Places
    /\ place'[n] = None
    /\ addresses'[n] = {}
    /\ Becomes(n)

Next == \E n \in Names : Admit(n) \/ Expand(n) \/ Withdraw(n)

Spec == Init /\ [][Next]_<<place, addresses>>
=============================================================================
