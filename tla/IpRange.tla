------------------------------ MODULE IpRange ------------------------------
(***************************************************************************)
(* The address arithmetic of pkg/tools that decides what a Subnet may      *)
(* look like and how many addresses it has.                                *)
(*                                                                         *)
(* An address is a number; BadIP is a text net.ParseIP refuses (an octet   *)
(* above 255, which the patterns of the CRD let through). An ipRange is    *)
(* the sequence of the parts between its commas, each the sequence of the  *)
(* addresses between its dashes: <<a>> for one address, <<a, b>> for a     *)
(* range. "ip/mask" is a record of an address and the number of addresses  *)
(* in its network.                                                         *)
(***************************************************************************)
EXTENDS Integers, Sequences, FiniteSetsExt

CONSTANT AddressSpace  \* number of addresses: 2^32 in the code

ASSUME AddressSpaceAssumption == AddressSpace \in Nat \ {0}

BadIP == -1
IPs == 0..(AddressSpace - 1)

\* "ip/mask", with the number of addresses instead of the mask.
Networks == [ip: Int, size: Nat \ {0}]

Start(r) == r[1]
End(r) == r[Len(r)]

ValidateIPInSubnet(ip, subnet) == ip \div subnet.size = subnet.ip \div subnet.size

\* The mask written behind the address is not looked at; the comparison of
\* the network parts repeats the one before it.
ValidateIPWithSubnetMatch(ipCIDR, subnet) ==
    ipCIDR.ip # BadIP /\ ValidateIPInSubnet(ipCIDR.ip, subnet)

ValidateIPRange(ipRange, subnet) ==
    \A i \in DOMAIN ipRange : LET r == ipRange[i] IN
        /\ Len(r) \in {1, 2}
        /\ \A k \in DOMAIN r : r[k] # BadIP /\ ValidateIPInSubnet(r[k], subnet)
        /\ Start(r) <= End(r)

\* Mutant: it is enough that a new part touches the old one.
Touches(oldRange, newRange, subnet) ==
    \A i \in DOMAIN oldRange : \E j \in DOMAIN newRange :
        Start(newRange[j]) <= Start(oldRange[i])

\* Each old part has to lie within one new part.
ValidateIPRangeExpansion(oldRange, newRange, subnet) ==
    /\ ValidateIPRange(oldRange, subnet)
    /\ ValidateIPRange(newRange, subnet)
    /\ \A i \in DOMAIN oldRange : \E j \in DOMAIN newRange :
          /\ Start(newRange[j]) <= Start(oldRange[i])
          /\ End(newRange[j]) >= End(oldRange[i])

\* Parts that cannot be read are skipped.
IsIPInRange(ip, ipRange) ==
    \E i \in DOMAIN ipRange : LET r == ipRange[i] IN
        /\ Len(r) \in {1, 2}
        /\ \A k \in DOMAIN r : r[k] # BadIP
        /\ Start(r) <= ip /\ ip <= End(r)

\* The length of a part is computed in 32 bits.
PartLength(r) == IF Len(r) = 1 THEN 1 ELSE (r[2] - r[1] + 1) % AddressSpace

\* The total after each turn of the loop over the parts.
RunningTotal(ipRange) ==
    LET total[k \in 0..Len(ipRange)] ==
            IF k = 0 THEN 0 ELSE total[k - 1] + PartLength(ipRange[k])
    IN  total

\* CountIPsInRange, or 0 when it returns an error, as its caller does.
CountIPsInRange(ipRange) ==
    IF \A i \in DOMAIN ipRange : LET r == ipRange[i] IN
          /\ Len(r) \in {1, 2}
          /\ \A k \in DOMAIN r : r[k] # BadIP
          /\ Start(r) <= End(r)
    THEN RunningTotal(ipRange)[Len(ipRange)]
    ELSE 0

-----------------------------------------------------------------------------
(* What the operators above are measured against.                           *)

Covered(ipRange) == {ip \in IPs : IsIPInRange(ip, ipRange)}

\* No address is in two parts, and no part is the whole address space.
Plain(ipRange) ==
    /\ \A i, j \in DOMAIN ipRange :
          i # j => Covered(<<ipRange[i]>>) \cap Covered(<<ipRange[j]>>) = {}
    /\ \A i \in DOMAIN ipRange : Covered(<<ipRange[i]>>) # IPs \/ Len(ipRange[i]) = 1

=============================================================================
