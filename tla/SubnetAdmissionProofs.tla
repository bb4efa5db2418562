----------------------- MODULE SubnetAdmissionProofs -----------------------
(***************************************************************************)
(* Theorems about SubnetAdmission, for any names, interfaces, addresses of *)
(* the host and specs. The inductive invariant is AdmissionInv.            *)
(***************************************************************************)
EXTENDS SubnetAdmission, WellFoundedInduction, TLAPS

\* The specs the webhook has let through.
Admitted ==
    {s \in {Default(q) : q \in Requests} :
        s.iface \in Interfaces /\ s.vlan \in VlanIds /\ (s.vlan = NoVlan => s.vlan = 0)}

Subnet(c) == [uid: 1..c, spec: Admitted]
Server(c) == [subnet: Subnet(c), uidSetUp: 1..c]

ObjectsTyped ==
    /\ creates \in Nat
    /\ subnets \in [Names -> Subnet(creates) \cup {None}]
    /\ seen \in [Names -> Subnet(creates) \cup {None}]
    /\ servers \in [Names -> Server(creates) \cup {None}]
    /\ blind \in [Names -> SUBSET Names]

\* The addresses an interface had at boot are the first of its link.
LinksTyped ==
    /\ links \in [DOMAIN links -> Seq(Networks)]
    /\ \A l \in DOMAIN links : l[1] \in Interfaces
    /\ \A i \in Interfaces :
          /\ BaseLink(i) \in DOMAIN links
          /\ \A k \in DOMAIN HostAddrs[i] :
                k \in DOMAIN links[BaseLink(i)] /\ links[BaseLink(i)][k] = HostAddrs[i][k]

\* Of two copies of a Subnet the first is not newer, and if they are of the
\* same Subnet they name the same place.
Follows(a, b) ==
    (a # None /\ b # None) =>
        a.uid <= b.uid /\ (a.uid = b.uid => PlaceOf(a.spec) = PlaceOf(b.spec))

\* Servers lag behind the informer, and the informer behind the API server.
Ordered ==
    \A n \in Names :
        /\ Follows(seen[n], subnets[n])
        /\ servers[n] # None =>
              /\ servers[n].uidSetUp <= servers[n].subnet.uid
              /\ Follows(servers[n].subnet, seen[n])
              /\ Follows(servers[n].subnet, subnets[n])

AdmissionInv ==
    /\ ObjectsTyped
    /\ LinksTyped
    /\ Ordered
    /\ SharedOnlyIfUnseen
    /\ HostNetworkKept
    /\ ServerHasAddress

-----------------------------------------------------------------------------
(* Facts about specs and ranges                                              *)

\* A non-empty set of natural numbers has a least element, which is Min.
LEMMA LeastElement ==
    ASSUME NEW S \in SUBSET Nat, S # {}
    PROVE  Min(S) \in S /\ \A y \in S : Min(S) <= y
<1>1. \E x \in S : \A y \in S : ~(<<y, x>> \in OpToRel(<, Nat))
  BY NatLessThanWellFounded, WFMin
<1>2. PICK x \in S : \A y \in S : ~(<<y, x>> \in OpToRel(<, Nat))
  BY <1>1
<1>3. \A y \in S : ~(y < x)
  BY <1>2 DEF OpToRel
<1>4. \A y \in S : x <= y
  BY <1>3
<1> QED
  BY <1>4 DEF Min

\* Default keeps every field but the two it fills in.
LEMMA DefaultFields ==
    ASSUME NEW q \in Requests
    PROVE  /\ Default(q) \in Specs
           /\ Default(q).vlan = IF q.vlan = NoVlan THEN 0 ELSE q.vlan
<1>1. q \in Specs
  BY AdmissionAssumption
<1> DEFINE iface == IF q.iface = "" THEN DhcpServerInterface ELSE q.iface
           vlan == IF q.vlan = NoVlan THEN 0 ELSE q.vlan
           r == [q EXCEPT !.iface = iface]
<1>2. iface \in STRING /\ vlan \in {NoVlan} \cup Int
  <2>1. q.iface \in STRING /\ q.vlan \in {NoVlan} \cup Int
    BY <1>1 DEF Specs
  <2>2. 0 \in Int
    OBVIOUS
  <2> QED
    BY <2>1, <2>2, AdmissionAssumption, Zenon
<1>3. r \in Specs /\ r.vlan = q.vlan
  <2> HIDE DEF iface
  <2> QED BY <1>1, <1>2 DEF Specs
<1>4. [r EXCEPT !.vlan = vlan] \in Specs /\ [r EXCEPT !.vlan = vlan].vlan = vlan
  <2> HIDE DEF vlan, r
  <2> QED BY <1>2, <1>3 DEF Specs
<1>5. Default(q) = [r EXCEPT !.vlan = vlan]
  BY <1>3 DEF Default
<1> QED
  BY <1>4, <1>5

\* What the webhook lets through is admitted.
LEMMA ValidIsAdmitted ==
    ASSUME NEW q \in Requests, NEW n, validateInterface(n, Default(q))
    PROVE  Default(q) \in Admitted
<1>1. /\ Default(q).iface \in Interfaces
      /\ Default(q).vlan # NoVlan => Default(q).vlan \in VlanIds
  BY Zenon DEF validateInterface
<1>2. Default(q).vlan = IF q.vlan = NoVlan THEN 0 ELSE q.vlan
  BY DefaultFields
<1>3. 0 \in VlanIds
  BY DEF VlanIds
<1>4. Default(q).vlan \in VlanIds /\ (Default(q).vlan = NoVlan => Default(q).vlan = 0)
  BY <1>1, <1>2, <1>3
<1> QED
  BY <1>1, <1>4 DEF Admitted

\* An admitted spec has a link that is its interface with its vlanId.
LEMMA AdmittedFields ==
    ASSUME NEW s \in Admitted
    PROVE  /\ s \in Specs
           /\ s.iface \in Interfaces /\ s.vlan \in VlanIds
           /\ s.addr \in Networks
           /\ LinkOf(s) = <<s.iface, s.vlan>>
           /\ HasVlan(s) <=> s.vlan # 0
<1>1. s \in Specs /\ s.iface \in Interfaces /\ s.vlan \in VlanIds
      /\ (s.vlan = NoVlan => s.vlan = 0)
  BY DefaultFields DEF Admitted
<1>2. s.addr \in Networks
  BY <1>1 DEF Specs
<1>3. HasVlan(s) <=> s.vlan # 0
  <2>1. PICK v \in VlanIds : v = s.vlan
    BY <1>1
  <2>2. v > 0 <=> v # 0
    BY DEF VlanIds
  <2> QED
    BY <1>1, <2>1, <2>2 DEF HasVlan
<1>4. LinkOf(s) = <<s.iface, s.vlan>>
  BY <1>1, <1>3 DEF LinkOf
<1> QED
  BY <1>1, <1>2, <1>3, <1>4

\* A range that ValidateIPRangeExpansion accepts covers the old one.
LEMMA ExpansionCovers ==
    ASSUME NEW old \in Seq(Seq(Int)), NEW new \in Seq(Seq(Int)), NEW net \in Networks,
           ValidateIPRangeExpansion(old, new, net)
    PROVE  Covered(old) \subseteq Covered(new)
<1> SUFFICES ASSUME NEW ip \in IPs, IsIPInRange(ip, old)
             PROVE  IsIPInRange(ip, new)
  BY DEF Covered
<1>0. ip \in Int
  BY AddressSpaceAssumption DEF IPs
<1>1. PICK i \in DOMAIN old : Start(old[i]) <= ip /\ ip <= End(old[i]) /\ Len(old[i]) \in {1, 2}
  BY DEF IsIPInRange
<1>2. PICK j \in DOMAIN new :
        Start(new[j]) <= Start(old[i]) /\ End(new[j]) >= End(old[i])
  BY <1>1 DEF ValidateIPRangeExpansion
<1>3. Len(new[j]) \in {1, 2} /\ \A k \in DOMAIN new[j] : new[j][k] # BadIP
  BY <1>2 DEF ValidateIPRangeExpansion, ValidateIPRange
<1>4. old[i] \in Seq(Int) /\ new[j] \in Seq(Int)
  BY <1>1, <1>2
<1>5. Start(old[i]) \in Int /\ End(old[i]) \in Int /\ Start(new[j]) \in Int /\ End(new[j]) \in Int
  <2>1. ASSUME NEW r \in Seq(Int), Len(r) \in {1, 2}
        PROVE  Start(r) \in Int /\ End(r) \in Int
    <3>1. r[1] \in Int /\ r[Len(r)] \in Int
      <4>1. 1 \in 1..Len(r) /\ Len(r) \in 1..Len(r)
        <5>1. CASE Len(r) = 1 BY <5>1
        <5>2. CASE Len(r) = 2 BY <5>2
        <5> QED BY <2>1, <5>1, <5>2
      <4> QED
        BY <2>1, <4>1
    <3> QED
      BY <3>1 DEF Start, End
  <2> QED
    BY <1>1, <1>3, <1>4, <2>1
<1>6. Start(new[j]) <= ip /\ ip <= End(new[j])
  BY <1>0, <1>1, <1>2, <1>5
<1> QED
  BY <1>2, <1>3, <1>6 DEF IsIPInRange

-----------------------------------------------------------------------------
(* Facts about links                                                         *)

\* Links keep the addresses they have.
Grown ==
    \A l \in DOMAIN links :
        l \in DOMAIN links' /\ \A a : Has(links[l], a) => Has(links'[l], a)

\* A spec that passes the check against the addresses of the interface and
\* lies in a network of the host has an address of the host and no VLAN: the
\* first address that holds it is one of those the link had at boot.
LEMMA HostClear ==
    ASSUME LinksTyped, NEW s \in Admitted, ValidateHostInterfaceSubnet(s),
           NEW h \in DOMAIN HostAddrs[s.iface],
           ValidateIPInSubnet(s.addr.ip, HostAddrs[s.iface][h])
    PROVE  LinkOf(s) = BaseLink(s.iface) /\ Has(HostAddrs[s.iface], s.addr)
<1> DEFINE i == s.iface
           base == links[BaseLink(i)]
<1>1. i \in Interfaces /\ LinkOf(s) = <<i, s.vlan>> /\ (HasVlan(s) <=> s.vlan # 0)
  BY AdmittedFields
<1>2. base \in Seq(Networks) /\ HostAddrs[i] \in Seq(Networks)
  BY <1>1, AdmissionAssumption DEF LinksTyped
<1>3. \A k \in DOMAIN HostAddrs[i] : k \in DOMAIN base /\ base[k] = HostAddrs[i][k]
  BY <1>1 DEF LinksTyped
<1>4. h \in Containing(s)
  BY <1>3 DEF Containing
<1>5. Containing(s) \in SUBSET Nat
  BY <1>2 DEF Containing
<1>6. Min(Containing(s)) \in Containing(s) /\ Min(Containing(s)) <= h
  BY <1>4, <1>5, LeastElement
<1>7. ~HasVlan(s) /\ base[Min(Containing(s))] = s.addr
  BY <1>4 DEF ValidateHostInterfaceSubnet
<1>8. Min(Containing(s)) \in DOMAIN HostAddrs[i]
  <2>1. Min(Containing(s)) \in DOMAIN base
    BY <1>6 DEF Containing
  <2> QED
    BY <1>2, <1>6, <2>1
<1>9. Has(HostAddrs[i], s.addr)
  BY <1>3, <1>7, <1>8 DEF Has
<1> QED
  BY <1>1, <1>7, <1>9 DEF BaseLink

\* The link of an admitted spec gets further addresses, if any then that of
\* the spec after a successful check.
LEMMA ExtendLink ==
    ASSUME LinksTyped, HostNetworkKept, NEW s \in Admitted, NEW new \in Seq(Networks),
           \A k \in DOMAIN AddrsOf(LinkOf(s)) : k \in DOMAIN new /\ new[k] = AddrsOf(LinkOf(s))[k],
           \A k \in DOMAIN new : \/ k \in DOMAIN AddrsOf(LinkOf(s))
                                 \/ new[k] = s.addr /\ ValidateHostInterfaceSubnet(s),
           links' = [l \in DOMAIN links \cup {LinkOf(s)} |->
                        IF l = LinkOf(s) THEN new ELSE links[l]]
    PROVE  LinksTyped' /\ HostNetworkKept' /\ Grown
<1> DEFINE L == LinkOf(s)
<1>1. s.iface \in Interfaces /\ L = <<s.iface, s.vlan>> /\ L[1] = s.iface
  BY AdmittedFields
<1>2. links \in [DOMAIN links -> Seq(Networks)]
  BY DEF LinksTyped
<1>3. AddrsOf(L) = IF L \in DOMAIN links THEN links[L] ELSE <<>>
  BY DEF AddrsOf
<1>4. DOMAIN links' = DOMAIN links \cup {L} /\ links'[L] = new
      /\ \A l \in DOMAIN links : l # L => links'[l] = links[l]
  OBVIOUS
<1>5. \A l \in DOMAIN links : \A k \in DOMAIN links[l] :
        k \in DOMAIN links'[l] /\ links'[l][k] = links[l][k]
  <2> SUFFICES ASSUME NEW l \in DOMAIN links, NEW k \in DOMAIN links[l]
               PROVE  k \in DOMAIN links'[l] /\ links'[l][k] = links[l][k]
    OBVIOUS
  <2>1. CASE l = L
    BY <1>3, <1>4, <2>1
  <2>2. CASE l # L
    BY <1>4, <2>2
  <2> QED BY <2>1, <2>2
<1>6. LinksTyped'
  <2>1. links' \in [DOMAIN links' -> Seq(Networks)]
    BY <1>2, <1>4
  <2>2. \A l \in DOMAIN links' : l[1] \in Interfaces
    BY <1>1, <1>4 DEF LinksTyped
  <2>3. \A i \in Interfaces : BaseLink(i) \in DOMAIN links'
    BY <1>4 DEF LinksTyped
  <2>4. ASSUME NEW i \in Interfaces, NEW k \in DOMAIN HostAddrs[i]
        PROVE  /\ k \in DOMAIN links'[BaseLink(i)]
               /\ links'[BaseLink(i)][k] = HostAddrs[i][k]
    BY <1>5 DEF LinksTyped
  <2> QED
    BY <2>1, <2>2, <2>3, <2>4 DEF LinksTyped, BaseLink
<1>7. HostNetworkKept'
  <2> SUFFICES ASSUME NEW l \in DOMAIN links', NEW k \in DOMAIN links'[l],
                      NEW h \in DOMAIN HostAddrs[l[1]],
                      ValidateIPInSubnet(links'[l][k].ip, HostAddrs[l[1]][h])
               PROVE  l = BaseLink(l[1]) /\ Has(HostAddrs[l[1]], links'[l][k])
    BY DEF HostNetworkKept
  <2>1. CASE l \in DOMAIN links /\ k \in DOMAIN links[l]
    BY <1>5, <2>1 DEF HostNetworkKept
  <2>2. CASE ~(l \in DOMAIN links /\ k \in DOMAIN links[l])
    <3>1. l = L
      BY <1>4, <2>2
    <3>2. k \notin DOMAIN AddrsOf(L)
      <4>1. CASE L \in DOMAIN links
        BY <1>3, <2>2, <3>1, <4>1
      <4>2. CASE L \notin DOMAIN links
        BY <1>3, <4>2
      <4> QED BY <4>1, <4>2
    <3>3. links'[l][k] = s.addr /\ ValidateHostInterfaceSubnet(s)
      BY <1>4, <3>1, <3>2
    <3> QED
      BY <1>1, <3>1, <3>3, HostClear
  <2> QED BY <2>1, <2>2
<1>8. Grown
  BY <1>4, <1>5 DEF Grown, Has
<1> QED
  BY <1>6, <1>7, <1>8

\* setupInterface keeps links in order and puts the address where it belongs.
LEMMA SetupKeepsLinks ==
    ASSUME LinksTyped, HostNetworkKept, NEW s \in Admitted, setupInterface(s)
    PROVE  /\ LinksTyped' /\ HostNetworkKept' /\ Grown
           /\ LinkOf(s) \in DOMAIN links' /\ Has(links'[LinkOf(s)], s.addr)
<1> DEFINE old == AddrsOf(LinkOf(s))
           new == configureIP(old, s.addr)
<1>1. old \in Seq(Networks) /\ s.addr \in Networks
  BY AdmittedFields DEF LinksTyped, AddrsOf
<1>2. /\ new \in Seq(Networks)
      /\ \A k \in DOMAIN old : k \in DOMAIN new /\ new[k] = old[k]
      /\ \A k \in DOMAIN new : k \in DOMAIN old \/ new[k] = s.addr
      /\ Has(new, s.addr)
  <2>1. CASE Has(old, s.addr)
    BY <1>1, <2>1 DEF configureIP
  <2>2. CASE ~Has(old, s.addr)
    <3>1. new = Append(old, s.addr)
      BY <2>2 DEF configureIP
    <3>2. /\ new \in Seq(Networks) /\ Len(new) = Len(old) + 1 /\ new[Len(old) + 1] = s.addr
          /\ \A k \in 1..Len(old) : new[k] = old[k]
      <4> HIDE DEF old
      <4> QED BY <1>1, <3>1
    <3>3. Len(old) \in Nat /\ DOMAIN old = 1..Len(old) /\ DOMAIN new = 1..Len(new)
      BY <1>1, <3>2
    <3>4. \A k \in DOMAIN new : k \in DOMAIN old \/ k = Len(old) + 1
      BY <3>2, <3>3
    <3>5. Len(old) + 1 \in DOMAIN new /\ \A k \in DOMAIN old : k \in DOMAIN new
      BY <3>2, <3>3
    <3> QED
      BY <3>2, <3>3, <3>4, <3>5 DEF Has
  <2> QED BY <2>1, <2>2
<1>3. /\ ValidateHostInterfaceSubnet(s)
      /\ links' = [l \in DOMAIN links \cup {LinkOf(s)} |->
                      IF l = LinkOf(s) THEN new ELSE links[l]]
  BY DEF setupInterface
<1> HIDE DEF old, new
<1>4. LinksTyped' /\ HostNetworkKept' /\ Grown
  BY <1>2, <1>3, ExtendLink DEF old
<1>5. LinkOf(s) \in DOMAIN links' /\ links'[LinkOf(s)] = new
  BY <1>3
<1> QED
  BY <1>2, <1>4, <1>5

\* A failed setup adds no address.
LEMMA SetupFailsKeepsLinks ==
    ASSUME LinksTyped, HostNetworkKept, NEW s \in Admitted, setupInterfaceFails(s)
    PROVE  LinksTyped' /\ HostNetworkKept' /\ Grown
<1>1. CASE UNCHANGED links
  <2>1. LinksTyped'
    BY <1>1 DEF LinksTyped, BaseLink
  <2>2. HostNetworkKept'
    BY <1>1 DEF HostNetworkKept
  <2> QED
    BY <1>1, <2>1, <2>2 DEF Grown
<1>2. CASE links' = [l \in DOMAIN links \cup {LinkOf(s)} |-> AddrsOf(l)]
  <2> DEFINE old == AddrsOf(LinkOf(s))
  <2>1. old \in Seq(Networks)
    BY DEF LinksTyped, AddrsOf
  <2>2. links' = [l \in DOMAIN links \cup {LinkOf(s)} |->
                     IF l = LinkOf(s) THEN old ELSE links[l]]
    BY <1>2 DEF AddrsOf
  <2> QED
    BY <2>1, <2>2, ExtendLink
<1> QED
  BY <1>1, <1>2 DEF setupInterfaceFails

\* Links after a boot.
LEMMA BootKeepsLinks ==
    ASSUME links' = BootLinks
    PROVE  LinksTyped' /\ HostNetworkKept'
<1>1. /\ \A i \in Interfaces : BaseLink(i) \in DOMAIN links' /\ links'[BaseLink(i)] = HostAddrs[i]
      /\ \A l \in DOMAIN links' : l[1] \in Interfaces /\ l = BaseLink(l[1])
                                   /\ links'[l] = HostAddrs[l[1]]
  BY DEF BootLinks, BaseLink
<1>2. links' = [l \in DOMAIN links' |-> links'[l]]
  BY DEF BootLinks
<1>3. \A i \in Interfaces : HostAddrs[i] \in Seq(Networks)
  BY AdmissionAssumption
<1>4. LinksTyped'
  BY <1>1, <1>2, <1>3 DEF LinksTyped, BaseLink
<1>5. HostNetworkKept'
  <2> SUFFICES ASSUME NEW l \in DOMAIN links', NEW k \in DOMAIN links'[l]
               PROVE  l = BaseLink(l[1]) /\ Has(HostAddrs[l[1]], links'[l][k])
    BY DEF HostNetworkKept
  <2> QED
    BY <1>1 DEF Has
<1> QED
  BY <1>4, <1>5

-----------------------------------------------------------------------------
(* Each action keeps the invariant                                           *)

\* What says nothing about the stored Subnets and the cache.
LEMMA NodeUnchanged ==
    ASSUME AdmissionInv, UNCHANGED <<links, servers>>
    PROVE  LinksTyped' /\ HostNetworkKept' /\ ServerHasAddress'
<1>1. LinksTyped'
  BY DEF AdmissionInv, LinksTyped, BaseLink
<1>2. HostNetworkKept'
  BY DEF AdmissionInv, HostNetworkKept
<1>3. ServerHasAddress'
  BY DEF AdmissionInv, ServerHasAddress
<1> QED
  BY <1>1, <1>2, <1>3

\* A newer bound on uids admits the older objects.
LEMMA MoreUids ==
    ASSUME NEW c \in Nat
    PROVE  /\ Subnet(c) \subseteq Subnet(c + 1)
           /\ Server(c) \subseteq Server(c + 1)
<1>1. 1..c \subseteq 1..(c + 1)
  OBVIOUS
<1>2. Subnet(c) \subseteq Subnet(c + 1)
  BY <1>1 DEF Subnet
<1> QED
  BY <1>1, <1>2 DEF Server

\* Two admitted specs on one link have the same interface and vlanId.
LEMMA SameLink ==
    ASSUME NEW s \in Admitted, NEW t \in Admitted, LinkOf(s) = LinkOf(t)
    PROVE  s.iface = t.iface /\ s.vlan = t.vlan
  BY AdmittedFields

\* Create: the new Subnet shares a link only with those the cache did not show
\* the webhook, and its uid is newer than every copy still held of the name.
LEMMA CreateKeepsInv ==
    ASSUME AdmissionInv, NEW n \in Names, NEW q \in Requests, Create(n, q)
    PROVE  AdmissionInv'
<1> DEFINE o == [uid |-> creates + 1, spec |-> Default(q)]
<1>1. /\ subnets' = [subnets EXCEPT ![n] = o] /\ creates' = creates + 1
      /\ UNCHANGED <<seen, links, servers>>
      /\ subnets[n] = None
      /\ blind' = [x \in Names |-> IF x = n THEN {y \in Names : seen[y] # subnets[y]}
                                   ELSE blind[x] \ {n}]
      /\ validateInterface(n, Default(q))
  BY DEF Create, ValidateCreate, validateSubnet
<1>2. creates \in Nat /\ creates + 1 \in 1..(creates + 1)
  BY DEF AdmissionInv, ObjectsTyped
<1>3. Default(q) \in Admitted /\ o \in Subnet(creates + 1)
  BY <1>1, <1>2, ValidIsAdmitted DEF Subnet
<1>4. ObjectsTyped'
  <2>1. /\ subnets \in [Names -> Subnet(creates) \cup {None}]
        /\ seen \in [Names -> Subnet(creates) \cup {None}]
        /\ servers \in [Names -> Server(creates) \cup {None}]
        /\ blind \in [Names -> SUBSET Names]
    BY DEF AdmissionInv, ObjectsTyped
  <2>2. subnets' \in [Names -> Subnet(creates + 1) \cup {None}]
    BY <1>1, <1>2, <1>3, <2>1, MoreUids
  <2>3. seen' \in [Names -> Subnet(creates + 1) \cup {None}]
    BY <1>1, <1>2, <2>1, MoreUids
  <2>4. servers' \in [Names -> Server(creates + 1) \cup {None}]
    BY <1>1, <1>2, <2>1, MoreUids
  <2>5. blind' \in [Names -> SUBSET Names]
    BY <1>1, <2>1
  <2> QED
    BY <1>1, <1>2, <2>2, <2>3, <2>4, <2>5 DEF ObjectsTyped
<1>5. Ordered'
  <2> SUFFICES ASSUME NEW m \in Names PROVE
        /\ Follows(seen[m], subnets'[m])
        /\ servers[m] # None =>
              /\ servers[m].uidSetUp <= servers[m].subnet.uid
              /\ Follows(servers[m].subnet, seen[m])
              /\ Follows(servers[m].subnet, subnets'[m])
    BY <1>1 DEF Ordered, Follows, PlaceOf, LinkOf, HasVlan
  <2>1. CASE m # n
    BY <1>1, <2>1 DEF AdmissionInv, Ordered, ObjectsTyped
  <2>2. CASE m = n
    <3>1. subnets'[m] = o
      BY <1>1, <2>2 DEF AdmissionInv, ObjectsTyped
    <3>2. \A x \in Subnet(creates) : Follows(x, o)
      BY <1>2 DEF Follows, Subnet
    <3>3. seen[m] # None => seen[m] \in Subnet(creates)
      BY DEF AdmissionInv, ObjectsTyped
    <3>4. servers[m] # None => servers[m].subnet \in Subnet(creates)
      BY DEF AdmissionInv, ObjectsTyped, Server
    <3>5. Follows(seen[m], o)
      BY <3>2, <3>3 DEF Follows
    <3> QED
      BY <3>1, <3>2, <3>4, <3>5 DEF AdmissionInv, Ordered
  <2> QED BY <2>1, <2>2
<1>6. SharedOnlyIfUnseen'
  <2> SUFFICES ASSUME NEW x \in Names, NEW y \in Names, x # y,
                      subnets'[x] # None, subnets'[y] # None,
                      LinkOf(subnets'[x].spec) = LinkOf(subnets'[y].spec)
               PROVE  x \in blind'[y] \/ y \in blind'[x]
    BY DEF SharedOnlyIfUnseen, LinkOf, HasVlan
  <2>1. ASSUME NEW z \in Names, z # n, subnets[z] # None,
               LinkOf(subnets[z].spec) = LinkOf(Default(q))
        PROVE  z \in blind'[n]
    <3>1. subnets[z].spec \in Admitted
      BY <2>1 DEF AdmissionInv, ObjectsTyped, Subnet
    <3>2. subnets[z].spec.iface = Default(q).iface /\ subnets[z].spec.vlan = Default(q).vlan
      BY <1>3, <2>1, <3>1, SameLink
    <3>3. seen[z] # subnets[z]
      <4>1. NoConflict(n, Default(q))
        BY <1>1 DEF validateInterface
      <4> QED
        BY <2>1, <3>2, <4>1 DEF NoConflict
    <3> QED
      BY <1>1, <3>3
  <2>2. subnets'[n] = o /\ o.spec = Default(q) /\ \A z \in Names : z # n => subnets'[z] = subnets[z]
    BY <1>1 DEF AdmissionInv, ObjectsTyped
  <2>3. CASE x = n
    BY <2>1, <2>2, <2>3
  <2>4. CASE y = n
    BY <2>1, <2>2, <2>4
  <2>5. CASE x # n /\ y # n
    <3>1. x \in blind[y] \/ y \in blind[x]
      BY <2>2, <2>5 DEF AdmissionInv, SharedOnlyIfUnseen
    <3> QED
      BY <1>1, <2>5, <3>1
  <2> QED BY <2>3, <2>4, <2>5
<1> QED
  BY <1>1, <1>4, <1>5, <1>6, NodeUnchanged DEF AdmissionInv

\* Update: ValidateUpdate keeps the place, so older copies still agree with it.
LEMMA UpdateKeepsInv ==
    ASSUME AdmissionInv, NEW n \in Names, NEW q \in Requests, Update(n, q)
    PROVE  AdmissionInv'
<1> DEFINE old == subnets[n].spec
<1>1. /\ subnets' = [subnets EXCEPT ![n].spec = Default(q)]
      /\ UNCHANGED <<seen, links, servers, blind, creates>>
      /\ subnets[n] # None
      /\ validateInterface(n, Default(q))
      /\ old.cidr = Default(q).cidr /\ old.iface = Default(q).iface
      /\ old.vlan = Default(q).vlan /\ old.addr = Default(q).addr
  BY DEF Update, ValidateUpdate, validateSubnet, Int32PtrEqual
<1>2. subnets[n] \in Subnet(creates) /\ subnets \in [Names -> Subnet(creates) \cup {None}]
  BY <1>1 DEF AdmissionInv, ObjectsTyped
<1>3. Default(q) \in Admitted
  BY <1>1, ValidIsAdmitted
<1>4. /\ subnets'[n] \in Subnet(creates) /\ subnets'[n].uid = subnets[n].uid
      /\ subnets'[n].spec = Default(q)
      /\ \A m \in Names : m # n => subnets'[m] = subnets[m]
  BY <1>1, <1>2, <1>3 DEF Subnet
<1>5. LinkOf(Default(q)) = LinkOf(old) /\ PlaceOf(Default(q)) = PlaceOf(old)
  BY <1>1 DEF PlaceOf, LinkOf, HasVlan
<1>6. ObjectsTyped'
  <2>1. subnets' \in [Names -> Subnet(creates) \cup {None}]
    BY <1>1, <1>2, <1>4
  <2> QED
    BY <1>1, <2>1 DEF AdmissionInv, ObjectsTyped
<1>7. Ordered'
  <2> SUFFICES ASSUME NEW m \in Names PROVE
        /\ Follows(seen[m], subnets'[m])
        /\ servers[m] # None =>
              /\ servers[m].uidSetUp <= servers[m].subnet.uid
              /\ Follows(servers[m].subnet, seen[m])
              /\ Follows(servers[m].subnet, subnets'[m])
    BY <1>1 DEF Ordered, Follows, PlaceOf, LinkOf, HasVlan
  <2>1. \A x : Follows(x, subnets[m]) => Follows(x, subnets'[m])
    BY <1>1, <1>4, <1>5 DEF Follows
  <2> QED
    BY <2>1 DEF AdmissionInv, Ordered
<1>8. SharedOnlyIfUnseen'
  <2> SUFFICES ASSUME NEW x \in Names, NEW y \in Names, x # y,
                      subnets'[x] # None, subnets'[y] # None,
                      LinkOf(subnets'[x].spec) = LinkOf(subnets'[y].spec)
               PROVE  x \in blind[y] \/ y \in blind[x]
    BY <1>1 DEF SharedOnlyIfUnseen, LinkOf, HasVlan
  <2>1. \A z \in Names : subnets'[z] # None =>
           subnets[z] # None /\ LinkOf(subnets'[z].spec) = LinkOf(subnets[z].spec)
    BY <1>1, <1>4, <1>5
  <2> QED
    BY <2>1 DEF AdmissionInv, SharedOnlyIfUnseen
<1> QED
  BY <1>1, <1>6, <1>7, <1>8, NodeUnchanged DEF AdmissionInv

\* Delete: one Subnet less to share a link with, and older copies stay older.
LEMMA DeleteKeepsInv ==
    ASSUME AdmissionInv, NEW n \in Names, Delete(n)
    PROVE  AdmissionInv'
<1>1. /\ subnets' = [subnets EXCEPT ![n] = None]
      /\ UNCHANGED <<seen, links, servers, blind, creates>>
  BY DEF Delete
<1>2. ObjectsTyped'
  BY <1>1 DEF AdmissionInv, ObjectsTyped
<1>3. subnets'[n] = None /\ \A m \in Names : m # n => subnets'[m] = subnets[m]
  BY <1>1 DEF AdmissionInv, ObjectsTyped
<1>4. Ordered'
  <2> SUFFICES ASSUME NEW m \in Names PROVE
        /\ Follows(seen[m], subnets'[m])
        /\ servers[m] # None =>
              /\ servers[m].uidSetUp <= servers[m].subnet.uid
              /\ Follows(servers[m].subnet, seen[m])
              /\ Follows(servers[m].subnet, subnets'[m])
    BY <1>1 DEF Ordered, Follows, PlaceOf, LinkOf, HasVlan
  <2>1. \A x : Follows(x, subnets[m]) => Follows(x, subnets'[m])
    BY <1>3 DEF Follows
  <2> QED
    BY <2>1 DEF AdmissionInv, Ordered
<1>5. SharedOnlyIfUnseen'
  <2> SUFFICES ASSUME NEW x \in Names, NEW y \in Names, x # y,
                      subnets'[x] # None, subnets'[y] # None,
                      LinkOf(subnets'[x].spec) = LinkOf(subnets'[y].spec)
               PROVE  x \in blind[y] \/ y \in blind[x]
    BY <1>1 DEF SharedOnlyIfUnseen, LinkOf, HasVlan
  <2> QED
    BY <1>3 DEF AdmissionInv, SharedOnlyIfUnseen
<1> QED
  BY <1>1, <1>2, <1>4, <1>5, NodeUnchanged DEF AdmissionInv

\* Observe: the copy in the cache becomes the stored one, which no server is
\* ahead of.
LEMMA ObserveKeepsInv ==
    ASSUME AdmissionInv, NEW n \in Names, Observe(n)
    PROVE  AdmissionInv'
<1>1. /\ seen' = [seen EXCEPT ![n] = subnets[n]]
      /\ UNCHANGED <<subnets, links, servers, blind, creates>>
  BY DEF Observe
<1>2. ObjectsTyped'
  BY <1>1 DEF AdmissionInv, ObjectsTyped
<1>3. seen'[n] = subnets[n] /\ \A m \in Names : m # n => seen'[m] = seen[m]
  BY <1>1 DEF AdmissionInv, ObjectsTyped
<1>4. Ordered'
  <2> SUFFICES ASSUME NEW m \in Names PROVE
        /\ Follows(seen'[m], subnets[m])
        /\ servers[m] # None =>
              /\ servers[m].uidSetUp <= servers[m].subnet.uid
              /\ Follows(servers[m].subnet, seen'[m])
              /\ Follows(servers[m].subnet, subnets[m])
    BY <1>1 DEF Ordered, Follows, PlaceOf, LinkOf, HasVlan
  <2>1. Follows(subnets[m], subnets[m])
    <3>1. subnets[m] # None => subnets[m].uid \in Int
      BY DEF AdmissionInv, ObjectsTyped, Subnet
    <3> QED BY <3>1 DEF Follows
  <2> QED
    BY <1>3, <2>1 DEF AdmissionInv, Ordered
<1>5. SharedOnlyIfUnseen'
  BY <1>1 DEF AdmissionInv, SharedOnlyIfUnseen, LinkOf, HasVlan
<1> QED
  BY <1>1, <1>2, <1>4, <1>5, NodeUnchanged DEF AdmissionInv

\* What says nothing about servers and links.
LEMMA ObjectsUnchanged ==
    ASSUME AdmissionInv, UNCHANGED <<subnets, blind>>
    PROVE  SharedOnlyIfUnseen'
  BY DEF AdmissionInv, SharedOnlyIfUnseen, LinkOf, HasVlan

\* A server that stays as it was keeps its address while links grow.
LEMMA GrownKeepsAddress ==
    ASSUME AdmissionInv, Grown, NEW m \in Names,
           servers[m] # None, servers[m].subnet.uid = servers[m].uidSetUp
    PROVE  LET s == servers[m].subnet.spec IN
           LinkOf(s) \in DOMAIN links' /\ Has(links'[LinkOf(s)], s.addr)
<1> DEFINE s == servers[m].subnet.spec
<1>1. LinkOf(s) \in DOMAIN links /\ Has(links[LinkOf(s)], s.addr)
  BY DEF AdmissionInv, ServerHasAddress
<1> QED
  BY <1>1 DEF Grown

\* StartServer: setupInterface gives the link the address the server needs.
LEMMA StartServerKeepsInv ==
    ASSUME AdmissionInv, NEW n \in Names, StartServer(n)
    PROVE  AdmissionInv'
<1> DEFINE v == [subnet |-> seen[n], uidSetUp |-> seen[n].uid]
<1>1. /\ seen[n] # None /\ setupInterface(seen[n].spec)
      /\ servers' = [servers EXCEPT ![n] = v]
      /\ UNCHANGED <<subnets, seen, blind, creates>>
  BY DEF StartServer
<1>2. seen[n] \in Subnet(creates) /\ seen[n].uid \in 1..creates /\ seen[n].spec \in Admitted
  BY <1>1 DEF AdmissionInv, ObjectsTyped, Subnet
<1>3. v \in Server(creates)
  BY <1>2 DEF Server
<1>4. ObjectsTyped'
  BY <1>1, <1>3 DEF AdmissionInv, ObjectsTyped
<1>5. servers'[n] = v /\ \A m \in Names : m # n => servers'[m] = servers[m]
  BY <1>1 DEF AdmissionInv, ObjectsTyped
<1>6. /\ LinksTyped' /\ HostNetworkKept' /\ Grown
      /\ LinkOf(seen[n].spec) \in DOMAIN links'
      /\ Has(links'[LinkOf(seen[n].spec)], seen[n].spec.addr)
  BY <1>1, <1>2, SetupKeepsLinks DEF AdmissionInv
<1>7. Ordered'
  <2> SUFFICES ASSUME NEW m \in Names PROVE
        /\ Follows(seen[m], subnets[m])
        /\ servers'[m] # None =>
              /\ servers'[m].uidSetUp <= servers'[m].subnet.uid
              /\ Follows(servers'[m].subnet, seen[m])
              /\ Follows(servers'[m].subnet, subnets[m])
    BY <1>1 DEF Ordered, Follows, PlaceOf, LinkOf, HasVlan
  <2>1. CASE m # n
    BY <1>5, <2>1 DEF AdmissionInv, Ordered
  <2>2. CASE m = n
    <3>1. servers'[m].subnet = seen[m] /\ servers'[m].uidSetUp = seen[m].uid
      BY <1>5, <2>2
    <3>2. Follows(seen[m], seen[m])
      BY <1>2, <2>2 DEF Follows
    <3> QED
      BY <1>2, <2>2, <3>1, <3>2 DEF AdmissionInv, Ordered
  <2> QED BY <2>1, <2>2
<1>8. ServerHasAddress'
  <2> SUFFICES ASSUME NEW m \in Names, servers'[m] # None,
                      servers'[m].subnet.uid = servers'[m].uidSetUp
               PROVE  /\ LinkOf(servers'[m].subnet.spec) \in DOMAIN links'
                      /\ Has(links'[LinkOf(servers'[m].subnet.spec)], servers'[m].subnet.spec.addr)
    BY DEF ServerHasAddress, LinkOf, HasVlan, Has
  <2>1. CASE m # n
    BY <1>5, <1>6, <2>1, GrownKeepsAddress
  <2>2. CASE m = n
    BY <1>5, <1>6, <2>2
  <2> QED BY <2>1, <2>2
<1> QED
  BY <1>1, <1>4, <1>6, <1>7, <1>8, ObjectsUnchanged DEF AdmissionInv

\* StartServerFails: at most an empty VLAN link is left behind.
LEMMA StartServerFailsKeepsInv ==
    ASSUME AdmissionInv, NEW n \in Names, StartServerFails(n)
    PROVE  AdmissionInv'
<1>1. /\ seen[n] # None /\ setupInterfaceFails(seen[n].spec)
      /\ UNCHANGED <<subnets, seen, servers, blind, creates>>
  BY DEF StartServerFails
<1>2. seen[n].spec \in Admitted
  BY <1>1 DEF AdmissionInv, ObjectsTyped, Subnet
<1>3. LinksTyped' /\ HostNetworkKept' /\ Grown
  BY <1>1, <1>2, SetupFailsKeepsLinks DEF AdmissionInv
<1>4. ObjectsTyped' /\ Ordered'
  BY <1>1 DEF AdmissionInv, ObjectsTyped, Ordered, Follows, PlaceOf, LinkOf, HasVlan
<1>5. ServerHasAddress'
  <2> SUFFICES ASSUME NEW m \in Names, servers[m] # None,
                      servers[m].subnet.uid = servers[m].uidSetUp
               PROVE  /\ LinkOf(servers[m].subnet.spec) \in DOMAIN links'
                      /\ Has(links'[LinkOf(servers[m].subnet.spec)], servers[m].subnet.spec.addr)
    BY <1>1 DEF ServerHasAddress, LinkOf, HasVlan, Has
  <2> QED
    BY <1>3, GrownKeepsAddress
<1> QED
  BY <1>1, <1>3, <1>4, <1>5, ObjectsUnchanged DEF AdmissionInv

\* UpdateService: a server of the same Subnet keeps its place and so its
\* address; one of another Subnet is newer than the one it was set up for.
LEMMA UpdateServiceKeepsInv ==
    ASSUME AdmissionInv, NEW n \in Names, UpdateService(n)
    PROVE  AdmissionInv'
<1>1. /\ servers[n] # None /\ seen[n] # None
      /\ servers' = [servers EXCEPT ![n].subnet = seen[n]]
      /\ UNCHANGED <<subnets, seen, links, blind, creates>>
  BY DEF UpdateService
<1>2. seen[n] \in Subnet(creates) /\ seen[n].uid \in Int
  BY <1>1 DEF AdmissionInv, ObjectsTyped, Subnet
<1>3. /\ servers[n] \in Server(creates) /\ servers[n].uidSetUp \in Int
      /\ servers[n].subnet \in Subnet(creates) /\ servers[n].subnet.uid \in Int
  BY <1>1 DEF AdmissionInv, ObjectsTyped, Server, Subnet
<1>4. /\ servers'[n] \in Server(creates)
      /\ servers'[n].subnet = seen[n] /\ servers'[n].uidSetUp = servers[n].uidSetUp
      /\ \A m \in Names : m # n => servers'[m] = servers[m]
  BY <1>1, <1>2, <1>3 DEF AdmissionInv, ObjectsTyped, Server
<1>5. ObjectsTyped'
  BY <1>1, <1>4 DEF AdmissionInv, ObjectsTyped
<1>6. /\ servers[n].uidSetUp <= servers[n].subnet.uid
      /\ Follows(servers[n].subnet, seen[n]) /\ Follows(seen[n], subnets[n])
  BY <1>1 DEF AdmissionInv, Ordered
<1>7. servers[n].subnet # None
  BY <1>3, AdmissionAssumption, AdmittedFields DEF Subnet
<1>8. servers[n].subnet.uid <= seen[n].uid
      /\ (servers[n].subnet.uid = seen[n].uid =>
             PlaceOf(servers[n].subnet.spec) = PlaceOf(seen[n].spec))
  BY <1>1, <1>6, <1>7 DEF Follows
<1>9. Ordered'
  <2> SUFFICES ASSUME NEW m \in Names PROVE
        /\ Follows(seen[m], subnets[m])
        /\ servers'[m] # None =>
              /\ servers'[m].uidSetUp <= servers'[m].subnet.uid
              /\ Follows(servers'[m].subnet, seen[m])
              /\ Follows(servers'[m].subnet, subnets[m])
    BY <1>1 DEF Ordered, Follows, PlaceOf, LinkOf, HasVlan
  <2>1. CASE m # n
    BY <1>4, <2>1 DEF AdmissionInv, Ordered
  <2>2. CASE m = n
    <3>1. Follows(seen[n], seen[n])
      BY <1>2 DEF Follows
    <3>2. servers[n].uidSetUp <= seen[n].uid
      BY <1>2, <1>3, <1>6, <1>8
    <3> QED
      BY <1>4, <1>6, <2>2, <3>1, <3>2
  <2> QED BY <2>1, <2>2
<1>10. ServerHasAddress'
  <2> SUFFICES ASSUME NEW m \in Names, servers'[m] # None,
                      servers'[m].subnet.uid = servers'[m].uidSetUp
               PROVE  /\ LinkOf(servers'[m].subnet.spec) \in DOMAIN links
                      /\ Has(links[LinkOf(servers'[m].subnet.spec)], servers'[m].subnet.spec.addr)
    BY <1>1 DEF ServerHasAddress, LinkOf, HasVlan, Has
  <2>1. CASE m # n
    BY <1>4, <2>1 DEF AdmissionInv, ServerHasAddress
  <2>2. CASE m = n
    <3>1. servers[n].subnet.uid = servers[n].uidSetUp /\ servers[n].subnet.uid = seen[n].uid
      BY <1>2, <1>3, <1>4, <1>6, <1>8, <2>2
    <3>2. LinkOf(servers[n].subnet.spec) = LinkOf(seen[n].spec)
          /\ servers[n].subnet.spec.addr = seen[n].spec.addr
      BY <1>8, <3>1 DEF PlaceOf
    <3> QED
      BY <1>1, <1>4, <2>2, <3>1, <3>2 DEF AdmissionInv, ServerHasAddress
  <2> QED BY <2>1, <2>2
<1>11. LinksTyped' /\ HostNetworkKept'
  BY <1>1 DEF AdmissionInv, LinksTyped, HostNetworkKept, BaseLink
<1> QED
  BY <1>1, <1>5, <1>9, <1>10, <1>11, ObjectsUnchanged DEF AdmissionInv

\* RestartDnsmasq: the interface is set up again, for the present Subnet.
LEMMA RestartDnsmasqKeepsInv ==
    ASSUME AdmissionInv, NEW n \in Names, RestartDnsmasq(n)
    PROVE  AdmissionInv'
<1> DEFINE s == servers[n].subnet.spec
<1>1. servers[n] # None /\ UNCHANGED <<subnets, seen, blind, creates>>
  BY DEF RestartDnsmasq
<1>2. /\ servers[n] \in Server(creates) /\ servers[n].subnet.uid \in 1..creates
      /\ s \in Admitted
  BY <1>1 DEF AdmissionInv, ObjectsTyped, Server, Subnet
<1>3. CASE setupInterface(s) /\ servers' = [servers EXCEPT ![n].uidSetUp = servers[n].subnet.uid]
  <2>1. /\ servers'[n] \in Server(creates)
        /\ servers'[n].subnet = servers[n].subnet
        /\ servers'[n].uidSetUp = servers[n].subnet.uid
        /\ \A m \in Names : m # n => servers'[m] = servers[m]
    BY <1>2, <1>3 DEF AdmissionInv, ObjectsTyped, Server
  <2>2. ObjectsTyped'
    BY <1>1, <1>3, <2>1 DEF AdmissionInv, ObjectsTyped
  <2>3. /\ LinksTyped' /\ HostNetworkKept' /\ Grown
        /\ LinkOf(s) \in DOMAIN links' /\ Has(links'[LinkOf(s)], s.addr)
    BY <1>2, <1>3, SetupKeepsLinks DEF AdmissionInv
  <2>4. Ordered'
    <3> SUFFICES ASSUME NEW m \in Names PROVE
          /\ Follows(seen[m], subnets[m])
          /\ servers'[m] # None =>
                /\ servers'[m].uidSetUp <= servers'[m].subnet.uid
                /\ Follows(servers'[m].subnet, seen[m])
                /\ Follows(servers'[m].subnet, subnets[m])
      BY <1>1 DEF Ordered, Follows, PlaceOf, LinkOf, HasVlan
    <3>1. CASE m # n
      BY <2>1, <3>1 DEF AdmissionInv, Ordered
    <3>2. CASE m = n
      BY <1>1, <1>2, <2>1, <3>2 DEF AdmissionInv, Ordered
    <3> QED BY <3>1, <3>2
  <2>5. ServerHasAddress'
    <3> SUFFICES ASSUME NEW m \in Names, servers'[m] # None,
                        servers'[m].subnet.uid = servers'[m].uidSetUp
                 PROVE  /\ LinkOf(servers'[m].subnet.spec) \in DOMAIN links'
                        /\ Has(links'[LinkOf(servers'[m].subnet.spec)], servers'[m].subnet.spec.addr)
      BY DEF ServerHasAddress, LinkOf, HasVlan, Has
    <3>1. CASE m # n
      BY <2>1, <2>3, <3>1, GrownKeepsAddress
    <3>2. CASE m = n
      BY <2>1, <2>3, <3>2
    <3> QED BY <3>1, <3>2
  <2> QED
    BY <1>1, <2>2, <2>3, <2>4, <2>5, ObjectsUnchanged DEF AdmissionInv
<1>4. CASE setupInterfaceFails(s) /\ UNCHANGED servers
  <2>1. LinksTyped' /\ HostNetworkKept' /\ Grown
    BY <1>2, <1>4, SetupFailsKeepsLinks DEF AdmissionInv
  <2>2. ObjectsTyped' /\ Ordered'
    BY <1>1, <1>4 DEF AdmissionInv, ObjectsTyped, Ordered, Follows, PlaceOf, LinkOf, HasVlan
  <2>3. ServerHasAddress'
    <3> SUFFICES ASSUME NEW m \in Names, servers[m] # None,
                        servers[m].subnet.uid = servers[m].uidSetUp
                 PROVE  /\ LinkOf(servers[m].subnet.spec) \in DOMAIN links'
                        /\ Has(links'[LinkOf(servers[m].subnet.spec)], servers[m].subnet.spec.addr)
      BY <1>4 DEF ServerHasAddress, LinkOf, HasVlan, Has
    <3> QED
      BY <2>1, GrownKeepsAddress
  <2> QED
    BY <1>1, <2>1, <2>2, <2>3, ObjectsUnchanged DEF AdmissionInv
<1> QED
  BY <1>3, <1>4 DEF RestartDnsmasq

\* StopServer: links stay as they are.
LEMMA StopServerKeepsInv ==
    ASSUME AdmissionInv, NEW n \in Names, StopServer(n)
    PROVE  AdmissionInv'
<1>1. /\ servers' = [servers EXCEPT ![n] = None]
      /\ UNCHANGED <<subnets, seen, links, blind, creates>>
  BY DEF StopServer
<1>2. ObjectsTyped'
  BY <1>1 DEF AdmissionInv, ObjectsTyped
<1>3. servers'[n] = None /\ \A m \in Names : m # n => servers'[m] = servers[m]
  BY <1>1 DEF AdmissionInv, ObjectsTyped
<1>4. Ordered'
  <2> SUFFICES ASSUME NEW m \in Names PROVE
        /\ Follows(seen[m], subnets[m])
        /\ servers'[m] # None =>
              /\ servers'[m].uidSetUp <= servers'[m].subnet.uid
              /\ Follows(servers'[m].subnet, seen[m])
              /\ Follows(servers'[m].subnet, subnets[m])
    BY <1>1 DEF Ordered, Follows, PlaceOf, LinkOf, HasVlan
  <2> QED
    BY <1>3 DEF AdmissionInv, Ordered
<1>5. ServerHasAddress'
  <2> SUFFICES ASSUME NEW m \in Names, servers'[m] # None,
                      servers'[m].subnet.uid = servers'[m].uidSetUp
               PROVE  /\ LinkOf(servers'[m].subnet.spec) \in DOMAIN links
                      /\ Has(links[LinkOf(servers'[m].subnet.spec)], servers'[m].subnet.spec.addr)
    BY <1>1 DEF ServerHasAddress, LinkOf, HasVlan, Has
  <2> QED
    BY <1>3 DEF AdmissionInv, ServerHasAddress
<1>6. LinksTyped' /\ HostNetworkKept'
  BY <1>1 DEF AdmissionInv, LinksTyped, HostNetworkKept, BaseLink
<1> QED
  BY <1>1, <1>2, <1>4, <1>5, <1>6, ObjectsUnchanged DEF AdmissionInv

\* RestartAgent: no server is left that could miss its address on the links.
LEMMA RestartAgentKeepsInv ==
    ASSUME AdmissionInv, RestartAgent
    PROVE  AdmissionInv'
<1>1. /\ servers' = [n \in Names |-> None] /\ links' \in {links, BootLinks}
      /\ UNCHANGED <<subnets, seen, blind, creates>>
  BY DEF RestartAgent
<1>2. ObjectsTyped'
  BY <1>1 DEF AdmissionInv, ObjectsTyped
<1>3. Ordered'
  <2> SUFFICES ASSUME NEW m \in Names PROVE Follows(seen[m], subnets[m])
    BY <1>1 DEF Ordered, Follows, PlaceOf, LinkOf, HasVlan
  <2> QED BY DEF AdmissionInv, Ordered
<1>4. LinksTyped' /\ HostNetworkKept'
  <2>1. CASE links' = links
    BY <2>1 DEF AdmissionInv, LinksTyped, HostNetworkKept, BaseLink
  <2>2. CASE links' = BootLinks
    BY <2>2, BootKeepsLinks
  <2> QED BY <1>1, <2>1, <2>2
<1>5. ServerHasAddress'
  BY <1>1 DEF ServerHasAddress
<1> QED
  BY <1>1, <1>2, <1>3, <1>4, <1>5, ObjectsUnchanged DEF AdmissionInv

-----------------------------------------------------------------------------
(***************************************************************************)
(* Theorems                                                                *)
(***************************************************************************)

\* There are no Subnets and no servers yet, and links are those of the boot.
LEMMA InitEstablishesInv == Init => AdmissionInv
<1> SUFFICES ASSUME Init PROVE AdmissionInv
  OBVIOUS
<1>1. ObjectsTyped /\ Ordered /\ SharedOnlyIfUnseen /\ ServerHasAddress
  BY DEF Init, ObjectsTyped, Ordered, Follows, SharedOnlyIfUnseen, ServerHasAddress
<1>2. /\ \A i \in Interfaces : BaseLink(i) \in DOMAIN links /\ links[BaseLink(i)] = HostAddrs[i]
      /\ \A l \in DOMAIN links : l[1] \in Interfaces /\ l = BaseLink(l[1])
                                  /\ links[l] = HostAddrs[l[1]]
  BY DEF Init, BootLinks, BaseLink
<1>3. links = [l \in DOMAIN links |-> links[l]]
  BY DEF Init, BootLinks
<1>4. \A i \in Interfaces : HostAddrs[i] \in Seq(Networks)
  BY AdmissionAssumption
<1>5. LinksTyped
  BY <1>2, <1>3, <1>4 DEF LinksTyped
<1>6. HostNetworkKept
  BY <1>2 DEF HostNetworkKept, Has
<1> QED
  BY <1>1, <1>5, <1>6 DEF AdmissionInv

\* Every action keeps the invariant.
LEMMA NextKeepsInv == AdmissionInv /\ [Next]_vars => AdmissionInv'
<1> SUFFICES ASSUME AdmissionInv, [Next]_vars PROVE AdmissionInv'
  OBVIOUS
<1>1. ASSUME NEW n \in Names, NEW q \in Requests, Create(n, q) PROVE AdmissionInv'
  BY <1>1, CreateKeepsInv
<1>2. ASSUME NEW n \in Names, NEW q \in Requests, Update(n, q) PROVE AdmissionInv'
  BY <1>2, UpdateKeepsInv
<1>3. ASSUME NEW n \in Names, Delete(n) PROVE AdmissionInv'
  BY <1>3, DeleteKeepsInv
<1>4. ASSUME NEW n \in Names, Observe(n) PROVE AdmissionInv'
  BY <1>4, ObserveKeepsInv
<1>5. ASSUME NEW n \in Names, StartServer(n) PROVE AdmissionInv'
  BY <1>5, StartServerKeepsInv
<1>6. ASSUME NEW n \in Names, StartServerFails(n) PROVE AdmissionInv'
  BY <1>6, StartServerFailsKeepsInv
<1>7. ASSUME NEW n \in Names, UpdateService(n) PROVE AdmissionInv'
  BY <1>7, UpdateServiceKeepsInv
<1>8. ASSUME NEW n \in Names, RestartDnsmasq(n) PROVE AdmissionInv'
  BY <1>8, RestartDnsmasqKeepsInv
<1>9. ASSUME NEW n \in Names, StopServer(n) PROVE AdmissionInv'
  BY <1>9, StopServerKeepsInv
<1>10. CASE RestartAgent
  BY <1>10, RestartAgentKeepsInv
<1>11. CASE UNCHANGED vars
  <2>1. UNCHANGED <<subnets, seen, links, servers, blind, creates>>
    BY <1>11 DEF vars
  <2>2. ObjectsTyped' /\ Ordered'
    BY <2>1 DEF AdmissionInv, ObjectsTyped, Ordered, Follows, PlaceOf, LinkOf, HasVlan
  <2> QED
    BY <2>1, <2>2, NodeUnchanged, ObjectsUnchanged DEF AdmissionInv
<1> QED
  BY <1>1, <1>2, <1>3, <1>4, <1>5, <1>6, <1>7, <1>8, <1>9, <1>10, <1>11 DEF Next

\* AdmissionInv holds in every reachable state.
THEOREM AdmissionInvariant == Spec => []AdmissionInv
  BY InitEstablishesInv, NextKeepsInv, PTL DEF Spec

\* Type correctness: a Subnet, in the API server and in the informer cache, is
\* one that was created and has the fields that Default of the webhook fills in.
THEOREM AdmissionTypeCorrect == Spec => []TypeOK
<1>1. AdmissionInv => TypeOK
  <2> SUFFICES ASSUME AdmissionInv PROVE TypeOK
    OBVIOUS
  <2>1. \A n \in Names :
          /\ subnets[n] # None => subnets[n].uid \in 1..creates /\ subnets[n].spec \in Admitted
          /\ seen[n] # None => seen[n].uid \in 1..creates /\ seen[n].spec \in Admitted
          /\ servers[n] # None => servers[n].uidSetUp \in 1..creates
          /\ blind[n] \subseteq Names
    BY DEF AdmissionInv, ObjectsTyped, Subnet, Server
  <2>2. \A s \in Admitted : s \in {Default(q) : q \in Requests}
    BY Zenon DEF Admitted
  <2>3. \A n \in Names :
          /\ subnets[n] # None =>
                subnets[n].uid \in 1..creates /\ subnets[n].spec \in {Default(q) : q \in Requests}
          /\ seen[n] # None =>
                seen[n].uid \in 1..creates /\ seen[n].spec \in {Default(q) : q \in Requests}
    BY <2>1, <2>2, Zenon
  <2> QED
    BY <2>1, <2>3, Zenon DEF TypeOK
<1> QED
  BY <1>1, AdmissionInvariant, PTL

\* Two Subnets listen on one link only if the webhook admitted the later while
\* the informer cache did not show the earlier as it was.
THEOREM SharedOnlyIfUnseenAlways == Spec => []SharedOnlyIfUnseen
<1>1. AdmissionInv => SharedOnlyIfUnseen
  BY DEF AdmissionInv
<1> QED
  BY <1>1, AdmissionInvariant, PTL

\* No server ever puts an address into a network the node had at boot, other
\* than the node's own on its own interface.
THEOREM HostNetworkKeptAlways == Spec => []HostNetworkKept
<1>1. AdmissionInv => HostNetworkKept
  BY DEF AdmissionInv
<1> QED
  BY <1>1, AdmissionInvariant, PTL

\* A server listens on a link that has its address, unless UpdateService gave
\* it another Subnet of the same name since its interface was set up.
THEOREM ServerHasAddressAlways == Spec => []ServerHasAddress
<1>1. AdmissionInv => ServerHasAddress
  BY DEF AdmissionInv
<1> QED
  BY <1>1, AdmissionInvariant, PTL

-----------------------------------------------------------------------------
(* The webhook implements SubnetContract                                     *)

\* The state of the contract, as Contract computes it from subnets.
Place == [n \in Names |-> IF subnets[n] = None THEN None ELSE PlaceOf(subnets[n].spec)]
Held == [n \in Names |-> IF subnets[n] = None THEN {} ELSE Covered(subnets[n].spec.range)]
AllPlaces == {PlaceOf(Default(q)) : q \in Requests}

\* Only Subnet n changes when subnets changes at n.
LEMMA OneChanges ==
    ASSUME NEW n \in Names, \A m \in Names : m # n => subnets'[m] = subnets[m]
    PROVE  /\ Place' = [Place EXCEPT ![n] = Place'[n]]
           /\ Held' = [Held EXCEPT ![n] = Held'[n]]
<1>1. \A m \in Names : m # n => Place'[m] = Place[m]
  BY DEF Place, PlaceOf, LinkOf, HasVlan
<1>2. \A m \in Names : m # n => Held'[m] = Held[m]
  BY ZenonT(60) DEF Held, Covered, IsIPInRange
<1>3. /\ Place = [m \in Names |-> Place[m]] /\ Place' = [m \in Names |-> Place'[m]]
      /\ Held = [m \in Names |-> Held[m]] /\ Held' = [m \in Names |-> Held'[m]]
  BY DEF Place, Held
<1> QED
  BY <1>1, <1>2, <1>3

\* An object of the API server is not None.
LEMMA ObjectIsNotNone ==
    ASSUME NEW c \in Nat, NEW o \in Subnet(c)
    PROVE  o # None
  BY AdmissionAssumption, AdmittedFields DEF Subnet

\* Create admits, Update expands and Delete withdraws a Subnet; every other
\* action leaves the contract's state alone.
LEMMA StepKeepsContract ==
    ASSUME AdmissionInv, [Next]_vars
    PROVE  \/ \E n \in Names :
                /\ Place' = [Place EXCEPT ![n] = Place'[n]]
                /\ Held' = [Held EXCEPT ![n] = Held'[n]]
                /\ \/ /\ Place[n] = None /\ Place'[n] \in AllPlaces
                      /\ Held'[n] \subseteq IPs
                   \/ /\ Place[n] \in AllPlaces /\ Place'[n] = Place[n]
                      /\ Held[n] \subseteq Held'[n] /\ Held'[n] \subseteq IPs
                   \/ /\ Place[n] \in AllPlaces
                      /\ Place'[n] = None /\ Held'[n] = {}
           \/ UNCHANGED <<Place, Held>>
<1>0. /\ subnets \in [Names -> Subnet(creates) \cup {None}] /\ creates \in Nat
      /\ \A n \in Names : subnets[n] # None => subnets[n].spec \in Admitted
  BY DEF AdmissionInv, ObjectsTyped, Subnet
<1>1. \A n \in Names : subnets[n] # None => Place[n] \in AllPlaces
  <2> SUFFICES ASSUME NEW n \in Names, subnets[n] # None PROVE Place[n] \in AllPlaces
    OBVIOUS
  <2>0. \A s \in Admitted : s \in {Default(q) : q \in Requests}
    BY Zenon DEF Admitted
  <2>1. subnets[n].spec \in {Default(q) : q \in Requests}
    BY <1>0, <2>0, Zenon
  <2>2. PICK q \in Requests : subnets[n].spec = Default(q)
    BY <2>1, Zenon
  <2>3. Place[n] = PlaceOf(subnets[n].spec)
    BY Zenon DEF Place
  <2>4. Place[n] = PlaceOf(Default(q))
    BY <2>2, <2>3, Zenon
  <2> QED
    BY <2>4, Zenon DEF AllPlaces
<1>2. \A r : Covered(r) \subseteq IPs
  BY DEF Covered
<1>3. ASSUME NEW n \in Names, NEW q \in Requests, Create(n, q)
      PROVE  \E m \in Names :
                /\ Place' = [Place EXCEPT ![m] = Place'[m]]
                /\ Held' = [Held EXCEPT ![m] = Held'[m]]
                /\ Place[m] = None /\ Place'[m] \in AllPlaces /\ Held'[m] \subseteq IPs
  <2>1. AdmissionInv'
    BY <1>3, CreateKeepsInv
  <2>2. /\ subnets[n] = None
        /\ subnets' = [subnets EXCEPT ![n] = [uid |-> creates + 1, spec |-> Default(q)]]
    BY <1>3 DEF Create
  <2>3. /\ subnets'[n].spec = Default(q) /\ subnets'[n] \in [uid: Nat, spec: Specs]
        /\ \A m \in Names : m # n => subnets'[m] = subnets[m]
    BY <1>0, <2>2, DefaultFields
  <2>4. subnets'[n] # None
    BY <2>3, AdmissionAssumption
  <2>5. Place[n] = None
    BY <2>2 DEF Place
  <2>6. Place'[n] = PlaceOf(Default(q)) /\ Held'[n] = Covered(Default(q).range)
    BY <2>3, <2>4 DEF Place, Held, PlaceOf, LinkOf, HasVlan, Covered, IsIPInRange
  <2> QED
    BY <1>2, <2>3, <2>5, <2>6, OneChanges DEF AllPlaces
<1>4. ASSUME NEW n \in Names, NEW q \in Requests, Update(n, q)
      PROVE  \E m \in Names :
                /\ Place' = [Place EXCEPT ![m] = Place'[m]]
                /\ Held' = [Held EXCEPT ![m] = Held'[m]]
                /\ Place[m] \in AllPlaces /\ Place'[m] = Place[m]
                /\ Held[m] \subseteq Held'[m] /\ Held'[m] \subseteq IPs
  <2> DEFINE old == subnets[n].spec
             new == Default(q)
  <2>1. /\ subnets[n] # None /\ subnets' = [subnets EXCEPT ![n].spec = new]
        /\ old.cidr = new.cidr /\ old.iface = new.iface /\ old.vlan = new.vlan
        /\ old.addr = new.addr /\ ValidateIPRangeExpansion(old.range, new.range, new.cidr)
    BY <1>4 DEF Update, ValidateUpdate, Int32PtrEqual
  <2>2. /\ subnets'[n].spec = new /\ subnets'[n] \in [uid: Nat, spec: Specs]
        /\ \A m \in Names : m # n => subnets'[m] = subnets[m]
    BY <1>0, <2>1, DefaultFields DEF Subnet
  <2>3. subnets'[n] # None
    BY <2>2, AdmissionAssumption
  <2>4. Place'[n] = PlaceOf(new) /\ Held'[n] = Covered(new.range)
    BY <2>2, <2>3 DEF Place, Held, PlaceOf, LinkOf, HasVlan, Covered, IsIPInRange
  <2>5. Place[n] = PlaceOf(old) /\ Held[n] = Covered(old.range) /\ Place[n] \in AllPlaces
    BY <1>1, <2>1 DEF Place, Held
  <2>6. PlaceOf(new) = PlaceOf(old)
    BY <2>1 DEF PlaceOf, LinkOf, HasVlan
  <2>7. old.range \in Seq(Seq(Int)) /\ new.range \in Seq(Seq(Int)) /\ new.cidr \in Networks
    <3>1. old \in Specs
      BY <1>0, <2>1, AdmittedFields
    <3>2. new \in Specs
      BY DefaultFields
    <3> HIDE DEF old, new
    <3> QED
      BY <2>1, <3>1, <3>2 DEF Specs
  <2>8. Covered(old.range) \subseteq Covered(new.range)
    BY <2>1, <2>7, ExpansionCovers
  <2> QED
    BY <1>2, <2>2, <2>4, <2>5, <2>6, <2>8, OneChanges
<1>5. ASSUME NEW n \in Names, Delete(n)
      PROVE  \E m \in Names :
                /\ Place' = [Place EXCEPT ![m] = Place'[m]]
                /\ Held' = [Held EXCEPT ![m] = Held'[m]]
                /\ Place[m] \in AllPlaces /\ Place'[m] = None /\ Held'[m] = {}
  <2>1. subnets[n] # None /\ subnets' = [subnets EXCEPT ![n] = None]
    BY <1>5 DEF Delete
  <2>2. subnets'[n] = None /\ \A m \in Names : m # n => subnets'[m] = subnets[m]
    BY <1>0, <2>1
  <2>3. Place'[n] = None /\ Held'[n] = {}
    BY <2>2 DEF Place, Held
  <2> QED
    BY <1>1, <2>1, <2>2, <2>3, OneChanges
<1>6. CASE UNCHANGED subnets
  BY <1>6 DEF Place, Held, PlaceOf, LinkOf, HasVlan, Covered, IsIPInRange
<1> QED
  <2>1. \/ UNCHANGED subnets
        \/ \E n \in Names : Delete(n) \/ \E q \in Requests : Create(n, q) \/ Update(n, q)
    BY DEF Next, vars, Observe, StartServer, StartServerFails, UpdateService,
           RestartDnsmasq, StopServer, RestartAgent
  <2> QED
    BY <1>3, <1>4, <1>5, <1>6, <2>1

\* The webhook keeps the contract: while a Subnet lives, no update that
\* ValidateUpdate lets through moves it or takes an address from it.
THEOREM ContractKept == Spec => KeepsContract
<1>1. Init => Contract!Init
  BY DEF Init, Contract!Init
<1>2. AdmissionInv /\ [Next]_vars => [Contract!Next]_<<Place, Held>>
  <2> SUFFICES ASSUME AdmissionInv, [Next]_vars
               PROVE  Contract!Next \/ UNCHANGED <<Place, Held>>
    OBVIOUS
  <2> QED
    BY StepKeepsContract DEF Place, Held, AllPlaces, Contract!Next, Contract!Admit,
       Contract!Expand, Contract!Withdraw, Contract!Becomes
<1> QED
  BY <1>1, <1>2, AdmissionInvariant, PTL DEF Spec, KeepsContract, Contract!Spec, Place, Held
=============================================================================
