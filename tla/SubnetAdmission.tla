-------------------------- MODULE SubnetAdmission --------------------------
(***************************************************************************)
(* From a Subnet object to an address on a network interface: the webhook  *)
(* that admits Subnets, and setupInterface, by which the DHCP server of an *)
(* admitted Subnet prepares the link it listens on.                        *)
(*                                                                         *)
(* Both look at the world through something that lags or changes: the      *)
(* webhook lists the Subnets from the informer cache, and both compare     *)
(* with the addresses the base interface has at that moment, among them    *)
(* those that other servers put there. Nothing is ever removed from a link *)
(* (cleanupAllInterface is empty).                                         *)
(***************************************************************************)
EXTENDS IpRange

CONSTANTS Names,       \* names of Subnet objects
          Interfaces,  \* base interfaces of the node
          HostAddrs,   \* HostAddrs[i]: sequence of the addresses i has at boot
          DhcpServerInterface,  \* the configured default, or a name of no interface
          Requests,    \* specs users submit
          None, NoVlan, \* an absent object, an absent vlanId
          MaxCreates,  \* Subnets created
          MaxUpdates, MaxFaults

\* A spec as the schema of the CRD lets it through.
Specs == [cidr: Networks, range: Seq(Seq(Int)), iface: STRING, vlan: {NoVlan} \cup Int,
          addr: Networks, gateway: {None} \cup Int, dns: {None} \cup Int]

ASSUME AdmissionAssumption ==
    /\ MaxCreates \in Nat /\ MaxUpdates \in Nat /\ MaxFaults \in Nat
    /\ Requests \subseteq Specs
    /\ HostAddrs \in [Interfaces -> Seq(Networks)]
    /\ DhcpServerInterface \in STRING
    /\ None \notin [uid: Nat, spec: Specs]

VARIABLES
    subnets,   \* API server: uid and spec, or None
    seen,      \* informer cache of the agent
    links,     \* kernel: the addresses of each link that exists, in the
               \* order they were added
    servers,   \* dhcpServerList: the s.subnet of a server, and uidSetUp,
               \* the Subnet its interface was last set up for; or None
    blind,     \* blind[n]: Subnets the cache had not got, or not as they
               \* were, when n was admitted
    creates, updates, faults

vars == <<subnets, seen, links, servers, blind, creates, updates, faults>>

\* The link a server of this spec listens on: interface, or interface.vlan.
HasVlan(spec) == spec.vlan # NoVlan /\ spec.vlan > 0
LinkOf(spec) == <<spec.iface, IF HasVlan(spec) THEN spec.vlan ELSE 0>>
BaseLink(i) == <<i, 0>>

\* What identifies a Subnet in the network.
PlaceOf(spec) == <<spec.cidr, LinkOf(spec), spec.addr>>

BootLinks == [l \in {BaseLink(i) : i \in Interfaces} |-> HostAddrs[l[1]]]

Init ==
    /\ subnets = [n \in Names |-> None]
    /\ seen = [n \in Names |-> None]
    /\ links = BootLinks
    /\ servers = [n \in Names |-> None]
    /\ blind = [n \in Names |-> {}]
    /\ creates = 0
    /\ updates = 0
    /\ faults = 0

Fault == faults < MaxFaults /\ faults' = faults + 1

-----------------------------------------------------------------------------
(* The webhook                                                               *)

\* Mutant: a missing vlanId stays missing.
DefaultKeepsNoVlan(spec) ==
    [spec EXCEPT !.iface = IF @ = "" THEN DhcpServerInterface ELSE @]

Default(spec) ==
    [spec EXCEPT !.iface = IF @ = "" THEN DhcpServerInterface ELSE @,
                 !.vlan = IF @ = NoVlan THEN 0 ELSE @]

\* The addresses of the parent link whose network holds the address of the
\* Subnet, by their places in the list.
Containing(spec) ==
    {k \in DOMAIN links[BaseLink(spec.iface)] :
        ValidateIPInSubnet(spec.addr.ip, links[BaseLink(spec.iface)][k])}

\* Mutant: a VLAN may use the network of the host.
VlanAnywhere(spec) ==
    (Containing(spec) # {} /\ ~HasVlan(spec)) =>
        links[BaseLink(spec.iface)][Min(Containing(spec))] = spec.addr

\* The first of them decides: it has to be the very same address, and the
\* Subnet may have no VLAN.
ValidateHostInterfaceSubnet(spec) ==
    Containing(spec) # {} =>
        /\ ~HasVlan(spec)
        /\ links[BaseLink(spec.iface)][Min(Containing(spec))] = spec.addr

Int32PtrEqual(a, b) == a = b

\* The loop over the listed Subnets. A Subnet with a vlanId and one without
\* may share an interface.
NoConflict(n, spec) ==
    \A o \in Names \ {n} :
        seen[o] # None => ~(seen[o].spec.iface = spec.iface /\ seen[o].spec.vlan = spec.vlan)

\* The VLAN IDs the webhook accepts; its default, 0, is one of them.
VlanIds == 0..4094

validateInterface(n, spec) ==
    /\ spec.iface \in Interfaces
    /\ spec.vlan # NoVlan => spec.vlan \in VlanIds
    /\ ValidateIPWithSubnetMatch(spec.addr, spec.cidr)
    /\ ValidateHostInterfaceSubnet(spec)
    /\ NoConflict(n, spec)

validateSubnet(n, spec) ==
    /\ spec.cidr.ip # BadIP
    /\ ValidateIPRange(spec.range, spec.cidr)
    /\ spec.gateway # None => spec.gateway # BadIP /\ ValidateIPInSubnet(spec.gateway, spec.cidr)
    /\ spec.dns # None => spec.dns # BadIP
    /\ validateInterface(n, spec)

ValidateCreate(n, spec) == validateSubnet(n, spec)

ValidateUpdate(n, old, new) ==
    /\ old.cidr = new.cidr
    /\ new.cidr.ip # BadIP
    /\ ValidateIPRangeExpansion(old.range, new.range, new.cidr)
    /\ old.iface = new.iface
    /\ Int32PtrEqual(old.vlan, new.vlan)
    /\ old.addr = new.addr
    /\ validateSubnet(n, new)

-----------------------------------------------------------------------------
(* Users, and the informer                                                   *)

Create(n, q) ==
    /\ creates < MaxCreates
    /\ subnets[n] = None
    /\ ValidateCreate(n, Default(q))
    /\ subnets' = [subnets EXCEPT ![n] = [uid |-> creates + 1, spec |-> Default(q)]]
    /\ blind' = [o \in Names |-> IF o = n THEN {x \in Names : seen[x] # subnets[x]}
                                 ELSE blind[o] \ {n}]
    /\ creates' = creates + 1
    /\ UNCHANGED <<seen, links, servers, updates, faults>>

\* Mutant: Default is not called for updates.
UpdateRaw(n, q) ==
    /\ updates < MaxUpdates
    /\ subnets[n] # None
    /\ ValidateUpdate(n, subnets[n].spec, Default(q))
    /\ subnets' = [subnets EXCEPT ![n].spec = q]
    /\ updates' = updates + 1
    /\ UNCHANGED <<seen, links, servers, blind, creates, faults>>

Update(n, q) ==
    /\ updates < MaxUpdates
    /\ subnets[n] # None
    /\ ValidateUpdate(n, subnets[n].spec, Default(q))
    /\ subnets' = [subnets EXCEPT ![n].spec = Default(q)]
    /\ updates' = updates + 1
    /\ UNCHANGED <<seen, links, servers, blind, creates, faults>>

Delete(n) ==
    /\ subnets[n] # None
    /\ subnets' = [subnets EXCEPT ![n] = None]
    /\ UNCHANGED <<seen, links, servers, blind, creates, updates, faults>>

\* The informer cache catches up with one object.
Observe(n) ==
    /\ seen[n] # subnets[n]
    /\ seen' = [seen EXCEPT ![n] = subnets[n]]
    /\ UNCHANGED <<subnets, links, servers, blind, creates, updates, faults>>

-----------------------------------------------------------------------------
(* The servers of the agent                                                  *)

AddrsOf(l) == IF l \in DOMAIN links THEN links[l] ELSE <<>>
Has(addrs, a) == \E k \in DOMAIN addrs : addrs[k] = a

\* configureIP
configureIP(addrs, a) == IF Has(addrs, a) THEN addrs ELSE Append(addrs, a)

\* setupInterface: the VLAN link is created unless a link of that name is
\* there, then the address is added unless the link has it.
setupInterface(spec) ==
    /\ ValidateHostInterfaceSubnet(spec)
    /\ links' = [l \in DOMAIN links \cup {LinkOf(spec)} |->
                    IF l = LinkOf(spec) THEN configureIP(AddrsOf(l), spec.addr) ELSE links[l]]

\* It fails: before or after it has created the VLAN link.
setupInterfaceFails(spec) ==
    /\ \/ ~ValidateHostInterfaceSubnet(spec) /\ UNCHANGED faults
       \/ Fault
    /\ \/ UNCHANGED links
       \/ /\ ValidateHostInterfaceSubnet(spec)
          /\ links' = [l \in DOMAIN links \cup {LinkOf(spec)} |-> AddrsOf(l)]

\* Reconcile of a Subnet that has no server: Run, which calls startDnsmasq.
StartServer(n) ==
    /\ servers[n] = None
    /\ seen[n] # None
    /\ setupInterface(seen[n].spec)
    /\ servers' = [servers EXCEPT ![n] = [subnet |-> seen[n], uidSetUp |-> seen[n].uid]]
    /\ UNCHANGED <<subnets, seen, blind, creates, updates, faults>>

StartServerFails(n) ==
    /\ servers[n] = None
    /\ seen[n] # None
    /\ setupInterfaceFails(seen[n].spec)
    /\ UNCHANGED <<subnets, seen, servers, blind, creates, updates>>

\* Reconcile of a changed Subnet: UpdateService replaces s.subnet and has
\* the configuration written anew. The interface is not set up again.
UpdateService(n) ==
    /\ servers[n] # None
    /\ seen[n] # None
    /\ servers[n].subnet.spec # seen[n].spec
    /\ servers' = [servers EXCEPT ![n].subnet = seen[n]]
    /\ UNCHANGED <<subnets, seen, links, blind, creates, updates, faults>>

\* The ticker of the monitor found dnsmasq dead: startDnsmasq once more.
RestartDnsmasq(n) ==
    /\ servers[n] # None
    /\ \/ /\ setupInterface(servers[n].subnet.spec)
          /\ servers' = [servers EXCEPT ![n].uidSetUp = servers[n].subnet.uid]
          /\ UNCHANGED faults
       \/ setupInterfaceFails(servers[n].subnet.spec) /\ UNCHANGED servers
    /\ UNCHANGED <<subnets, seen, blind, creates, updates>>

\* Mutant: the link of a stopped server loses its address.
StopServerCleansUp(n) ==
    /\ servers[n] # None
    /\ seen[n] = None
    /\ servers' = [servers EXCEPT ![n] = None]
    /\ LET s == servers[n].subnet.spec IN
       links' = IF LinkOf(s) \in DOMAIN links
                THEN [links EXCEPT ![LinkOf(s)] = SelectSeq(@, LAMBDA a : a # s.addr)]
                ELSE links
    /\ UNCHANGED <<subnets, seen, blind, creates, updates, faults>>

\* Reconcile of a deleted Subnet: Stop; cleanupAllInterface does nothing.
StopServer(n) ==
    /\ servers[n] # None
    /\ seen[n] = None
    /\ servers' = [servers EXCEPT ![n] = None]
    /\ UNCHANGED <<subnets, seen, links, blind, creates, updates, faults>>

\* The agent is started anew; its links are still there unless the node
\* was booted.
RestartAgent ==
    /\ Fault
    /\ servers' = [n \in Names |-> None]
    /\ links' \in {links, BootLinks}
    /\ UNCHANGED <<subnets, seen, blind, creates, updates>>

-----------------------------------------------------------------------------
Next ==
    \/ \E n \in Names :
          \/ \E q \in Requests : Create(n, q) \/ Update(n, q)
          \/ Delete(n) \/ Observe(n)
          \/ StartServer(n) \/ StartServerFails(n) \/ UpdateService(n)
          \/ RestartDnsmasq(n) \/ StopServer(n)
    \/ RestartAgent

Spec == Init /\ [][Next]_vars

-----------------------------------------------------------------------------
(***************************************************************************)
(* Properties                                                              *)
(***************************************************************************)

\* A Subnet, wherever it is held, is one that was created, with the fields
\* that Default fills in.
TypeOK ==
    /\ \A f \in {subnets, seen} : \A n \in Names :
          f[n] # None => f[n].uid \in 1..creates /\ f[n].spec \in {Default(q) : q \in Requests}
    /\ \A n \in Names :
          servers[n] # None => servers[n].uidSetUp \in 1..creates
    /\ \A n \in Names : blind[n] \subseteq Names

Contract == INSTANCE SubnetContract WITH
    Addresses <- IPs,
    Places <- {PlaceOf(Default(q)) : q \in Requests},
    place <- [n \in Names |-> IF subnets[n] = None THEN None ELSE PlaceOf(subnets[n].spec)],
    addresses <- [n \in Names |-> IF subnets[n] = None THEN {}
                                  ELSE Covered(subnets[n].spec.range)]

\* The webhook keeps the contract: an update that is let through never moves
\* a Subnet nor takes an address from it, so that leases and bindings handed
\* out earlier stay inside its range.
KeepsContract == Contract!Spec

\* Two Subnets listen on one link only if the later was admitted while the
\* informer cache did not yet show the earlier as it was.
SharedOnlyIfUnseen ==
    \A n, o \in Names :
        (n # o /\ subnets[n] # None /\ subnets[o] # None
         /\ LinkOf(subnets[n].spec) = LinkOf(subnets[o].spec))
            => n \in blind[o] \/ o \in blind[n]

\* The network of the host is left alone: in the network of an address the
\* node had at boot there is no address but that one, on its interface.
HostNetworkKept ==
    \A l \in DOMAIN links : \A k \in DOMAIN links[l] :
        LET a == links[l][k] IN
        (\E h \in DOMAIN HostAddrs[l[1]] : ValidateIPInSubnet(a.ip, HostAddrs[l[1]][h]))
            => l = BaseLink(l[1]) /\ Has(HostAddrs[l[1]], a)

\* A server listens on a link that has its address, unless its Subnet was
\* replaced by another of the same name since the interface was set up.
ServerHasAddress ==
    \A n \in Names :
        (servers[n] # None /\ servers[n].subnet.uid = servers[n].uidSetUp) =>
            LET s == servers[n].subnet.spec IN
            LinkOf(s) \in DOMAIN links /\ Has(links[LinkOf(s)], s.addr)

=============================================================================
