-------------------------- MODULE BindingIpPipeline --------------------------
(***************************************************************************)
(* How a BindingIp object becomes a dhcp-host line of a running dnsmasq.   *)
(*                                                                         *)
(*   API server -> informer -> bindingIPController.Reconcile -> cache      *)
(*     -> addedBindingIp | deletedBindingIp (two channels)                 *)
(*     -> subnetManager.processBindingIpEvents (30 s resend when the       *)
(*        subnet has no DHCP server) -> the server's own two channels      *)
(*     -> dhcpServer.monitor -> currentManualBindingClients -> hosts file  *)
(*     -> SIGHUP -> dnsmasq                                                *)
(*                                                                         *)
(* The goroutines on that path, the subnet reconciler that starts, stops   *)
(* and replays into servers, the goroutine that waits for the election,    *)
(* process deaths, failed writes and restarts of the agent interleave.     *)
(*                                                                         *)
(* MAC addresses are compared up to letter case (strings.EqualFold), so a  *)
(* member of MACs stands for all spellings of one address.                 *)
(***************************************************************************)
EXTENDS Naturals, Sequences, FiniteSets

CONSTANTS Names,      \* names of BindingIp objects
          Subnets,    \* names of Subnet objects
          IPs, MACs,
          IPRange,    \* IPRange[s]: the addresses of spec.ipv4Subnet.ipRange
          ChanCap,    \* capacity of each channel (1000 in the code)
          None,       \* nil
          MaxChanges, \* bound on the changes users make to API objects
          MaxFaults   \* bound on crashes, process deaths and failed writes

\* bindingipdata.BindingIPInfo. Valid is left out: nothing reads it.
Info == [name: Names, subnet: Subnets, ip: IPs, mac: MACs]

\* What travels in the pipeline: "add" in addedBindingIp, "del" in
\* deletedBindingIp.
Event == [op: {"add", "del"}, info: Info]

\* Reconcile of a new Subnet between the start of its server and the last
\* binding it replays.
Replay == [subnet: Subnets, listed: BOOLEAN, todo: SUBSET Info]

ASSUME PipelineAssumption ==
    /\ None \notin Info
    /\ None \notin Event
    /\ None \notin Replay
    /\ IPRange \in [Subnets -> SUBSET IPs]
    /\ ChanCap \in Nat \ {0}
    /\ MaxChanges \in Nat
    /\ MaxFaults \in Nat

VARIABLES
    bindingIps,       \* API server: spec of each BindingIp, None if absent
    valid,            \* API server: status.valid
    subnets,          \* API server: the Subnet objects
    seen,             \* informer cache read by webhook and controller
    cache,            \* BindingIPCacheDatabase
    outbox,           \* event Reconcile is sending (blocks when full)
    addedBindingIp,   \* channel of the subnet manager
    deletedBindingIp, \* channel of the subnet manager
    elected,          \* the elected goroutine: "no", "yes", "failed"
    inflight,         \* event processBindingIpEvents sends to a server
    sleeping,         \* goroutines waiting 30 s to send an event again
    dhcpServerList,   \* subnets with a DHCP server
    replay,           \* see Replay
    srvAdded,         \* addedBindingIp channel of each server
    srvDeleted,       \* deletedBindingIp channel of each server
    table,            \* currentManualBindingClients of each server
    hosts,            \* the dhcp-hostsfile on disk
    loaded,           \* what the dnsmasq process read
    alive,            \* subnets whose dnsmasq process runs
    torn,             \* subnets whose last write of hosts failed
    changes, faults,  \* counters for the bounds
    ever,             \* history: every spec a BindingIp has had
    removed           \* history: specs of BindingIps deleted at some time

apiVars == <<bindingIps, valid, subnets, changes, ever, removed>>
ctlVars == <<seen, cache, outbox>>
mgrVars == <<addedBindingIp, deletedBindingIp, elected, inflight, sleeping>>
srvVars == <<dhcpServerList, replay, srvAdded, srvDeleted, table, hosts,
             loaded, alive, torn>>
vars == <<apiVars, ctlVars, mgrVars, srvVars, faults>>

NoBindings == [ip \in IPs |-> None]

TypeOK ==
    /\ bindingIps \in [Names -> Info \cup {None}]
    /\ valid \in [Names -> BOOLEAN]
    /\ subnets \subseteq Subnets
    /\ seen \in [Names -> Info \cup {None}]
    /\ cache \in [Names -> Info \cup {None}]
    /\ outbox \in Event \cup {None}
    /\ addedBindingIp \in Seq(Info)
    /\ deletedBindingIp \in Seq(Info)
    /\ elected \in {"no", "yes", "failed"}
    /\ inflight \in Event \cup {None}
    /\ sleeping \in [Event -> Nat]
    /\ dhcpServerList \subseteq Subnets
    /\ replay \in Replay \cup {None}
    /\ srvAdded \in [Subnets -> Seq(Info)]
    /\ srvDeleted \in [Subnets -> Seq(Info)]
    /\ table \in [Subnets -> [IPs -> Info \cup {None}]]
    /\ hosts \in [Subnets -> [IPs -> Info \cup {None}]]
    /\ loaded \in [Subnets -> [IPs -> Info \cup {None}]]
    /\ alive \subseteq Subnets
    /\ torn \subseteq Subnets
    /\ changes \in Nat
    /\ faults \in Nat
    /\ ever \subseteq Info
    /\ removed \subseteq Info

\* The agent has just started in a cluster with some Subnets and no BindingIp.
Init ==
    /\ bindingIps = [n \in Names |-> None]
    /\ valid = [n \in Names |-> FALSE]
    /\ subnets \in SUBSET Subnets
    /\ seen = [n \in Names |-> None]
    /\ cache = [n \in Names |-> None]
    /\ outbox = None
    /\ addedBindingIp = <<>>
    /\ deletedBindingIp = <<>>
    /\ elected = "no"
    /\ inflight = None
    /\ sleeping = [e \in Event |-> 0]
    /\ dhcpServerList = {}
    /\ replay = None
    /\ srvAdded = [s \in Subnets |-> <<>>]
    /\ srvDeleted = [s \in Subnets |-> <<>>]
    /\ table = [s \in Subnets |-> NoBindings]
    /\ hosts = [s \in Subnets |-> NoBindings]
    /\ loaded = [s \in Subnets |-> NoBindings]
    /\ alive = {}
    /\ torn = {}
    /\ changes = 0
    /\ faults = 0
    /\ ever = {}
    /\ removed = {}

Room(ch) == Len(ch) < ChanCap

-----------------------------------------------------------------------------
(***************************************************************************)
(* Users. Each request passes the BindingIp webhook, which reads the       *)
(* informer cache of the manager's client.                                 *)
(***************************************************************************)
InRange(i) == i.subnet \in subnets /\ i.ip \in IPRange[i.subnet]

validateBindingIP(n, i) ==
    /\ InRange(i)
    /\ \A m \in Names \ {n} :
          seen[m] # None => seen[m].ip # i.ip /\ seen[m].mac # i.mac

UserChange == changes < MaxChanges /\ changes' = changes + 1

CreateBindingIp(n, i) ==
    /\ UserChange
    /\ bindingIps[n] = None
    /\ i.name = n
    /\ validateBindingIP(n, i)
    /\ bindingIps' = [bindingIps EXCEPT ![n] = i]
    /\ ever' = ever \cup {i}
    /\ UNCHANGED <<valid, subnets, removed, ctlVars, mgrVars, srvVars, faults>>

UpdateBindingIp(n, i) ==
    /\ UserChange
    /\ bindingIps[n] \notin {None, i}
    /\ i.name = n
    /\ validateBindingIP(n, i)
    /\ bindingIps' = [bindingIps EXCEPT ![n] = i]
    /\ ever' = ever \cup {i}
    /\ UNCHANGED <<valid, subnets, removed, ctlVars, mgrVars, srvVars, faults>>

DeleteBindingIp(n) ==
    /\ UserChange
    /\ bindingIps[n] # None
    /\ bindingIps' = [bindingIps EXCEPT ![n] = None]
    /\ valid' = [valid EXCEPT ![n] = FALSE]
    /\ removed' = removed \cup {i \in ever : i.name = n}
    /\ UNCHANGED <<subnets, ever, ctlVars, mgrVars, srvVars, faults>>

CreateSubnet(s) ==
    /\ UserChange
    /\ s \notin subnets
    /\ subnets' = subnets \cup {s}
    /\ UNCHANGED <<bindingIps, valid, ever, removed,
                   ctlVars, mgrVars, srvVars, faults>>

DeleteSubnet(s) ==
    /\ UserChange
    /\ s \in subnets
    /\ subnets' = subnets \ {s}
    /\ UNCHANGED <<bindingIps, valid, ever, removed,
                   ctlVars, mgrVars, srvVars, faults>>

\* The watch brings the informer up to date with one object.
InformerSync(n) ==
    /\ seen[n] # bindingIps[n]
    /\ seen' = [seen EXCEPT ![n] = bindingIps[n]]
    /\ UNCHANGED <<cache, outbox, apiVars, mgrVars, srvVars, faults>>

-----------------------------------------------------------------------------
(***************************************************************************)
(* bindingIPController. One worker: it is busy while its send blocks.      *)
(***************************************************************************)

\* Mutant: every error of Get is taken for NotFound.
ReconcileDeletedAnyError(n) ==
    /\ outbox = None
    /\ cache[n] # None
    /\ cache' = [cache EXCEPT ![n] = None]
    /\ outbox' = [op |-> "del", info |-> cache[n]]
    /\ UNCHANGED <<seen, apiVars, mgrVars, srvVars, faults>>

\* Reconcile of an absent object: forget it and tell the subnet manager.
ReconcileDeleted(n) ==
    /\ outbox = None
    /\ seen[n] = None
    /\ cache[n] # None
    /\ cache' = [cache EXCEPT ![n] = None]
    /\ outbox' = [op |-> "del", info |-> cache[n]]
    /\ UNCHANGED <<seen, apiVars, mgrVars, srvVars, faults>>

\* updateBindingIPStatus: a status that has to change is written only when
\* the object read is still the current one, otherwise the API server
\* answers with a conflict and Reconcile is tried again later.
updateBindingIPStatus(n) ==
    /\ valid[n] # InRange(seen[n]) => seen[n] = bindingIps[n]
    /\ valid' = [valid EXCEPT ![n] = InRange(seen[n])]

\* A new object and a changed spec are handled alike: the cache takes the
\* new spec and an add event is sent. Nothing is sent for the old spec.
processBindingIP(n) ==
    IF cache[n] # seen[n]
    THEN /\ cache' = [cache EXCEPT ![n] = seen[n]]
         /\ outbox' = [op |-> "add", info |-> seen[n]]
    ELSE UNCHANGED <<cache, outbox>>

ReconcileExisting(n) ==
    /\ outbox = None
    /\ seen[n] # None
    /\ updateBindingIPStatus(n)
    /\ processBindingIP(n)
    /\ UNCHANGED <<seen, bindingIps, subnets, changes, ever, removed,
                   mgrVars, srvVars, faults>>

\* c.addedBindingIp <- info, c.deletedBindingIp <- t
SendEvent ==
    /\ outbox # None
    /\ IF outbox.op = "add"
       THEN /\ Room(addedBindingIp)
            /\ addedBindingIp' = Append(addedBindingIp, outbox.info)
            /\ UNCHANGED deletedBindingIp
       ELSE /\ Room(deletedBindingIp)
            /\ deletedBindingIp' = Append(deletedBindingIp, outbox.info)
            /\ UNCHANGED addedBindingIp
    /\ outbox' = None
    /\ UNCHANGED <<seen, cache, elected, inflight, sleeping,
                   apiVars, srvVars, faults>>

-----------------------------------------------------------------------------
(***************************************************************************)
(* subnetManager.processBindingIpEvents: one goroutine, started after the  *)
(* election. select picks either channel when both hold an event.          *)
(***************************************************************************)
Dispatch(e) ==
    IF e.info.subnet \in dhcpServerList
    THEN inflight' = e /\ UNCHANGED sleeping
    ELSE sleeping' = [sleeping EXCEPT ![e] = @ + 1] /\ UNCHANGED inflight

TakeAdded ==
    /\ elected = "yes"
    /\ inflight = None
    /\ addedBindingIp # <<>>
    /\ addedBindingIp' = Tail(addedBindingIp)
    /\ Dispatch([op |-> "add", info |-> Head(addedBindingIp)])
    /\ UNCHANGED <<deletedBindingIp, elected, apiVars, ctlVars, srvVars, faults>>

TakeDeleted ==
    /\ elected = "yes"
    /\ inflight = None
    /\ deletedBindingIp # <<>>
    /\ deletedBindingIp' = Tail(deletedBindingIp)
    /\ Dispatch([op |-> "del", info |-> Head(deletedBindingIp)])
    /\ UNCHANGED <<addedBindingIp, elected, apiVars, ctlVars, srvVars, faults>>

\* Mutant: an event that is not asleep is sent.
ResendUnguarded(e) ==
    /\ sleeping' = [sleeping EXCEPT ![e] = @ - 1]
    /\ Room(addedBindingIp)
    /\ addedBindingIp' = Append(addedBindingIp, e.info)
    /\ UNCHANGED <<deletedBindingIp, elected, inflight,
                   apiVars, ctlVars, srvVars, faults>>

\* A goroutine ends its 30 s sleep and sends the event again.
Resend(e) ==
    /\ sleeping[e] > 0
    /\ sleeping' = [sleeping EXCEPT ![e] = @ - 1]
    /\ IF e.op = "add"
       THEN /\ Room(addedBindingIp)
            /\ addedBindingIp' = Append(addedBindingIp, e.info)
            /\ UNCHANGED deletedBindingIp
       ELSE /\ Room(deletedBindingIp)
            /\ deletedBindingIp' = Append(deletedBindingIp, e.info)
            /\ UNCHANGED addedBindingIp
    /\ UNCHANGED <<elected, inflight, apiVars, ctlVars, srvVars, faults>>

\* UpdateBindingIpEvents of the server found by Dispatch.
Forward ==
    /\ inflight # None
    /\ LET s == inflight.info.subnet IN
       IF inflight.op = "add"
       THEN /\ Room(srvAdded[s])
            /\ srvAdded' = [srvAdded EXCEPT ![s] = Append(@, inflight.info)]
            /\ UNCHANGED srvDeleted
       ELSE /\ Room(srvDeleted[s])
            /\ srvDeleted' = [srvDeleted EXCEPT ![s] = Append(@, inflight.info)]
            /\ UNCHANGED srvAdded
    /\ inflight' = None
    /\ UNCHANGED <<addedBindingIp, deletedBindingIp, elected, sleeping,
                   dhcpServerList, replay, table, hosts, loaded, alive, torn,
                   apiVars, ctlVars, faults>>

-----------------------------------------------------------------------------
(***************************************************************************)
(* subnetManager: starting and stopping DHCP servers.                      *)
(***************************************************************************)

\* NewDhcpServer and Run for every subnet of S: fresh channels, an empty
\* table, the hosts file rewritten from it and a dnsmasq that read it.
StartServers(S) ==
    LET Fresh(f, v) == [s \in Subnets |-> IF s \in S THEN v ELSE f[s]] IN
    /\ dhcpServerList' = dhcpServerList \cup S
    /\ srvAdded' = Fresh(srvAdded, <<>>)
    /\ srvDeleted' = Fresh(srvDeleted, <<>>)
    /\ table' = Fresh(table, NoBindings)
    /\ hosts' = Fresh(hosts, NoBindings)
    /\ loaded' = Fresh(loaded, NoBindings)
    /\ alive' = alive \cup S
    /\ torn' = torn \ S

\* The goroutine of SetupWithManager, after the election: a server for every
\* Subnet that has none (Run may fail for some), then processBindingIpEvents.
Elect ==
    /\ elected = "no"
    /\ elected' = "yes"
    /\ \E S \in SUBSET (subnets \ dhcpServerList) : StartServers(S)
    /\ UNCHANGED <<replay, addedBindingIp, deletedBindingIp, inflight,
                   sleeping, apiVars, ctlVars, faults>>

\* The same goroutine gives up when the List fails.
ElectListFails ==
    /\ elected = "no"
    /\ faults < MaxFaults
    /\ faults' = faults + 1
    /\ elected' = "failed"
    /\ UNCHANGED <<addedBindingIp, deletedBindingIp, inflight, sleeping,
                   apiVars, ctlVars, srvVars>>

\* Reconcile of a Subnet without a server.
StartServer(s) ==
    /\ replay = None
    /\ s \in subnets \ dhcpServerList
    /\ StartServers({s})
    /\ replay' = [subnet |-> s, listed |-> FALSE, todo |-> {}]
    /\ UNCHANGED <<apiVars, ctlVars, mgrVars, faults>>

\* Mutant: a new server starts without the bindings already known.
NothingToReplay ==
    /\ replay # None
    /\ replay' = None
    /\ UNCHANGED <<dhcpServerList, srvAdded, srvDeleted, table, hosts, loaded,
                   alive, torn, apiVars, ctlVars, mgrVars, faults>>

\* GetInfoForSubnet
ReplayList ==
    /\ replay # None
    /\ ~replay.listed
    /\ LET infos == {cache[n] : n \in {m \in Names : cache[m] # None}}
           mine == {i \in infos : i.subnet = replay.subnet}
       IN replay' = IF mine = {} THEN None
                    ELSE [subnet |-> replay.subnet, listed |-> TRUE, todo |-> mine]
    /\ UNCHANGED <<dhcpServerList, srvAdded, srvDeleted, table, hosts, loaded,
                   alive, torn, apiVars, ctlVars, mgrVars, faults>>

\* UpdateBindingIpEvents(bindingIPInfoList, nil), one send at a time.
ReplaySend(i) ==
    /\ replay # None
    /\ replay.listed
    /\ i \in replay.todo
    /\ LET s == replay.subnet IN
       /\ Room(srvAdded[s])
       /\ srvAdded' = [srvAdded EXCEPT ![s] = Append(@, i)]
    /\ replay' = IF replay.todo = {i} THEN None
                 ELSE [replay EXCEPT !.todo = @ \ {i}]
    /\ UNCHANGED <<dhcpServerList, srvDeleted, table, hosts, loaded, alive,
                   torn, apiVars, ctlVars, mgrVars, faults>>

\* Mutant: the stopped server stays in dhcpServerList.
StopServerStaysListed(s) ==
    /\ replay = None
    /\ s \in dhcpServerList \ subnets
    /\ srvAdded' = [srvAdded EXCEPT ![s] = <<>>]
    /\ srvDeleted' = [srvDeleted EXCEPT ![s] = <<>>]
    /\ table' = [table EXCEPT ![s] = NoBindings]
    /\ loaded' = [loaded EXCEPT ![s] = NoBindings]
    /\ alive' = alive \ {s}
    /\ UNCHANGED <<dhcpServerList, replay, hosts, torn, apiVars, ctlVars,
                   mgrVars, faults>>

\* Reconcile of a deleted Subnet: Stop and remove the server. An event that
\* processBindingIpEvents is sending to it ends in a channel nobody reads.
StopServer(s) ==
    /\ replay = None
    /\ s \in dhcpServerList \ subnets
    /\ dhcpServerList' = dhcpServerList \ {s}
    /\ inflight' = IF inflight # None /\ inflight.info.subnet = s
                   THEN None ELSE inflight
    /\ srvAdded' = [srvAdded EXCEPT ![s] = <<>>]
    /\ srvDeleted' = [srvDeleted EXCEPT ![s] = <<>>]
    /\ table' = [table EXCEPT ![s] = NoBindings]
    /\ loaded' = [loaded EXCEPT ![s] = NoBindings]
    /\ alive' = alive \ {s}
    /\ torn' = torn \ {s}
    /\ UNCHANGED <<replay, hosts, addedBindingIp, deletedBindingIp, elected,
                   sleeping, apiVars, ctlVars, faults>>

-----------------------------------------------------------------------------
(***************************************************************************)
(* dhcpServer.monitor. Each branch of the select runs to the end of the    *)
(* loop body before the next one is taken.                                 *)
(***************************************************************************)

\* UpdateDhcpBindings writes the table, then SIGHUP makes a live process
\* read the file. Signalling a dead process fails; the ticker restarts it.
WriteAndReload(s, t) ==
    /\ hosts' = [hosts EXCEPT ![s] = t]
    /\ loaded' = IF s \in alive THEN [loaded EXCEPT ![s] = t] ELSE loaded
    /\ torn' = torn \ {s}
    /\ UNCHANGED faults

\* os.WriteFile fails before or after it truncated the file: no reload.
WriteFails(s) ==
    /\ faults < MaxFaults
    /\ faults' = faults + 1
    /\ hosts' \in {hosts, [hosts EXCEPT ![s] = NoBindings]}
    /\ torn' = torn \cup {s}
    /\ UNCHANGED loaded

Rewrite(s) == WriteAndReload(s, table'[s]) \/ WriteFails(s)

Bound(s, i) == table[s][i.ip] # None /\ table[s][i.ip].mac = i.mac

\* Mutant: an existing entry is updated in place, MAC only.
MonitorAddedMacOnly(s) ==
    /\ s \in dhcpServerList
    /\ srvAdded[s] # <<>>
    /\ srvAdded' = [srvAdded EXCEPT ![s] = Tail(@)]
    /\ LET i == Head(srvAdded[s]) IN
       /\ table' = [table EXCEPT ![s][i.ip] =
                       IF @ = None THEN i ELSE [@ EXCEPT !.mac = i.mac]]
       /\ Rewrite(s)
    /\ UNCHANGED <<dhcpServerList, replay, srvDeleted, alive,
                   apiVars, ctlVars, mgrVars>>

\* case info := <-s.addedBindingIp
MonitorAdded(s) ==
    /\ s \in dhcpServerList
    /\ srvAdded[s] # <<>>
    /\ srvAdded' = [srvAdded EXCEPT ![s] = Tail(@)]
    /\ LET i == Head(srvAdded[s]) IN
       IF Bound(s, i)
       THEN UNCHANGED <<table, hosts, loaded, torn, faults>>
       ELSE /\ table' = [table EXCEPT ![s][i.ip] = i]
            /\ Rewrite(s)
    /\ UNCHANGED <<dhcpServerList, replay, srvDeleted, alive,
                   apiVars, ctlVars, mgrVars>>

\* Mutant: the file is not rewritten after a delete.
MonitorDeletedNoRewrite(s) ==
    /\ s \in dhcpServerList
    /\ srvDeleted[s] # <<>>
    /\ srvDeleted' = [srvDeleted EXCEPT ![s] = Tail(@)]
    /\ LET i == Head(srvDeleted[s]) IN
       table' = IF Bound(s, i) THEN [table EXCEPT ![s][i.ip] = None] ELSE table
    /\ UNCHANGED <<dhcpServerList, replay, srvAdded, hosts, loaded, alive, torn,
                   apiVars, ctlVars, mgrVars, faults>>

\* case info := <-s.deletedBindingIp
MonitorDeleted(s) ==
    /\ s \in dhcpServerList
    /\ srvDeleted[s] # <<>>
    /\ srvDeleted' = [srvDeleted EXCEPT ![s] = Tail(@)]
    /\ LET i == Head(srvDeleted[s]) IN
       IF ~Bound(s, i)
       THEN UNCHANGED <<table, hosts, loaded, torn, faults>>
       ELSE /\ table' = [table EXCEPT ![s][i.ip] = None]
            /\ Rewrite(s)
    /\ UNCHANGED <<dhcpServerList, replay, srvAdded, alive,
                   apiVars, ctlVars, mgrVars>>

\* case <-s.restartCh: the spec of the Subnet changed (UpdateService).
MonitorRestartCh(s) ==
    /\ replay = None
    /\ s \in dhcpServerList \cap subnets
    /\ UNCHANGED table
    /\ Rewrite(s)
    /\ UNCHANGED <<dhcpServerList, replay, srvAdded, srvDeleted, alive,
                   apiVars, ctlVars, mgrVars>>

\* case <-tickerProcess.C: a dead process is started again.
MonitorTick(s) ==
    /\ s \in dhcpServerList \ alive
    /\ hosts' = [hosts EXCEPT ![s] = table[s]]
    /\ loaded' = [loaded EXCEPT ![s] = table[s]]
    /\ alive' = alive \cup {s}
    /\ torn' = torn \ {s}
    /\ UNCHANGED <<dhcpServerList, replay, srvAdded, srvDeleted, table,
                   apiVars, ctlVars, mgrVars, faults>>

-----------------------------------------------------------------------------
(***************************************************************************)
(* The environment: dnsmasq dies, the agent restarts. A restart loses all  *)
(* memory and the children; the hosts files stay on disk.                  *)
(***************************************************************************)
ProcessDies(s) ==
    /\ faults < MaxFaults
    /\ faults' = faults + 1
    /\ s \in alive
    /\ alive' = alive \ {s}
    /\ UNCHANGED <<dhcpServerList, replay, srvAdded, srvDeleted, table, hosts,
                   loaded, torn, apiVars, ctlVars, mgrVars>>

AgentRestart ==
    /\ faults < MaxFaults
    /\ faults' = faults + 1
    /\ seen' = bindingIps
    /\ cache' = [n \in Names |-> None]
    /\ outbox' = None
    /\ addedBindingIp' = <<>>
    /\ deletedBindingIp' = <<>>
    /\ elected' = "no"
    /\ inflight' = None
    /\ sleeping' = [e \in Event |-> 0]
    /\ dhcpServerList' = {}
    /\ replay' = None
    /\ srvAdded' = [s \in Subnets |-> <<>>]
    /\ srvDeleted' = [s \in Subnets |-> <<>>]
    /\ table' = [s \in Subnets |-> NoBindings]
    /\ loaded' = [s \in Subnets |-> NoBindings]
    /\ alive' = {}
    /\ torn' = {}
    /\ UNCHANGED <<hosts, apiVars>>

-----------------------------------------------------------------------------
UserNext ==
    \/ \E n \in Names, i \in Info : CreateBindingIp(n, i) \/ UpdateBindingIp(n, i)
    \/ \E n \in Names : DeleteBindingIp(n)
    \/ \E s \in Subnets : CreateSubnet(s) \/ DeleteSubnet(s)

ControllerNext ==
    \/ \E n \in Names : \/ InformerSync(n)
                        \/ ReconcileDeleted(n)
                        \/ ReconcileExisting(n)
    \/ SendEvent

SubnetReconcile(s) ==
    \/ StartServer(s) \/ StopServer(s)
    \/ ReplayList
    \/ \E i \in Info : ReplaySend(i)

ManagerNext ==
    \/ TakeAdded \/ TakeDeleted \/ Forward
    \/ \E e \in Event : Resend(e)
    \/ Elect \/ ElectListFails
    \/ \E s \in Subnets : SubnetReconcile(s)

MonitorNext ==
    \E s \in Subnets : \/ MonitorAdded(s) \/ MonitorDeleted(s)
                       \/ MonitorRestartCh(s) \/ MonitorTick(s)

FaultNext == (\E s \in Subnets : ProcessDies(s)) \/ AgentRestart

Next == UserNext \/ ControllerNext \/ ManagerNext \/ MonitorNext \/ FaultNext

Spec == Init /\ [][Next]_vars

-----------------------------------------------------------------------------
(***************************************************************************)
(* Properties                                                              *)
(***************************************************************************)
Elems(ch) == {ch[k] : k \in DOMAIN ch}

\* An undisturbed spec: no BindingIp that ever had it was deleted, and no
\* other spec ever asked for its address in its subnet.
Undisturbed(i) ==
    /\ i \notin removed
    /\ \A j \in ever : (j.subnet = i.subnet /\ j.ip = i.ip) => j = i

\* An add event for i is on its way through the manager's goroutines.
Queued(i) ==
    \/ outbox = [op |-> "add", info |-> i]
    \/ i \in Elems(addedBindingIp)

\* ... or on its way to or in the running server of its subnet.
Pending(i) ==
    \/ Queued(i)
    \/ sleeping[[op |-> "add", info |-> i]] > 0
    \/ inflight = [op |-> "add", info |-> i]
    \/ i \in Elems(srvAdded[i.subnet])
    \/ /\ replay # None
       /\ replay.subnet = i.subnet
       /\ ~replay.listed \/ i \in replay.todo

\* No add is lost: once the controller has cached an undisturbed spec and
\* its subnet has a DHCP server, the binding is in the server's table or an
\* add event for it is still on the way. Whatever the interleaving of the
\* six goroutines, a subnet that is deleted and created again, a full
\* channel or a restart.
NothingLost ==
    \A n \in Names :
        LET i == cache[n] IN
        (i # None /\ Undisturbed(i) /\ i.subnet \in dhcpServerList)
            => (table[i.subnet][i.ip] = i \/ Pending(i))

\* Provenance: whatever a dnsmasq serves, and whatever is written in the
\* hosts file of a running server, was the spec of the BindingIp it names,
\* for that subnet and that address. Reordered, resent and replayed events
\* never mix the fields of two objects or reach another subnet's server.
ServedWasRequested ==
    \A s \in dhcpServerList, ip \in IPs :
        \A i \in {table[s][ip], hosts[s][ip], loaded[s][ip]} \ {None} :
            i \in ever /\ i.subnet = s /\ i.ip = ip

\* The dnsmasq of a running server has read exactly what the monitor's
\* table says, and so has the file on disk, between any two iterations of
\* the monitor's loop, unless the last write of the file failed or the
\* process is dead (then the next tick brings it up to date).
ConfigInStep ==
    \A s \in dhcpServerList \ torn :
        /\ hosts[s] = table[s]
        /\ s \in alive => loaded[s] = table[s]

\* The binding of an undisturbed spec, once in the table of a server, stays
\* there as long as the server runs: no late, duplicated or replayed event
\* of any other BindingIp takes it away.
NoSpuriousUnbind ==
    [][\A i \in ever :
          LET s == i.subnet IN
          (/\ table[s][i.ip] = i
           /\ Undisturbed(i) /\ Undisturbed(i)'
           /\ s \in dhcpServerList /\ s \in dhcpServerList')
              => table'[s][i.ip] = i]_vars

-----------------------------------------------------------------------------
(***************************************************************************)
(* Fairness: every goroutine that stays able to run does run. Go's select  *)
(* picks at random among ready branches and a channel serves its blocked   *)
(* senders in order, so neither channel of the manager, and no resend, is  *)
(* starved for ever: strong fairness.                                      *)
(***************************************************************************)
Fairness ==
    /\ WF_vars(ControllerNext)
    /\ SF_vars(TakeAdded) /\ SF_vars(TakeDeleted)
    /\ SF_vars(\E e \in Event : Resend(e))
    /\ WF_vars(Forward)
    /\ WF_vars(Elect)
    /\ \A s \in Subnets : WF_vars(SubnetReconcile(s))
    /\ WF_vars(MonitorNext)

FairSpec == Spec /\ Fairness

\* A BindingIp that is left alone ends up served: when users and faults have
\* stopped, every existing undisturbed BindingIp whose Subnet exists is in
\* the table of that subnet's server and its status.valid is true, for
\* ever. (Unless the List after the election failed: that goroutine returns
\* and no event is processed until the agent restarts.)
EventuallyBound ==
    <>[](elected # "failed" =>
            \A n \in Names :
                LET i == bindingIps[n] IN
                (i # None /\ Undisturbed(i) /\ i.subnet \in subnets) =>
                    /\ valid[n]
                    /\ i.subnet \in dhcpServerList
                    /\ table[i.subnet][i.ip] = i)

=============================================================================
