------------------------ MODULE DhcpServerLifecycle ------------------------
(***************************************************************************)
(* The life of the DHCP servers of one Subnet: how subnetManager starts,   *)
(* updates and stops them, and what the goroutines of each server and its  *)
(* dnsmasq process do meanwhile.                                           *)
(*                                                                         *)
(*   Reconcile           the worker of the Subnet controller               *)
(*   elected goroutine   the one SetupWithManager leaves behind; it holds  *)
(*                       dataLock while it starts servers                  *)
(*   statusUpdateWorker, monitor   two goroutines for each server          *)
(*                                                                         *)
(* stopCh, statusUpdateCh and restartCh are unbuffered: a send is a joint  *)
(* step of the sender and of a receiver that sits in its select. The       *)
(* bindings a server holds are the subject of BindingIpPipeline.           *)
(***************************************************************************)
EXTENDS Naturals, FiniteSets

CONSTANTS MaxServers, \* servers that may be created
          MaxChanges, \* changes users make to the Subnet
          MaxFaults   \* failed starts, failed reads, dead processes

ASSUME LifecycleAssumption ==
    /\ MaxServers \in Nat
    /\ MaxChanges \in Nat
    /\ MaxFaults \in Nat

Servers == 1..MaxServers
NoServer == 0
Versions == 1..(MaxChanges + 1)  \* the specs the Subnet has had, numbered
Absent == 0

VARIABLES
    subnet,         \* API server: version of the spec, Absent if deleted
    known,          \* SubnetCache: version of the cached spec
    dhcpServerList, \* the server of the Subnet
    dataLock,       \* TRUE while the elected goroutine holds the write lock
    r,              \* Reconcile: pc, the server it works on, the spec it read
    e,              \* elected goroutine: likewise
    created,        \* number of NewDhcpServer calls
    spec,           \* s.subnet of each server
    closed,         \* how many times Stop closed stopCh
    worker,         \* statusUpdateWorker
    pendingUpdate,
    monitor,        \* monitor
    cmd,            \* the process s.cmd stands for
    strays,         \* live processes of the server that s.cmd lost
    changes, faults

mgrVars == <<known, dhcpServerList, dataLock, r, e, created>>
srvVars == <<spec, closed, worker, pendingUpdate, monitor, cmd, strays>>
vars == <<subnet, mgrVars, srvVars, changes, faults>>

Idle == [pc |-> "idle", server |-> NoServer, spec |-> Absent]

TypeOK ==
    /\ subnet \in Versions \cup {Absent}
    /\ known \in Versions \cup {Absent}
    /\ dhcpServerList \in Servers \cup {NoServer}
    /\ dataLock \in BOOLEAN
    /\ r \in [pc: {"idle", "get", "close", "kill", "unlist", "launch", "notify",
                   "spawn", "insert", "set", "update"},
              server: Servers \cup {NoServer}, spec: Versions \cup {Absent}]
    /\ e \in [pc: {"idle", "lock", "launch", "notify", "spawn", "insert", "done"},
              server: Servers \cup {NoServer}, spec: Versions \cup {Absent}]
    /\ created \in 0..MaxServers
    /\ spec \in [Servers -> Versions \cup {Absent}]
    /\ closed \in [Servers -> Nat]
    /\ worker \in [Servers -> {"off", "select", "busy", "exited"}]
    /\ pendingUpdate \in [Servers -> BOOLEAN]
    /\ monitor \in [Servers -> {"off", "select", "starting", "notify", "exited", "failed"}]
    /\ cmd \in [Servers -> {"nil", "alive", "dead"}]
    /\ strays \in [Servers -> Nat]
    /\ changes \in 0..MaxChanges
    /\ faults \in 0..MaxFaults

\* The agent has just started; the Subnet may exist already.
Init ==
    /\ subnet \in {Absent, 1}
    /\ known = Absent
    /\ dhcpServerList = NoServer
    /\ dataLock = FALSE
    /\ r = Idle
    /\ e = Idle
    /\ created = 0
    /\ spec = [k \in Servers |-> Absent]
    /\ closed = [k \in Servers |-> 0]
    /\ worker = [k \in Servers |-> "off"]
    /\ pendingUpdate = [k \in Servers |-> FALSE]
    /\ monitor = [k \in Servers |-> "off"]
    /\ cmd = [k \in Servers |-> "nil"]
    /\ strays = [k \in Servers |-> 0]
    /\ changes = 0
    /\ faults = 0

Fault == faults < MaxFaults /\ faults' = faults + 1

-----------------------------------------------------------------------------
(* Users                                                                     *)

\* Create the Subnet, or change its spec: either way the spec is a new one.
WriteSubnet ==
    /\ changes < MaxChanges
    /\ changes' = changes + 1
    /\ subnet' = changes + 2
    /\ UNCHANGED <<mgrVars, srvVars, faults>>

DeleteSubnet ==
    /\ subnet # Absent
    /\ changes < MaxChanges
    /\ changes' = changes + 1
    /\ subnet' = Absent
    /\ UNCHANGED <<mgrVars, srvVars, faults>>

-----------------------------------------------------------------------------
(***************************************************************************)
(* startDnsmasq and Run. They are run by Reconcile and by the elected      *)
(* goroutine for a new server, startDnsmasq by the monitor as well.        *)
(***************************************************************************)

\* The configuration is generated from the current spec, then the process
\* starts and s.cmd is overwritten.
startDnsmasq(k) ==
    /\ cmd' = [cmd EXCEPT ![k] = "alive"]
    /\ strays' = IF cmd[k] = "alive" THEN [strays EXCEPT ![k] = @ + 1] ELSE strays

\* s.statusUpdateCh <- struct{}{}, received by the worker.
NotifyStatus(k) ==
    /\ worker[k] = "select"
    /\ pendingUpdate' = [pendingUpdate EXCEPT ![k] = TRUE]

\* Mutant: an identity is skipped.
NewServerSkips(k, v) ==
    /\ created < MaxServers
    /\ k = created + 1
    /\ created' = k + 1
    /\ spec' = [spec EXCEPT ![k] = v]
    /\ worker' = [worker EXCEPT ![k] = "select"]

\* NewDhcpServer, and the worker that Run starts first.
NewServer(k, v) ==
    /\ created < MaxServers
    /\ k = created + 1
    /\ created' = k
    /\ spec' = [spec EXCEPT ![k] = v]
    /\ worker' = [worker EXCEPT ![k] = "select"]

\* One step of Run by goroutine g, on server g.server; after is what g is
\* after the step. A failure leaves the worker behind.
RunLaunch(g, after) ==
    /\ g.pc = "launch"
    /\ startDnsmasq(g.server)
    /\ after = [g EXCEPT !.pc = "notify"]
    /\ UNCHANGED <<spec, closed, worker, pendingUpdate, monitor, faults>>

RunFails(g, after) ==
    /\ g.pc = "launch"
    /\ Fault
    /\ after = Idle
    /\ UNCHANGED srvVars

RunNotify(g, after) ==
    /\ g.pc = "notify"
    /\ NotifyStatus(g.server)
    /\ after = [g EXCEPT !.pc = "spawn"]
    /\ UNCHANGED <<spec, closed, worker, monitor, cmd, strays, faults>>

\* go s.monitor(), which gives up at once when it cannot watch the leases.
RunSpawn(g, after) ==
    /\ g.pc = "spawn"
    /\ after = [g EXCEPT !.pc = "insert"]
    /\ \/ monitor' = [monitor EXCEPT ![g.server] = "select"] /\ UNCHANGED faults
       \/ monitor' = [monitor EXCEPT ![g.server] = "failed"] /\ Fault
    /\ UNCHANGED <<spec, closed, worker, pendingUpdate, cmd, strays>>

-----------------------------------------------------------------------------
(* subnetManager.Reconcile                                                   *)

ReconcileBegin ==
    /\ r.pc = "idle"
    /\ ~dataLock
    /\ r' = [pc |-> "get", server |-> dhcpServerList, spec |-> Absent]
    /\ UNCHANGED <<subnet, known, dhcpServerList, dataLock, e, created, srvVars,
                   changes, faults>>

\* The Subnet is gone: its cache entry goes and its server is stopped.
ReconcileNotFound ==
    /\ r.pc = "get"
    /\ subnet = Absent
    /\ known' = Absent
    /\ r' = IF r.server = NoServer THEN Idle ELSE [r EXCEPT !.pc = "close"]
    /\ UNCHANGED <<subnet, dhcpServerList, dataLock, e, created, srvVars,
                   changes, faults>>

ReconcileGetFails ==
    /\ r.pc = "get"
    /\ Fault
    /\ r' = Idle
    /\ UNCHANGED <<subnet, known, dhcpServerList, dataLock, e, created, srvVars,
                   changes>>

\* Mutant: only a new Subnet counts as a change.
OnlyNewSubnet(v) == known = Absent

HasSpecChanged(v) == known # v

ReconcileUnchanged ==
    /\ r.pc = "get"
    /\ subnet # Absent
    /\ ~HasSpecChanged(subnet)
    /\ r' = Idle
    /\ UNCHANGED <<subnet, known, dhcpServerList, dataLock, e, created, srvVars,
                   changes, faults>>

\* Mutant: the spec is cached before the server runs.
ReconcileNewCachesFirst ==
    /\ r.pc = "get"
    /\ subnet # Absent
    /\ HasSpecChanged(subnet)
    /\ r.server = NoServer
    /\ known' = subnet
    /\ \E k \in Servers :
          /\ NewServer(k, subnet)
          /\ r' = [pc |-> "launch", server |-> k, spec |-> subnet]
    /\ UNCHANGED <<subnet, dhcpServerList, dataLock, e, closed,
                   pendingUpdate, monitor, cmd, strays, changes, faults>>

ReconcileNew ==
    /\ r.pc = "get"
    /\ subnet # Absent
    /\ HasSpecChanged(subnet)
    /\ r.server = NoServer
    /\ \E k \in Servers :
          /\ NewServer(k, subnet)
          /\ r' = [pc |-> "launch", server |-> k, spec |-> subnet]
    /\ UNCHANGED <<subnet, known, dhcpServerList, dataLock, e, closed,
                   pendingUpdate, monitor, cmd, strays, changes, faults>>

\* The first half of UpdateService, then Reconcile waits on restartCh.
UpdateService ==
    /\ r.pc = "get"
    /\ subnet # Absent
    /\ HasSpecChanged(subnet)
    /\ r.server # NoServer
    /\ spec' = [spec EXCEPT ![r.server] = subnet]
    /\ r' = [r EXCEPT !.pc = "update", !.spec = subnet]
    /\ UNCHANGED <<subnet, known, dhcpServerList, dataLock, e, created, closed,
                   worker, pendingUpdate, monitor, cmd, strays, changes, faults>>

ReconcileRun ==
    /\ \/ RunLaunch(r, r') \/ RunFails(r, r') \/ RunNotify(r, r') \/ RunSpawn(r, r')
    /\ UNCHANGED <<subnet, known, dhcpServerList, dataLock, e, created, changes>>

ReconcileInsert ==
    /\ r.pc = "insert"
    /\ ~dataLock
    /\ dhcpServerList' = r.server
    /\ r' = [r EXCEPT !.pc = "set"]
    /\ UNCHANGED <<subnet, known, dataLock, e, created, srvVars, changes, faults>>

\* s.cache.Set(subnet), after a start and after an update.
ReconcileSet ==
    /\ r.pc = "set"
    /\ known' = r.spec
    /\ r' = Idle
    /\ UNCHANGED <<subnet, dhcpServerList, dataLock, e, created, srvVars,
                   changes, faults>>

\* Stop: closing a closed channel would panic.
StopClose ==
    /\ r.pc = "close"
    /\ closed' = [closed EXCEPT ![r.server] = @ + 1]
    /\ r' = [r EXCEPT !.pc = "kill"]
    /\ UNCHANGED <<subnet, known, dhcpServerList, dataLock, e, created, spec, worker,
                   pendingUpdate, monitor, cmd, strays, changes, faults>>

StopKill ==
    /\ r.pc = "kill"
    /\ cmd' = IF cmd[r.server] = "alive" THEN [cmd EXCEPT ![r.server] = "dead"] ELSE cmd
    /\ r' = [r EXCEPT !.pc = "unlist"]
    /\ UNCHANGED <<subnet, known, dhcpServerList, dataLock, e, created, spec, closed,
                   worker, pendingUpdate, monitor, strays, changes, faults>>

\* Mutant: the stopped server stays listed.
ReconcileKeepsListed ==
    /\ r.pc = "unlist"
    /\ r' = Idle
    /\ UNCHANGED <<subnet, known, dhcpServerList, dataLock, e, created, srvVars,
                   changes, faults>>

ReconcileUnlist ==
    /\ r.pc = "unlist"
    /\ ~dataLock
    /\ dhcpServerList' = NoServer
    /\ r' = Idle
    /\ UNCHANGED <<subnet, known, dataLock, e, created, srvVars, changes, faults>>

-----------------------------------------------------------------------------
(* The elected goroutine of SetupWithManager                                 *)

ElectList ==
    /\ e.pc = "idle"
    /\ e' = [pc |-> "lock", server |-> NoServer, spec |-> subnet]
    /\ UNCHANGED <<subnet, known, dhcpServerList, dataLock, r, created, srvVars,
                   changes, faults>>

ElectListFails ==
    /\ e.pc = "idle"
    /\ Fault
    /\ e' = [Idle EXCEPT !.pc = "done"]
    /\ UNCHANGED <<subnet, known, dhcpServerList, dataLock, r, created, srvVars,
                   changes>>

\* Nothing was listed, or the Subnet already has a server.
ElectSkip ==
    /\ e.pc = "lock"
    /\ e.spec = Absent \/ dhcpServerList # NoServer
    /\ e' = [Idle EXCEPT !.pc = "done"]
    /\ UNCHANGED <<subnet, known, dhcpServerList, dataLock, r, created, srvVars,
                   changes, faults>>

ElectNew ==
    /\ e.pc = "lock"
    /\ e.spec # Absent
    /\ dhcpServerList = NoServer
    /\ dataLock' = TRUE
    /\ \E k \in Servers :
          /\ NewServer(k, e.spec)
          /\ e' = [e EXCEPT !.pc = "launch", !.server = k]
    /\ UNCHANGED <<subnet, known, dhcpServerList, r, closed, pendingUpdate, monitor,
                   cmd, strays, changes, faults>>

ElectRun ==
    /\ \/ /\ RunLaunch(e, e') \/ RunNotify(e, e') \/ RunSpawn(e, e')
          /\ UNCHANGED dataLock
       \/ /\ RunFails(e, Idle)
          /\ e' = [Idle EXCEPT !.pc = "done"]
          /\ dataLock' = FALSE
    /\ UNCHANGED <<subnet, known, dhcpServerList, r, created, changes>>

ElectInsert ==
    /\ e.pc = "insert"
    /\ dhcpServerList' = e.server
    /\ dataLock' = FALSE
    /\ e' = [Idle EXCEPT !.pc = "done"]
    /\ UNCHANGED <<subnet, known, r, created, srvVars, changes, faults>>

-----------------------------------------------------------------------------
(* statusUpdateWorker                                                        *)

WorkerExit(k) ==
    /\ worker[k] = "select"
    /\ closed[k] > 0
    /\ worker' = [worker EXCEPT ![k] = "exited"]
    /\ UNCHANGED <<subnet, mgrVars, spec, closed, pendingUpdate, monitor, cmd,
                   strays, changes, faults>>

WorkerTick(k) ==
    /\ worker[k] = "select"
    /\ pendingUpdate[k]
    /\ worker' = [worker EXCEPT ![k] = "busy"]
    /\ UNCHANGED <<subnet, mgrVars, spec, closed, pendingUpdate, monitor, cmd,
                   strays, changes, faults>>

\* updateSubnetWithRetry returned, with or without an error.
WorkerUpdated(k) ==
    /\ worker[k] = "busy"
    /\ worker' = [worker EXCEPT ![k] = "select"]
    /\ pendingUpdate' = [pendingUpdate EXCEPT ![k] = FALSE]
    /\ UNCHANGED <<subnet, mgrVars, spec, closed, monitor, cmd, strays,
                   changes, faults>>

-----------------------------------------------------------------------------
(* monitor                                                                   *)

MonitorGoes(k, to) ==
    /\ monitor' = [monitor EXCEPT ![k] = to]
    /\ UNCHANGED <<subnet, known, dhcpServerList, dataLock, e, created, closed,
                   spec, worker, changes>>

MonitorExit(k) ==
    /\ monitor[k] = "select"
    /\ closed[k] > 0
    /\ MonitorGoes(k, "exited")
    /\ UNCHANGED <<r, pendingUpdate, cmd, strays, faults>>

\* A lease or a binding changed: the status is out of date.
MonitorEvent(k) ==
    /\ monitor[k] = "select"
    /\ MonitorGoes(k, "notify")
    /\ UNCHANGED <<r, pendingUpdate, cmd, strays, faults>>

\* case <-s.restartCh: a new configuration is generated and the process
\* signalled. SIGHUP makes dnsmasq read its hosts files again, not its
\* configuration.
MonitorRestartCh(k) ==
    /\ monitor[k] = "select"
    /\ r.pc = "update" /\ r.server = k
    /\ r' = [r EXCEPT !.pc = "set"]
    /\ MonitorGoes(k, IF cmd[k] = "alive" THEN "notify" ELSE "select")
    /\ UNCHANGED <<pendingUpdate, cmd, strays, faults>>

\* Mutant: the ticker restarts without looking at the process.
MonitorTickBlind(k) ==
    /\ monitor[k] = "select"
    /\ MonitorGoes(k, "starting")
    /\ UNCHANGED <<r, pendingUpdate, cmd, strays, faults>>

\* case <-tickerProcess.C finds a dead process.
MonitorTick(k) ==
    /\ monitor[k] = "select"
    /\ cmd[k] # "alive"
    /\ MonitorGoes(k, "starting")
    /\ UNCHANGED <<r, pendingUpdate, cmd, strays, faults>>

MonitorStarts(k) ==
    /\ monitor[k] = "starting"
    /\ startDnsmasq(k)
    /\ MonitorGoes(k, "notify")
    /\ UNCHANGED <<r, pendingUpdate, faults>>

MonitorStartFails(k) ==
    /\ monitor[k] = "starting"
    /\ Fault
    /\ MonitorGoes(k, "select")
    /\ UNCHANGED <<r, pendingUpdate, cmd, strays>>

MonitorNotify(k) ==
    /\ monitor[k] = "notify"
    /\ NotifyStatus(k)
    /\ MonitorGoes(k, "select")
    /\ UNCHANGED <<r, cmd, strays, faults>>

ProcessDies(k) ==
    /\ cmd[k] = "alive"
    /\ Fault
    /\ cmd' = [cmd EXCEPT ![k] = "dead"]
    /\ UNCHANGED <<subnet, mgrVars, spec, closed, worker, pendingUpdate, monitor,
                   strays, changes>>

-----------------------------------------------------------------------------
ReconcileNext ==
    \/ ReconcileBegin \/ ReconcileNotFound \/ ReconcileGetFails
    \/ ReconcileUnchanged \/ ReconcileNew \/ UpdateService
    \/ ReconcileRun \/ ReconcileInsert \/ ReconcileSet
    \/ StopClose \/ StopKill \/ ReconcileUnlist

ElectNext ==
    ElectList \/ ElectListFails \/ ElectSkip \/ ElectNew \/ ElectRun \/ ElectInsert

WorkerNext(k) == WorkerExit(k) \/ WorkerTick(k) \/ WorkerUpdated(k)

MonitorNext(k) ==
    \/ MonitorExit(k) \/ MonitorEvent(k) \/ MonitorRestartCh(k) \/ MonitorTick(k)
    \/ MonitorStarts(k) \/ MonitorStartFails(k) \/ MonitorNotify(k)

Next ==
    \/ WriteSubnet \/ DeleteSubnet
    \/ ReconcileNext \/ ElectNext
    \/ \E k \in Servers : WorkerNext(k) \/ MonitorNext(k) \/ ProcessDies(k)

Spec == Init /\ [][Next]_vars

-----------------------------------------------------------------------------
(***************************************************************************)
(* Properties                                                              *)
(***************************************************************************)

\* The server found in dhcpServerList can be talked to: its worker and its
\* monitor run and its stopCh is open, except while Reconcile, which stops
\* it, has not yet taken it off the list. A send to another server would
\* block Reconcile or processBindingIpEvents for ever. And no server is
\* stopped twice: closing stopCh again is a panic that takes the agent down.
ListedServerRuns ==
    LET k == dhcpServerList IN
    /\ (k # NoServer /\ ~(r.server = k /\ r.pc \in {"kill", "unlist"})) =>
          /\ closed[k] = 0
          /\ worker[k] \in {"select", "busy"}
          /\ monitor[k] \in {"select", "starting", "notify", "failed"}
    /\ \A s \in Servers : closed[s] <= 1

\* A server never has two live dnsmasq processes: a new one is started only
\* when the one before is dead.
OneProcess == \A k \in Servers : strays[k] = 0

\* What SubnetCache calls known has reached the listed server: no change of
\* the spec is taken for applied when it is not, so none is skipped by
\* HasSpecChanged.
KnownIsApplied ==
    (known # Absent /\ r.pc \notin {"update", "set"}) =>
        dhcpServerList # NoServer /\ spec[dhcpServerList] = known

\* The Subnet never has two servers at work: one is started only when the
\* check in SetupWithManager, or the one in Reconcile, finds none.
AtMostOneServer ==
    Cardinality({k \in Servers :
        closed[k] = 0 /\ monitor[k] \in {"select", "starting", "notify"}}) <= 1

-----------------------------------------------------------------------------
(***************************************************************************)
(* Fairness: each goroutine that can take a step does (WF), and a monitor  *)
(* that comes back to its select again and again while the stop, ticker or *)
(* restart branch is ready takes such a branch at some time, since select  *)
(* picks at random (SF). Users, faults and lease events owe nothing.       *)
(***************************************************************************)
MonitorSelects(k) == MonitorExit(k) \/ MonitorTick(k) \/ MonitorRestartCh(k)

Fairness ==
    /\ WF_vars(ReconcileNext)
    /\ WF_vars(ElectNext)
    /\ \A k \in Servers :
          /\ WF_vars(WorkerNext(k))
          /\ SF_vars(MonitorSelects(k))
          /\ WF_vars(MonitorStarts(k) \/ MonitorNotify(k))

FairSpec == Spec /\ Fairness

\* A monitor that could not watch its lease file has given up.
MonitorGaveUp == \E k \in Servers : monitor[k] = "failed"

\* Reconcile needs one more server than this instance has.
BoundReached == created = MaxServers /\ r.pc = "get"

\* The servers follow the Subnet: when users and faults have stopped, a
\* Subnet has a server, with the last spec and a live dnsmasq, however often
\* that died, and a deleted Subnet has none.
\* (A monitor that gave up leaves Reconcile waiting in UpdateService.)
Converges ==
    <>[](\/ MonitorGaveUp
         \/ BoundReached
         \/ subnet = Absent /\ dhcpServerList = NoServer
         \/ /\ subnet # Absent
            /\ dhcpServerList # NoServer
            /\ spec[dhcpServerList] = subnet
            /\ cmd[dhcpServerList] = "alive")

=============================================================================
