---------------------------- MODULE SubnetStatus ----------------------------
(***************************************************************************)
(* The status of one Subnet: how many of its addresses are free, who holds *)
(* the others and on which node its DHCP server runs.                      *)
(*                                                                         *)
(* The monitor of the server changes the tables of leases and bindings and *)
(* then sends on statusUpdateCh, which is unbuffered; statusUpdateWorker   *)
(* notes the signal and, once a second, writes the status it computes from *)
(* the tables into a copy of the object it gets from the informer cache.   *)
(* It reads the tables and writes to the API server under one read lock of *)
(* lockData. MAC addresses and host names of the clients are left out.     *)
(***************************************************************************)
EXTENDS IpRange

CONSTANTS Ranges,      \* the ranges spec.ipv4Subnet.ipRange has in turn
          Clients,     \* addresses that are leased or bound
          Nodes,       \* nodes the agent may run on
          None,
          Word,        \* 2^64: the amounts are unsigned and wrap
          Steps,       \* attempts of updateSubnetWithRetry: 5
          MaxChanges,  \* changes of leases and bindings
          MaxFaults,   \* failed requests, failed starts
          MaxRestarts  \* restarts of the agent

\* What ValidateIPRange of the webhook lets through.
WellFormed(ipRange) ==
    \A i \in DOMAIN ipRange : LET r == ipRange[i] IN Len(r) \in {1, 2} /\ Start(r) <= End(r)

ASSUME StatusAssumption ==
    /\ Ranges \in Seq(Seq(Seq(IPs))) /\ Ranges # <<>>
    /\ \A i \in DOMAIN Ranges : WellFormed(Ranges[i])
    /\ Clients \subseteq IPs
    /\ None \notin Nodes
    /\ {Word, Steps} \subseteq Nat \ {0} /\ AddressSpace < Word
    /\ {MaxChanges, MaxFaults, MaxRestarts} \subseteq Nat

VARIABLES
    object,      \* API server: version, index of the range, status
    seen,        \* informer cache
    leaseFile,   \* addresses in the lease file of dnsmasq
    node,        \* the node the agent runs on
    up,          \* the server runs
    range,       \* s.subnet: index of its range
    leases,      \* s.currentLeaseClients
    bound,       \* s.currentManualBindingClients
    monitor,     \* "select", or "notify": blocked on statusUpdateCh
    restartCh,   \* UpdateService is blocked on restartCh
    worker,      \* statusUpdateWorker
    pendingUpdate,
    missed,      \* a change of the tables went unnoticed, or an update of
                 \* the status was given up or taken for needless
    changes, faults, restarts

tables == <<range, leases, bound>>
serverVars == <<tables, monitor, restartCh, worker, pendingUpdate>>
vars == <<object, seen, leaseFile, node, up, serverVars, missed,
          changes, faults, restarts>>

NoStatus == [total |-> 0, available |-> 0, active |-> 0, bind |-> 0,
             details |-> {}, hostNode |-> None, conditions |-> 0]
Idle == [pc |-> "select", tries |-> 0, updated |-> None]

Init ==
    /\ object = [version |-> 1, range |-> 1, status |-> NoStatus]
    /\ seen = object
    /\ leaseFile = {}
    /\ node \in Nodes
    /\ up = FALSE
    /\ range = 1
    /\ leases = {}
    /\ bound = {}
    /\ monitor = "select"
    /\ restartCh = FALSE
    /\ worker = Idle
    /\ pendingUpdate = FALSE
    /\ missed = FALSE
    /\ changes = 0
    /\ faults = 0
    /\ restarts = 0

Fault == faults < MaxFaults /\ faults' = faults + 1
Change == changes < MaxChanges /\ changes' = changes + 1

-----------------------------------------------------------------------------
(* The status that goes with the tables                                      *)

\* updateClientFunc: one entry for each address, whether it is bound, leased
\* or both.
Details == {[ip |-> a, isBound |-> a \in bound, isAllocated |-> a \in leases]
               : a \in bound \cup leases}

\* Mutant: an address that is bound and leased counts twice.
CountEach == Cardinality(bound) + Cardinality(leases)

usedIpAmount == Cardinality(Details)

\* What updateSubnetWithRetry makes of status st: a host node that differs
\* is replaced and one more condition of type DhcpServer appended.
Updated(st) ==
    LET totalIPs == CountIPsInRange(Ranges[range]) IN
    [total |-> totalIPs,
     available |-> (totalIPs - usedIpAmount) % Word,
     active |-> Cardinality(leases),
     bind |-> Cardinality(bound),
     details |-> Details,
     hostNode |-> node,
     conditions |-> IF st.hostNode = node THEN st.conditions ELSE st.conditions + 1]

Current == object.status = Updated(object.status)

\* Status().Update of the API server: the version has to be the stored one,
\* and conditions is a list with one element for each type.
Conflict(o) == o.version # object.version
Invalid(o) == o.status.conditions > 1
Store(o) == object' = [object EXCEPT !.version = @ + 1, !.status = o.status]

-----------------------------------------------------------------------------
(* Users, dnsmasq, informer                                                  *)

ExpandRange ==
    /\ object.range < Len(Ranges)
    /\ object' = [object EXCEPT !.version = @ + 1, !.range = @ + 1]
    /\ UNCHANGED <<seen, leaseFile, node, up, serverVars, missed, changes, faults, restarts>>

\* An address of the range, or a bound one, is leased, or a lease ends.
Lease(a) ==
    /\ up
    /\ Change
    /\ \/ a \in leaseFile /\ leaseFile' = leaseFile \ {a}
       \/ /\ a \notin leaseFile
          /\ IsIPInRange(a, Ranges[range]) \/ a \in bound
          /\ leaseFile' = leaseFile \cup {a}
    /\ UNCHANGED <<object, seen, node, up, serverVars, missed, faults, restarts>>

Observe ==
    /\ seen # object
    /\ seen' = object
    /\ UNCHANGED <<object, leaseFile, node, up, serverVars, missed, changes, faults, restarts>>

-----------------------------------------------------------------------------
(* Start and end of the server                                               *)

\* Run: leases are read from the file, the bindings will be announced anew,
\* and startDnsmasq sends the first signal.
Run ==
    /\ ~up
    /\ up' = TRUE
    /\ range' = seen.range
    /\ leases' = leaseFile
    /\ monitor' = "notify"
    /\ UNCHANGED <<object, seen, leaseFile, node, bound, restartCh, worker, pendingUpdate,
                   missed, changes, faults, restarts>>

\* Run fails: UpdateSubnetStatus appends a condition to the object Reconcile
\* has read. When that is refused Reconcile is called again.
RunFails ==
    /\ ~up
    /\ Fault
    /\ LET updated == [seen EXCEPT !.status.conditions = @ + 1] IN
       IF Conflict(updated) \/ Invalid(updated) THEN UNCHANGED object ELSE Store(updated)
    /\ UNCHANGED <<seen, leaseFile, node, up, serverVars, missed, changes, restarts>>

\* The agent ends, here or by the write to a map another goroutine reads
\* (BindingDeleted), and is started on some node.
Restart(n) ==
    /\ restarts < MaxRestarts
    /\ restarts' = restarts + 1
    /\ node' = n
    /\ up' = FALSE
    /\ seen' = object
    /\ leases' = {}
    /\ bound' = {}
    /\ monitor' = "select"
    /\ restartCh' = FALSE
    /\ worker' = Idle
    /\ pendingUpdate' = FALSE
    /\ missed' = FALSE
    /\ UNCHANGED <<object, leaseFile, range, changes, faults>>

-----------------------------------------------------------------------------
(* monitor and UpdateService                                                 *)

\* lockData.Lock(): the worker holds the read lock from its Get to the
\* answer to its update.
CanLock == worker.pc # "write"

\* The hosts file was written and dnsmasq signalled, or one of the two
\* failed and the monitor goes on without a signal.
Reloaded ==
    \/ monitor' = "notify" /\ UNCHANGED <<missed, faults>>
    \/ Fault /\ missed' = TRUE /\ UNCHANGED monitor

\* Mutant: the table of leases is replaced without the lock.
LeaseEventUnlocked ==
    /\ up /\ monitor = "select"
    /\ leases # leaseFile
    /\ leases' = leaseFile
    /\ monitor' = "notify"
    /\ UNCHANGED <<object, seen, leaseFile, node, up, range, bound, restartCh, worker,
                   pendingUpdate, missed, changes, faults, restarts>>

LeaseEvent ==
    /\ up /\ monitor = "select"
    /\ leases # leaseFile
    /\ CanLock
    /\ leases' = leaseFile
    /\ monitor' = "notify"
    /\ UNCHANGED <<object, seen, leaseFile, node, up, range, bound, restartCh, worker,
                   pendingUpdate, missed, changes, faults, restarts>>

BindingAdded(a) ==
    /\ up /\ monitor = "select"
    /\ Change
    /\ a \notin bound
    /\ CanLock
    /\ bound' = bound \cup {a}
    /\ Reloaded
    /\ UNCHANGED <<object, seen, leaseFile, node, up, range, leases, restartCh, worker,
                   pendingUpdate, restarts>>

\* The entry is deleted without the lock.
BindingDeleted(a) ==
    /\ up /\ monitor = "select"
    /\ Change
    /\ a \in bound
    /\ bound' = bound \ {a}
    /\ Reloaded
    /\ UNCHANGED <<object, seen, leaseFile, node, up, range, leases, restartCh, worker,
                   pendingUpdate, restarts>>

UpdateService ==
    /\ up /\ ~restartCh
    /\ seen.range # range
    /\ CanLock
    /\ range' = seen.range
    /\ restartCh' = TRUE
    /\ UNCHANGED <<object, seen, leaseFile, node, up, leases, bound, monitor, worker,
                   pendingUpdate, missed, changes, faults, restarts>>

\* case <-s.restartCh: the configuration is generated, which reads the lease
\* file too, and dnsmasq signalled.
RestartEvent ==
    /\ monitor = "select"
    /\ restartCh
    /\ CanLock
    /\ restartCh' = FALSE
    /\ leases' = leaseFile
    /\ Reloaded
    /\ UNCHANGED <<object, seen, leaseFile, node, up, range, bound, worker, pendingUpdate,
                   changes, restarts>>

-----------------------------------------------------------------------------
(* statusUpdateWorker                                                        *)

\* Mutant: a signal the worker is not waiting for is dropped.
SignalOrDrop ==
    /\ monitor = "notify"
    /\ monitor' = "select"
    /\ pendingUpdate' = (pendingUpdate \/ worker.pc = "select")
    /\ UNCHANGED <<object, seen, leaseFile, node, up, tables, restartCh, worker, missed,
                   changes, faults, restarts>>

\* s.statusUpdateCh <- struct{}{} meets the select of the worker.
Signal ==
    /\ monitor = "notify"
    /\ worker.pc = "select"
    /\ monitor' = "select"
    /\ pendingUpdate' = TRUE
    /\ UNCHANGED <<object, seen, leaseFile, node, up, tables, restartCh, worker, missed,
                   changes, faults, restarts>>

Tick ==
    /\ worker.pc = "select"
    /\ pendingUpdate
    /\ worker' = [Idle EXCEPT !.pc = "read"]
    /\ UNCHANGED <<object, seen, leaseFile, node, up, tables, monitor, restartCh,
                   pendingUpdate, missed, changes, faults, restarts>>

\* updateSubnetWithRetry returns; lost says whether the status it should
\* have written is missing. The worker forgets the signal either way.
Return(lost) ==
    /\ worker' = Idle
    /\ pendingUpdate' = FALSE
    /\ UNCHANGED <<seen, leaseFile, node, up, tables, monitor, restartCh, changes, restarts>>
    /\ missed' = (lost \/ (missed /\ ~Current'))

ReadFails ==
    /\ worker.pc = "read"
    /\ Fault
    /\ UNCHANGED object
    /\ Return(TRUE)

\* The status of the copy in the informer cache is the one wanted: nothing
\* is written.
Skip ==
    /\ worker.pc = "read"
    /\ seen.status = Updated(seen.status)
    /\ UNCHANGED <<object, faults>>
    /\ Return(object.status # seen.status)

Read ==
    /\ worker.pc = "read"
    /\ seen.status # Updated(seen.status)
    /\ worker' = [worker EXCEPT !.pc = "write",
                                !.updated = [seen EXCEPT !.status = Updated(seen.status)]]
    /\ UNCHANGED <<object, seen, leaseFile, node, up, tables, monitor, restartCh,
                   pendingUpdate, missed, changes, faults, restarts>>

Write ==
    /\ worker.pc = "write"
    /\ ~Conflict(worker.updated) /\ ~Invalid(worker.updated)
    /\ Store(worker.updated)
    /\ UNCHANGED faults
    /\ Return(FALSE)

\* Mutant: one attempt too many.
WriteConflictsOnceMore ==
    /\ worker.pc = "write"
    /\ Conflict(worker.updated)
    /\ UNCHANGED <<object, faults>>
    /\ IF worker.tries < Steps
       THEN /\ worker' = [pc |-> "read", tries |-> worker.tries + 1, updated |-> None]
            /\ UNCHANGED <<seen, leaseFile, node, up, tables, monitor, restartCh,
                           pendingUpdate, missed, changes, restarts>>
       ELSE Return(TRUE)

\* A conflict is tried again, from the Get on, while attempts are left.
WriteConflicts ==
    /\ worker.pc = "write"
    /\ Conflict(worker.updated)
    /\ UNCHANGED <<object, faults>>
    /\ IF worker.tries + 1 < Steps
       THEN /\ worker' = [pc |-> "read", tries |-> worker.tries + 1, updated |-> None]
            /\ UNCHANGED <<seen, leaseFile, node, up, tables, monitor, restartCh,
                           pendingUpdate, missed, changes, restarts>>
       ELSE Return(TRUE)

\* Any other error ends the update.
WriteFails ==
    /\ worker.pc = "write"
    /\ \/ ~Conflict(worker.updated) /\ Invalid(worker.updated) /\ UNCHANGED faults
       \/ Fault
    /\ UNCHANGED object
    /\ Return(TRUE)

-----------------------------------------------------------------------------
MonitorNext == LeaseEvent \/ RestartEvent \/ \E a \in Clients : BindingAdded(a) \/ BindingDeleted(a)
WorkerNext == Tick \/ ReadFails \/ Skip \/ Read \/ Write \/ WriteConflicts \/ WriteFails

Next ==
    \/ ExpandRange \/ Observe \/ Run \/ RunFails \/ UpdateService \/ Signal
    \/ MonitorNext \/ WorkerNext
    \/ \E a \in Clients : Lease(a)
    \/ \E n \in Nodes : Restart(n)

Spec == Init /\ [][Next]_vars

\* The informer catches up, Reconcile is called until the server runs, and
\* the goroutines of the server take the steps they can. A select that is
\* ready for a signal, the ticker and more picks each in the end (SF).
FairSpec ==
    /\ Spec
    /\ WF_vars(Observe) /\ WF_vars(Run) /\ WF_vars(UpdateService)
    /\ SF_vars(RestartEvent) /\ SF_vars(Signal) /\ WF_vars(WorkerNext)

-----------------------------------------------------------------------------
(***************************************************************************)
(* Properties                                                              *)
(***************************************************************************)

StatusWith(conditions) ==
    [total: Nat, available: 0..(Word - 1), active: Nat, bind: Nat,
     details: SUBSET [ip: Clients, isBound: BOOLEAN, isAllocated: BOOLEAN],
     hostNode: Nodes \cup {None}, conditions: conditions]
StatusType == StatusWith({0, 1})

\* A copy of the object with the status computed for it.
Copies == [version: Nat, range: DOMAIN Ranges, status: StatusWith(0..2)]

ASSUME NoneAssumption == None \notin Copies

\* The stored object never holds two conditions of one type; the worker
\* keeps an object to write only while it holds the lock.
TypeOK ==
    /\ object.status \in StatusType
    /\ seen.version <= object.version
    /\ range \in 1..object.range
    /\ leases \cup bound \subseteq Clients
    /\ worker.pc \in {"select", "read", "write"}
    /\ worker.pc = "write" <=> worker.updated # None
    /\ worker.tries < Steps
    /\ worker.pc # "select" => pendingUpdate /\ up

\* The amounts are those of a range the Subnet has had: if its parts do not
\* overlap and hold all the clients, the total is the number of its
\* addresses and available the number of those nobody holds. Outside that
\* case available may wrap around.
AmountsExact ==
    object.status.hostNode # None =>
        \E i \in 1..object.range :
            LET all == Covered(Ranges[i])
                used == {d.ip : d \in object.status.details} IN
            /\ object.status.total = CountIPsInRange(Ranges[i])
            /\ (Plain(Ranges[i]) /\ used \subseteq all) =>
                  /\ object.status.total = Cardinality(all)
                  /\ object.status.available = Cardinality(all \ used)

\* What the worker stores is what the tables hold at that moment: a status
\* that took several attempts is not older than the last of them. Only a
\* binding whose entry is deleted without the lock may still be in it.
WriteIsFresh ==
    [][(worker.pc = "write" /\ object'.status # object.status) =>
          /\ {d.ip : d \in {x \in object'.status.details : x.isAllocated}} = leases
          /\ bound \subseteq {d.ip : d \in {x \in object'.status.details : x.isBound}}]_vars

\* When leases, bindings and spec have come to rest the status says what the
\* tables hold, except after an update that was given up, taken for needless
\* because of a cached copy, or never signalled.
StatusFollows == <>[](up => Current \/ missed)

\* "the name of the node who hosts the subnet": hostNode ends up as the node
\* the server runs on.
HostNodeFollows == <>[](up => object.status.hostNode = node)

=============================================================================
