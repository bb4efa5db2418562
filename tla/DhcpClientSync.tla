--------------------------- MODULE DhcpClientSync ---------------------------
(***************************************************************************)
(* From the lease file of a DHCP server to the RedfishStatus and BindingIp *)
(* objects of its clients. The monitor of the server compares the lease    *)
(* file with the leases it knows and reports what changed over two         *)
(* channels, one for added and changed clients, one for vanished ones.     *)
(* processDHCPEvents receives from both and writes the objects; a report   *)
(* that meets a conflict is sent again by a goroutine of its own.          *)
(*                                                                         *)
(* Objects are read through the informer cache of the manager's client and *)
(* written with a check of their resourceVersion. Other writers are        *)
(* UpdateRedfishStatusInfo, users and the garbage collector. The agent may *)
(* restart at any time.                                                    *)
(***************************************************************************)
EXTENDS Naturals, Sequences, FiniteSets

CONSTANTS IPs,        \* addresses; the objects of a client are named after it
          Leases,     \* what a line of the lease file says of an address
          None,       \* no lease, no object, nil
          Cap,        \* capacity of the two channels
          MaxChanges, \* bound on what clients and users change
          MaxFaults   \* bound on failed calls, restarts and rival writes

ASSUME SyncAssumption ==
    /\ \A l \in Leases : DOMAIN l = {"mac", "hostname", "expire"}
    /\ None \notin Leases
    /\ Cap \in Nat \ {0}
    /\ MaxChanges \in Nat
    /\ MaxFaults \in Nat

Nothing == [i \in IPs |-> None]

VARIABLES
    lease,     \* dnsmasq: the leases it has given
    file,      \* the lease file
    dirty,     \* a file event, or a change of the Subnet, awaits the monitor
    feature,   \* spec.feature.syncRedfishstatus of s.subnet
    known,     \* currentLeaseClients
    mon,       \* processDhcpLease, run by the monitor
    addChan, deleteChan,
    timers,    \* reports to be sent again
    w,         \* processDHCPEvents
    obj,       \* API server: the RedfishStatus of an address
    bound,     \* API server: the BindingIp of an address
    rev,       \* API server: last resourceVersion given to a RedfishStatus
    seen, seenBound,  \* informer caches of obj and bound
    changes, faults,
    told,      \* history: the last report sent about an address
    settled,   \* history: the report the objects were last brought in line with
    gap        \* history: addresses with a change that was not reported

dhcpVars == <<lease, file, feature>>
srvVars == <<dirty, known, mon, told, gap>>
chanVars == <<addChan, deleteChan, timers>>
apiVars == <<obj, bound, rev>>
cacheVars == <<seen, seenBound>>
vars == <<dhcpVars, srvVars, chanVars, w, apiVars, cacheVars, changes, faults, settled>>

MonIdle == [pc |-> "idle", up |-> TRUE, new |-> Nothing, adds |-> {}, dels |-> {}]
Boot == [MonIdle EXCEPT !.up = FALSE]  \* dnsmasq has not been started
Idle == [pc |-> "idle", ev |-> None, uid |-> 0, stale |-> FALSE]
NoReport == [kind |-> "none", ip |-> None, n |-> 0, lease |-> None, bind |-> FALSE]

Elems(s) == {s[k] : k \in DOMAIN s}

\* Reports about i that have not been handled.
Pending(i) == {e \in Elems(addChan) \cup Elems(deleteChan) \cup timers : e.ip = i}
              \cup (IF w.ev # None /\ w.ev.ip = i THEN {w.ev} ELSE {})

-----------------------------------------------------------------------------
(* Clients, users and dnsmasq *)

Change == changes < MaxChanges /\ changes' = changes + 1
Fault == faults < MaxFaults /\ faults' = faults + 1

\* dnsmasq gives, renews or drops a lease. It empties the file, then writes
\* it: the monitor may read it in between.
LeaseChange(i, l) ==
    /\ Change
    /\ mon.up
    /\ file = lease
    /\ l # lease[i]
    /\ lease' = [lease EXCEPT ![i] = l]
    /\ file' = Nothing
    /\ dirty' = TRUE
    /\ UNCHANGED <<feature, known, mon, told, gap, chanVars, w, apiVars, cacheVars,
                   faults, settled>>

LeaseFlush ==
    /\ file # lease
    /\ file' = lease
    /\ dirty' = TRUE
    /\ UNCHANGED <<lease, feature, known, mon, told, gap, chanVars, w, apiVars,
                   cacheVars, changes, faults, settled>>

\* UpdateService replaces s.subnet under lockData and asks for a reload.
UpdateService(f) ==
    /\ Change
    /\ mon = MonIdle
    /\ f # feature
    /\ feature' = f
    /\ dirty' = TRUE
    /\ UNCHANGED <<lease, file, known, mon, told, gap, chanVars, w, apiVars, cacheVars,
                   faults, settled>>

\* A user deletes the RedfishStatus.
DeleteObject(i) ==
    /\ Change
    /\ obj[i] # None
    /\ obj' = [obj EXCEPT ![i] = None]
    /\ settled' = [settled EXCEPT ![i] = 0]
    /\ w' = [w EXCEPT !.stale = @ \/ (w.pc # "idle" /\ w.ev.ip = i)]
    /\ UNCHANGED <<dhcpVars, srvVars, chanVars, bound, rev, cacheVars, faults>>

-----------------------------------------------------------------------------
(* processDhcpLease *)

\* Mutant: the expiry is not compared.
ChangedNoExpiry(i) ==
    /\ known[i] # None
    /\ file[i] # None
    /\ known[i].mac # file[i].mac \/ known[i].hostname # file[i].hostname

\* Differences between the file and currentLeaseClients.
Changed(i) == known[i] # None /\ file[i] # None /\ known[i] # file[i]
Appeared(i) == known[i] = None /\ file[i] # None
Vanished(i) == known[i] # None /\ file[i] = None

\* It reads the file, takes lockData and sends the reports with it held.
ScanLeases ==
    /\ mon.pc = "idle"
    /\ dirty
    /\ dirty' = FALSE
    /\ LET on == feature # "off"
       IN  /\ mon' = [pc |-> "send", up |-> mon.up, new |-> file,
                      adds |-> {i \in IPs : on /\ (Appeared(i) \/ Changed(i))},
                      dels |-> {i \in IPs : on /\ Vanished(i)}]
           /\ gap' = IF on THEN gap
                     ELSE gap \cup {i \in IPs : Appeared(i) \/ Changed(i) \/ Vanished(i)}
    /\ UNCHANGED <<dhcpVars, known, told, chanVars, w, apiVars, cacheVars, changes,
                   faults, settled>>

\* The file cannot be read: the monitor goes on; a server that was starting
\* is started again by a later reconcile.
ScanFails ==
    /\ Fault
    /\ mon.pc = "idle"
    /\ dirty
    /\ dirty' = ~mon.up
    /\ gap' = gap \cup {i \in IPs : file[i] # known[i]}
    /\ UNCHANGED <<dhcpVars, known, mon, told, chanVars, w, apiVars, cacheVars, changes,
                   settled>>

Report(k, i, l) == [kind |-> k, ip |-> i, n |-> told[i].n + 1, lease |-> l,
                    bind |-> feature = "bind"]

\* Mutant: the channel has no bound.
SendAddUnbounded(i) ==
    /\ mon.pc = "send"
    /\ i \in mon.adds
    /\ addChan' = Append(addChan, Report("add", i, mon.new[i]))
    /\ told' = [told EXCEPT ![i] = Report("add", i, mon.new[i])]
    /\ gap' = gap \ {i}
    /\ mon' = [mon EXCEPT !.adds = @ \ {i}]
    /\ UNCHANGED <<dhcpVars, dirty, known, deleteChan, timers, w, apiVars, cacheVars,
                   changes, faults, settled>>

SendAdd(i) ==
    /\ mon.pc = "send"
    /\ i \in mon.adds
    /\ Len(addChan) < Cap
    /\ addChan' = Append(addChan, Report("add", i, mon.new[i]))
    /\ told' = [told EXCEPT ![i] = Report("add", i, mon.new[i])]
    /\ gap' = gap \ {i}
    /\ mon' = [mon EXCEPT !.adds = @ \ {i}]
    /\ UNCHANGED <<dhcpVars, dirty, known, deleteChan, timers, w, apiVars, cacheVars,
                   changes, faults, settled>>

SendDelete(i) ==
    /\ mon.pc = "send"
    /\ mon.adds = {}
    /\ i \in mon.dels
    /\ Len(deleteChan) < Cap
    /\ deleteChan' = Append(deleteChan, Report("delete", i, known[i]))
    /\ told' = [told EXCEPT ![i] = Report("delete", i, known[i])]
    /\ gap' = gap \ {i}
    /\ mon' = [mon EXCEPT !.dels = @ \ {i}]
    /\ UNCHANGED <<dhcpVars, dirty, known, addChan, timers, w, apiVars, cacheVars,
                   changes, faults, settled>>

ScanDone ==
    /\ mon.pc = "send"
    /\ mon.adds = {}
    /\ mon.dels = {}
    /\ known' = mon.new
    /\ mon' = MonIdle
    /\ UNCHANGED <<dhcpVars, dirty, told, gap, chanVars, w, apiVars, cacheVars, changes,
                   faults, settled>>

-----------------------------------------------------------------------------
(* processDHCPEvents *)

\* The select takes from either channel.
TakeAdd ==
    /\ w.pc = "idle"
    /\ addChan # <<>>
    /\ w' = [Idle EXCEPT !.pc = "add", !.ev = Head(addChan)]
    /\ addChan' = Tail(addChan)
    /\ UNCHANGED <<dhcpVars, srvVars, deleteChan, timers, apiVars, cacheVars, changes,
                   faults, settled>>

TakeDelete ==
    /\ w.pc = "idle"
    /\ deleteChan # <<>>
    /\ w' = [Idle EXCEPT !.pc = "delete", !.ev = Head(deleteChan)]
    /\ deleteChan' = Tail(deleteChan)
    /\ UNCHANGED <<dhcpVars, srvVars, addChan, timers, apiVars, cacheVars, changes,
                   faults, settled>>

\* Mutant: the goroutine sends the report again and again.
RetryTicks(e) ==
    /\ e \in timers
    /\ \/ /\ e.kind = "add"
          /\ Len(addChan) < Cap
          /\ addChan' = Append(addChan, e)
          /\ UNCHANGED deleteChan
       \/ /\ e.kind = "delete"
          /\ Len(deleteChan) < Cap
          /\ deleteChan' = Append(deleteChan, e)
          /\ UNCHANGED addChan
    /\ UNCHANGED <<dhcpVars, srvVars, timers, w, apiVars, cacheVars, changes, faults, settled>>

\* The goroutine of a retry sends the report when its delay is over and
\* the channel has room.
RetryFires(e) ==
    /\ e \in timers
    /\ timers' = timers \ {e}
    /\ \/ /\ e.kind = "add"
          /\ Len(addChan) < Cap
          /\ addChan' = Append(addChan, e)
          /\ UNCHANGED deleteChan
       \/ /\ e.kind = "delete"
          /\ Len(deleteChan) < Cap
          /\ deleteChan' = Append(deleteChan, e)
          /\ UNCHANGED addChan
    /\ UNCHANGED <<dhcpVars, srvVars, w, apiVars, cacheVars, changes, faults, settled>>

\* A handler returns nil. n is the report the objects now agree with, 0 if
\* the handler left its work undone or decided on an outdated copy.
Return(n) ==
    /\ w' = Idle
    /\ settled' = [settled EXCEPT ![w.ev.ip] = IF w.stale THEN 0 ELSE n]
    /\ UNCHANGED <<timers, obj, rev>>

\* A handler returns an error; shouldRetry tells which are retried.
ReturnError(err) ==
    /\ w' = Idle
    /\ settled' = [settled EXCEPT ![w.ev.ip] = 0]
    /\ timers' = IF err = "retry" THEN timers \cup {w.ev} ELSE timers
    /\ UNCHANGED <<obj, rev>>

\* What no step of a handler changes.
handlerFrame == <<dhcpVars, srvVars, addChan, deleteChan, cacheVars, changes>>

\* What the API server stores of a RedfishStatus: uid and resourceVersion,
\* whether status.basic was written, and the fields that follow the lease.
Created(i) == [uid |-> rev[i] + 1, rv |-> rev[i] + 1, filled |-> FALSE, mac |-> None,
               expire |-> None, active |-> FALSE, label |-> "none"]

Store(i, o) ==
    /\ rev' = [rev EXCEPT ![i] = @ + 1]
    /\ obj' = [obj EXCEPT ![i] = [o EXCEPT !.rv = rev[i] + 1]]

\* The API server accepts a write of a copy that has the current
\* resourceVersion; it answers NotFound or Conflict otherwise.
Writable(i, rv) == obj[i] # None /\ obj[i].rv = rv
Refusal(i) == IF obj[i] = None THEN "other" ELSE "retry"

\* The owner of the BindingIp of i is there.
Owned(i) == obj[i] # None /\ bound[i].owner = obj[i].uid

\* A call of a handler to the API server fails. The caller of
\* createBindingIpForredfishstatus wraps the error: it is not retried.
CallFails ==
    /\ Fault
    /\ w.pc # "idle"
    /\ \/ w.pc # "bind" /\ \E err \in {"retry", "other"} : ReturnError(err)
       \/ w.pc = "bind" /\ w.ev.bind /\ ReturnError("other")
    /\ UNCHANGED <<handlerFrame, bound>>

\* handleDHCPAdd when the object exists: these two fields are kept up.
Updated(i) == [seen[i] EXCEPT !.mac = w.ev.lease.mac, !.expire = w.ev.lease.expire]

AddUnchanged ==
    LET i == w.ev.ip
    IN  /\ w.pc = "add"
        /\ seen[i] # None
        /\ Updated(i) = seen[i]
        /\ w' = [w EXCEPT !.pc = "bind", !.uid = seen[i].uid, !.stale = @ \/ seen[i] # obj[i]]
        /\ UNCHANGED <<handlerFrame, timers, apiVars, faults, settled>>

AddUpdate ==
    LET i == w.ev.ip
    IN  /\ w.pc = "add"
        /\ seen[i] # None
        /\ Updated(i) # seen[i]
        /\ \/ /\ Writable(i, seen[i].rv)
              /\ Store(i, Updated(i))
              /\ w' = [w EXCEPT !.pc = "bind", !.uid = seen[i].uid]
              /\ UNCHANGED <<timers, settled>>
           \/ /\ ~Writable(i, seen[i].rv)
              /\ ReturnError(Refusal(i))
        /\ UNCHANGED <<handlerFrame, bound, faults>>

\* handleDHCPAdd when there is no object: the BMC must answer first.
AddConnect ==
    /\ w.pc = "add"
    /\ seen[w.ev.ip] = None
    /\ \/ /\ w' = [w EXCEPT !.pc = "create"]
          /\ UNCHANGED <<timers, obj, rev, settled>>
       \/ Return(0)
    /\ UNCHANGED <<handlerFrame, bound, faults>>

\* AlreadyExists is not retried.
AddCreate ==
    LET i == w.ev.ip
    IN  /\ w.pc = "create"
        /\ \/ /\ obj[i] = None
              /\ Store(i, Created(i))
              /\ w' = [w EXCEPT !.pc = "fill", !.uid = rev[i] + 1]
              /\ UNCHANGED <<timers, settled>>
           \/ /\ obj[i] # None
              /\ ReturnError("other")
        /\ UNCHANGED <<handlerFrame, bound, faults>>

\* The status subresource ignores the labels that are set here.
AddFill ==
    LET i == w.ev.ip
    IN  /\ w.pc = "fill"
        /\ \/ /\ Writable(i, w.uid)
              /\ Store(i, [obj[i] EXCEPT !.filled = TRUE, !.mac = w.ev.lease.mac,
                                         !.expire = w.ev.lease.expire, !.active = TRUE])
              /\ w' = [w EXCEPT !.pc = "bind"]
              /\ UNCHANGED <<timers, settled>>
           \/ /\ ~Writable(i, w.uid)
              /\ ReturnError(Refusal(i))
        /\ UNCHANGED <<handlerFrame, bound, faults>>

\* createBindingIpForredfishstatus. A BindingIp of the address that the
\* cache has, with this MAC or another, is left alone.
BindNothing ==
    LET i == w.ev.ip
        lasting == bound[i] # None /\ Owned(i)
    IN  /\ w.pc = "bind"
        /\ \/ ~w.ev.bind /\ Return(w.ev.n)
           \/ w.ev.bind /\ seenBound[i] # None /\ Return(IF lasting THEN w.ev.n ELSE 0)
        /\ UNCHANGED <<handlerFrame, bound, faults>>

BindCreate ==
    LET i == w.ev.ip
    IN  /\ w.pc = "bind"
        /\ w.ev.bind
        /\ seenBound[i] = None
        /\ \/ /\ bound[i] = None
              /\ bound' = [bound EXCEPT ![i] = [mac |-> w.ev.lease.mac, owner |-> w.uid]]
              /\ Return(w.ev.n)
           \/ /\ bound[i] # None
              /\ ReturnError("other")
              /\ UNCHANGED bound
        /\ UNCHANGED <<handlerFrame, faults>>

\* handleDHCPDelete. Update stores the label; the API server drops the
\* change of status.basic.activeDhcpClient that comes with it.
DeleteSkip ==
    LET i == w.ev.ip
    IN  /\ w.pc = "delete"
        /\ seen[i] = None
        /\ Return(IF obj[i] = None THEN w.ev.n ELSE 0)
        /\ UNCHANGED <<handlerFrame, bound, faults>>

DeleteLabel ==
    LET i == w.ev.ip
    IN  /\ w.pc = "delete"
        /\ seen[i] # None
        /\ \/ /\ Writable(i, seen[i].rv)
              /\ seen[i].label = "false"
              /\ Return(w.ev.n)
           \/ /\ Writable(i, seen[i].rv)
              /\ seen[i].label # "false"
              /\ Store(i, [obj[i] EXCEPT !.label = "false"])
              /\ w' = Idle
              /\ settled' = [settled EXCEPT ![i] = w.ev.n]
              /\ UNCHANGED timers
           \/ /\ ~Writable(i, seen[i].rv)
              /\ ReturnError(Refusal(i))
        /\ UNCHANGED <<handlerFrame, bound, faults>>

-----------------------------------------------------------------------------
(* Rivals, caches, restarts *)

\* Mutant: the copy is written whatever its resourceVersion.
UpdateRedfishStatusForced(i) ==
    /\ Fault
    /\ obj[i] # None
    /\ seen[i] # None
    /\ seen[i].filled
    /\ Store(i, seen[i])
    /\ UNCHANGED <<dhcpVars, srvVars, chanVars, w, bound, cacheVars, changes, settled>>

\* UpdateRedfishStatusInfo writes back the status it read, with new health,
\* information and log. A conflict leaves everything as it is.
UpdateRedfishStatusInfo(i) ==
    /\ Fault
    /\ seen[i] # None
    /\ seen[i].filled
    /\ Writable(i, seen[i].rv)
    /\ Store(i, seen[i])
    /\ UNCHANGED <<dhcpVars, srvVars, chanVars, w, bound, cacheVars, changes, settled>>

\* A user edits another part of the object.
Touch(i) ==
    /\ Fault
    /\ obj[i] # None
    /\ Store(i, obj[i])
    /\ UNCHANGED <<dhcpVars, srvVars, chanVars, w, bound, cacheVars, changes, settled>>

Observe(i) ==
    /\ seen[i] # obj[i]
    /\ seen' = [seen EXCEPT ![i] = obj[i]]
    /\ UNCHANGED <<dhcpVars, srvVars, chanVars, w, apiVars, seenBound, changes, faults, settled>>

ObserveBound(i) ==
    /\ seenBound[i] # bound[i]
    /\ seenBound' = [seenBound EXCEPT ![i] = bound[i]]
    /\ UNCHANGED <<dhcpVars, srvVars, chanVars, w, apiVars, seen, changes, faults, settled>>

\* The garbage collector removes a BindingIp whose owner is gone.
CollectGarbage(i) ==
    /\ bound[i] # None
    /\ ~Owned(i)
    /\ bound' = [bound EXCEPT ![i] = None]
    /\ UNCHANGED <<dhcpVars, srvVars, chanVars, w, obj, rev, cacheVars, changes, faults, settled>>

\* dnsmasq goes down with the agent and has the file when it is back.
AgentRestart ==
    /\ Fault
    /\ lease' = file
    /\ dirty' = TRUE
    /\ known' = Nothing
    /\ mon' = Boot
    /\ addChan' = <<>>
    /\ deleteChan' = <<>>
    /\ timers' = {}
    /\ w' = Idle
    /\ seen' = obj
    /\ seenBound' = bound
    /\ gap' = gap \cup {i \in IPs : told[i].kind = "add" /\ file[i] = None}
    /\ settled' = [i \in IPs |-> IF w.pc # "idle" /\ w.ev.ip = i THEN 0 ELSE settled[i]]
    /\ UNCHANGED <<file, feature, told, apiVars, changes>>

-----------------------------------------------------------------------------
Init ==
    /\ lease = Nothing
    /\ file = Nothing
    /\ dirty = TRUE
    /\ feature \in {"off", "sync", "bind"}
    /\ known = Nothing
    /\ mon = Boot
    /\ addChan = <<>>
    /\ deleteChan = <<>>
    /\ timers = {}
    /\ w = Idle
    /\ obj = Nothing
    /\ bound = Nothing
    /\ rev = [i \in IPs |-> 0]
    /\ seen = Nothing
    /\ seenBound = Nothing
    /\ changes = 0
    /\ faults = 0
    /\ told = [i \in IPs |-> NoReport]
    /\ settled = [i \in IPs |-> 0]
    /\ gap = {}

Monitor == ScanLeases \/ ScanDone \/ \E i \in IPs : SendAdd(i) \/ SendDelete(i)

Handler == \/ AddUnchanged \/ AddUpdate \/ AddConnect \/ AddCreate \/ AddFill
           \/ BindNothing \/ BindCreate \/ DeleteSkip \/ DeleteLabel

Environment ==
    \/ \E i \in IPs, l \in Leases \cup {None} : LeaseChange(i, l)
    \/ \E f \in {"off", "sync", "bind"} : UpdateService(f)
    \/ \E i \in IPs : DeleteObject(i) \/ Touch(i) \/ UpdateRedfishStatusInfo(i)
    \/ ScanFails
    \/ CallFails
    \/ AgentRestart

Next ==
    \/ Environment
    \/ LeaseFlush
    \/ Monitor
    \/ TakeAdd
    \/ TakeDelete
    \/ Handler
    \/ \E e \in timers : RetryFires(e)
    \/ \E i \in IPs : Observe(i) \/ ObserveBound(i) \/ CollectGarbage(i)

Spec == Init /\ [][Next]_vars

\* dnsmasq finishes a write; goroutines that can run do run; the delay of a
\* retry ends; caches and the garbage collector catch up.
Fairness ==
    /\ WF_vars(LeaseFlush)
    /\ WF_vars(Monitor)
    /\ WF_vars(TakeAdd \/ TakeDelete)
    /\ WF_vars(Handler)
    /\ WF_vars(\E e \in timers : RetryFires(e))
    /\ \A i \in IPs : WF_vars(Observe(i)) /\ WF_vars(ObserveBound(i)) /\ WF_vars(CollectGarbage(i))

FairSpec == Spec /\ Fairness

-----------------------------------------------------------------------------
(* Properties *)

Macs == {l.mac : l \in Leases} \cup {None}
Expires == {l.expire : l \in Leases} \cup {None}
Reports == [kind: {"none", "add", "delete"}, ip: IPs \cup {None}, n: Nat,
            lease: Leases \cup {None}, bind: BOOLEAN]
Objects == [uid: Nat, rv: Nat, filled: BOOLEAN, mac: Macs, expire: Expires,
            active: BOOLEAN, label: {"none", "false"}]
Bindings == [mac: Macs, owner: Nat]
Scans == [pc: {"idle", "send"}, up: BOOLEAN, new: [IPs -> Leases \cup {None}],
          adds: SUBSET IPs, dels: SUBSET IPs]
Handlings == [pc: {"idle", "add", "create", "fill", "bind", "delete"},
              ev: Reports \cup {None}, uid: Nat, stale: BOOLEAN]

\* nil is told apart from any value.
ASSUME NoneAssumption ==
    None \notin Reports /\ None \notin Objects /\ None \notin Bindings

TypeOK ==
    /\ lease \in [IPs -> Leases \cup {None}]
    /\ file \in [IPs -> Leases \cup {None}]
    /\ dirty \in BOOLEAN
    /\ feature \in {"off", "sync", "bind"}
    /\ known \in [IPs -> Leases \cup {None}]
    /\ mon \in Scans
    /\ addChan \in Seq(Reports) /\ Len(addChan) <= Cap
    /\ deleteChan \in Seq(Reports) /\ Len(deleteChan) <= Cap
    /\ timers \in SUBSET Reports
    /\ w \in Handlings
    /\ obj \in [IPs -> Objects \cup {None}]
    /\ bound \in [IPs -> Bindings \cup {None}]
    /\ rev \in [IPs -> Nat]
    /\ seen \in [IPs -> Objects \cup {None}]
    /\ seenBound \in [IPs -> Bindings \cup {None}]
    /\ changes \in 0..MaxChanges
    /\ faults \in 0..MaxFaults
    /\ told \in [IPs -> Reports]
    /\ settled \in [IPs -> Nat]
    /\ gap \subseteq IPs

\* What the monitor reported is what the lease file says, once it is idle and
\* has seen the last write: address, MAC, hostname and expiry of a client
\* that has a lease, the end of a lease otherwise. Only a change that was not
\* reported may spoil this: synchronisation off, an unreadable file, a lease
\* that ended while the agent was down; the next report mends it.
ReportsFollowLease ==
    mon = MonIdle /\ ~dirty /\ file = lease =>
        \A i \in IPs \ gap :
            IF lease[i] = None THEN told[i].kind # "add"
            ELSE told[i].kind = "add" /\ told[i].lease = lease[i]

Agrees(i) ==
    \/ /\ told[i].kind = "add"
       /\ obj[i] # None
       /\ obj[i].mac = told[i].lease.mac
       /\ obj[i].expire = told[i].lease.expire
       /\ told[i].bind => bound[i] # None
    \/ /\ told[i].kind = "delete"
       /\ obj[i] # None => obj[i].label = "false"

Settled(i) == told[i].n # 0 /\ settled[i] = told[i].n /\ Pending(i) = {}

\* Once the last report about an address has been handled without an error,
\* with a current copy and after the others, the objects say what it says: the
\* RedfishStatus has the MAC and expiry of the lease and the address is bound
\* if it should be, or the RedfishStatus is marked inactive. No rival writer,
\* stale cache, retry or restart undoes it.
ObjectsFollowReports == \A i \in IPs : Settled(i) => Agrees(i)

\* Every report is handled in the end: no retry goes on for ever, and no
\* channel stays full.
EventuallyHandled ==
    <>[](mon.pc = "idle" /\ ~dirty /\ \A i \in IPs : Pending(i) = {})
=============================================================================
