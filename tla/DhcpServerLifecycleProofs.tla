--------------------- MODULE DhcpServerLifecycleProofs ---------------------
(***************************************************************************)
(* Theorems about DhcpServerLifecycle, for any number of servers, changes  *)
(* and faults. The inductive invariant is LifecycleInv.                    *)
(***************************************************************************)
EXTENDS DhcpServerLifecycle, TLAPS

\* The types of r and e.
Reconciling ==
    [pc: {"idle", "get", "close", "kill", "unlist", "launch", "notify",
          "spawn", "insert", "set", "update"},
     server: Servers \cup {NoServer}, spec: Versions \cup {Absent}]

Electing ==
    [pc: {"idle", "lock", "launch", "notify", "spawn", "insert", "done"},
     server: Servers \cup {NoServer}, spec: Versions \cup {Absent}]

\* Goroutine g is starting a server of its own.
Starts(g) == g.pc \in {"launch", "notify", "spawn", "insert"}

\* Reconcile works on the server it has found in dhcpServerList.
Works == r.pc \in {"close", "kill", "unlist", "update", "set"}

\* Servers are numbered as they are created; a later number means nothing yet.
Numbered ==
    /\ dhcpServerList <= created /\ r.server <= created /\ e.server <= created
    /\ \A k \in Servers : k > created =>
          closed[k] = 0 /\ monitor[k] = "off" /\ cmd[k] = "nil"

\* The elected goroutine holds dataLock from its look at the list to the
\* insertion, so nobody else changes the list meanwhile.
Locked ==
    /\ dataLock <=> Starts(e)
    /\ dataLock => dhcpServerList = NoServer

\* While Reconcile works on a server that server stays listed: the elected
\* goroutine inserts only into an empty list.
StaysListed ==
    /\ Works => r.server # NoServer
    /\ Works \/ (r.pc = "get" /\ r.server # NoServer) => r.server = dhcpServerList

\* A server that is being started is known to its starter alone.
Young(g) ==
    Starts(g) =>
        /\ g.server # NoServer
        /\ g.server # dhcpServerList
        /\ closed[g.server] = 0
        /\ worker[g.server] \in {"select", "busy"}
        /\ g.pc = "launch" => cmd[g.server] = "nil"
        /\ IF g.pc = "insert"
           THEN monitor[g.server] \in {"select", "starting", "notify", "failed"}
           ELSE monitor[g.server] = "off"

Apart == Starts(r) /\ Starts(e) => r.server # e.server

\* A monitor starts dnsmasq only while the process of its server is dead.
DeadWhenStarting == \A k \in Servers : monitor[k] = "starting" => cmd[k] # "alive"

\* Nothing is known of a Subnet without a server or with one that is being
\* stopped, and Reconcile has given its server the spec it is going to cache.
KnownLater ==
    /\ dhcpServerList = NoServer \/ r.pc \in {"close", "kill", "unlist"} => known = Absent
    /\ Starts(r) \/ r.pc \in {"update", "set"} => r.spec # Absent /\ spec[r.server] = r.spec

LifecycleInv ==
    /\ TypeOK
    /\ Numbered
    /\ Locked
    /\ StaysListed
    /\ Young(r) /\ Young(e) /\ Apart
    /\ DeadWhenStarting
    /\ KnownLater
    /\ ListedServerRuns
    /\ OneProcess
    /\ KnownIsApplied

-----------------------------------------------------------------------------
(* Every step keeps the invariant                                            *)

\* Users change the Subnet only.
LEMMA UsersKeepInv ==
    ASSUME LifecycleInv, WriteSubnet \/ DeleteSubnet
    PROVE  LifecycleInv'
<1> USE LifecycleAssumption DEF LifecycleInv, TypeOK, Idle, Servers, NoServer, Absent
<1>1. ASSUME WriteSubnet
      PROVE  LifecycleInv'
  <2>1. TypeOK'
    BY <1>1 DEF WriteSubnet, Versions, mgrVars, srvVars
  <2>2. Numbered' /\ Locked' /\ StaysListed' /\ Young(r)' /\ Young(e)' /\ Apart' /\
     DeadWhenStarting' /\ KnownLater' /\ ListedServerRuns' /\ OneProcess' /\
     KnownIsApplied'
    BY <1>1 DEF WriteSubnet, Versions, mgrVars, srvVars, Numbered, Locked, Starts,
       StaysListed, Works, Young, Apart, DeadWhenStarting, KnownLater, ListedServerRuns,
       OneProcess, KnownIsApplied
  <2> QED
    BY <2>1, <2>2 DEF LifecycleInv
<1>2. ASSUME DeleteSubnet
      PROVE  LifecycleInv'
  <2>1. TypeOK'
    BY <1>2 DEF DeleteSubnet, mgrVars, srvVars
  <2>2. Numbered' /\ Locked' /\ StaysListed' /\ Young(r)' /\ Young(e)' /\ Apart' /\
     DeadWhenStarting' /\ KnownLater' /\ ListedServerRuns' /\ OneProcess' /\
     KnownIsApplied'
    BY <1>2 DEF DeleteSubnet, mgrVars, srvVars, Numbered, Locked, Starts, StaysListed,
       Works, Young, Apart, DeadWhenStarting, KnownLater, ListedServerRuns, OneProcess,
       KnownIsApplied
  <2> QED
    BY <2>1, <2>2 DEF LifecycleInv
<1> QED
  BY <1>1, <1>2

\* Reconcile starts a server where it has found none, and stops or updates the
\* one it has found, which is still the listed one.
LEMMA ReconcileKeepsInv ==
    ASSUME LifecycleInv, ReconcileNext
    PROVE  LifecycleInv'
<1> USE LifecycleAssumption DEF LifecycleInv, TypeOK, Idle, Servers, NoServer, Absent
<1>1. ASSUME ReconcileBegin
      PROVE  LifecycleInv'
  <2>1. TypeOK'
    BY <1>1 DEF ReconcileBegin, srvVars
  <2>2. Numbered'
    BY <1>1, <2>1 DEF ReconcileBegin, srvVars, Numbered
  <2>3. StaysListed'
    BY <1>1, <2>1 DEF ReconcileBegin, srvVars, StaysListed, Works
  <2>4. Young(r)'
    BY <1>1, <2>1 DEF ReconcileBegin, srvVars, Young, Starts
  <2>5. Apart'
    BY <1>1, <2>1 DEF ReconcileBegin, srvVars, Apart, Starts
  <2>6. KnownLater'
    BY <1>1, <2>1 DEF ReconcileBegin, srvVars, KnownLater, Starts
  <2>7. ListedServerRuns'
    BY <1>1, <2>1 DEF ReconcileBegin, srvVars, ListedServerRuns
  <2>8. KnownIsApplied'
    BY <1>1, <2>1 DEF ReconcileBegin, srvVars, KnownIsApplied
  <2>9. Locked' /\ Young(e)' /\ DeadWhenStarting' /\ OneProcess'
    BY <1>1 DEF ReconcileBegin, srvVars, Locked, Starts, Young, DeadWhenStarting,
       OneProcess
  <2> QED
    BY <2>1, <2>2, <2>3, <2>4, <2>5, <2>6, <2>7, <2>8, <2>9 DEF LifecycleInv
<1>2. ASSUME ReconcileNotFound
      PROVE  LifecycleInv'
  <2>1. TypeOK'
    BY <1>2 DEF ReconcileNotFound, srvVars
  <2>2. Numbered'
    BY <1>2, <2>1 DEF ReconcileNotFound, srvVars, Numbered
  <2>3. StaysListed'
    BY <1>2, <2>1 DEF ReconcileNotFound, srvVars, StaysListed, Works
  <2>4. Young(r)'
    BY <1>2, <2>1 DEF ReconcileNotFound, srvVars, Young, Starts
  <2>5. Apart'
    BY <1>2, <2>1 DEF ReconcileNotFound, srvVars, Apart, Starts
  <2>6. KnownLater'
    BY <1>2, <2>1 DEF ReconcileNotFound, srvVars, KnownLater, Starts
  <2>7. ListedServerRuns'
    BY <1>2, <2>1 DEF ReconcileNotFound, srvVars, ListedServerRuns
  <2>8. KnownIsApplied'
    BY <1>2, <2>1 DEF ReconcileNotFound, srvVars, KnownIsApplied
  <2>9. Locked' /\ Young(e)' /\ DeadWhenStarting' /\ OneProcess'
    BY <1>2 DEF ReconcileNotFound, srvVars, Locked, Starts, Young, DeadWhenStarting,
       OneProcess
  <2> QED
    BY <2>1, <2>2, <2>3, <2>4, <2>5, <2>6, <2>7, <2>8, <2>9 DEF LifecycleInv
<1>3. ASSUME ReconcileGetFails
      PROVE  LifecycleInv'
  <2>1. TypeOK'
    BY <1>3 DEF ReconcileGetFails, srvVars, Fault
  <2>2. Numbered'
    BY <1>3, <2>1 DEF ReconcileGetFails, srvVars, Fault, Numbered
  <2>3. StaysListed'
    BY <1>3, <2>1 DEF ReconcileGetFails, srvVars, Fault, StaysListed, Works
  <2>4. Young(r)'
    BY <1>3, <2>1 DEF ReconcileGetFails, srvVars, Fault, Young, Starts
  <2>5. Apart'
    BY <1>3, <2>1 DEF ReconcileGetFails, srvVars, Fault, Apart, Starts
  <2>6. KnownLater'
    BY <1>3, <2>1 DEF ReconcileGetFails, srvVars, Fault, KnownLater, Starts
  <2>7. ListedServerRuns'
    BY <1>3, <2>1 DEF ReconcileGetFails, srvVars, Fault, ListedServerRuns
  <2>8. KnownIsApplied'
    BY <1>3, <2>1 DEF ReconcileGetFails, srvVars, Fault, KnownIsApplied
  <2>9. Locked' /\ Young(e)' /\ DeadWhenStarting' /\ OneProcess'
    BY <1>3 DEF ReconcileGetFails, srvVars, Fault, Locked, Starts, Young,
       DeadWhenStarting, OneProcess
  <2> QED
    BY <2>1, <2>2, <2>3, <2>4, <2>5, <2>6, <2>7, <2>8, <2>9 DEF LifecycleInv
<1>4. ASSUME ReconcileUnchanged
      PROVE  LifecycleInv'
  <2>1. TypeOK'
    BY <1>4 DEF ReconcileUnchanged, srvVars, HasSpecChanged
  <2>2. Numbered'
    BY <1>4, <2>1 DEF ReconcileUnchanged, srvVars, HasSpecChanged, Numbered
  <2>3. StaysListed'
    BY <1>4, <2>1 DEF ReconcileUnchanged, srvVars, HasSpecChanged, StaysListed, Works
  <2>4. Young(r)'
    BY <1>4, <2>1 DEF ReconcileUnchanged, srvVars, HasSpecChanged, Young, Starts
  <2>5. Apart'
    BY <1>4, <2>1 DEF ReconcileUnchanged, srvVars, HasSpecChanged, Apart, Starts
  <2>6. KnownLater'
    BY <1>4, <2>1 DEF ReconcileUnchanged, srvVars, HasSpecChanged, KnownLater, Starts
  <2>7. ListedServerRuns'
    BY <1>4, <2>1 DEF ReconcileUnchanged, srvVars, HasSpecChanged, ListedServerRuns
  <2>8. KnownIsApplied'
    BY <1>4, <2>1 DEF ReconcileUnchanged, srvVars, HasSpecChanged, KnownIsApplied
  <2>9. Locked' /\ Young(e)' /\ DeadWhenStarting' /\ OneProcess'
    BY <1>4 DEF ReconcileUnchanged, srvVars, HasSpecChanged, Locked, Starts, Young,
       DeadWhenStarting, OneProcess
  <2> QED
    BY <2>1, <2>2, <2>3, <2>4, <2>5, <2>6, <2>7, <2>8, <2>9 DEF LifecycleInv
<1>5. ASSUME ReconcileNew
      PROVE  LifecycleInv'
  <2>1. PICK k \in Servers : NewServer(k, subnet) /\ r' = [pc |-> "launch",
     server |-> k, spec |-> subnet]
    BY <1>5 DEF ReconcileNew
  <2>2. /\ r.pc = "get" /\ subnet # Absent /\ HasSpecChanged(subnet)
        /\ r.server = NoServer
        /\ UNCHANGED <<subnet, known, dhcpServerList, dataLock, e, closed,
                       pendingUpdate, monitor, cmd, strays, changes, faults>>
    BY <1>5 DEF ReconcileNew
  <2>3. LifecycleInv'
    <3>1. TypeOK'
      BY <2>1, <2>2 DEF NewServer, HasSpecChanged
    <3>2. Numbered'
      BY <2>1, <2>2, <3>1 DEF NewServer, HasSpecChanged, Numbered
    <3>3. StaysListed'
      BY <2>1, <2>2, <3>1 DEF NewServer, HasSpecChanged, StaysListed, Works
    <3>4. Young(r)'
      BY <2>1, <2>2, <3>1 DEF NewServer, HasSpecChanged, Young, Starts, Numbered
    <3>5. Young(e)'
      BY <2>1, <2>2, <3>1 DEF NewServer, HasSpecChanged, Young, Starts
    <3>6. Apart'
      BY <2>1, <2>2, <3>1 DEF NewServer, HasSpecChanged, Apart, Starts, Numbered
    <3>7. KnownLater'
      BY <2>1, <2>2, <3>1 DEF NewServer, HasSpecChanged, KnownLater, Starts
    <3>8. ListedServerRuns'
      BY <2>1, <2>2, <3>1 DEF NewServer, HasSpecChanged, ListedServerRuns
    <3>9. KnownIsApplied'
      BY <2>1, <2>2, <3>1 DEF NewServer, HasSpecChanged, KnownIsApplied, Numbered
    <3>10. Locked' /\ DeadWhenStarting' /\ OneProcess'
      BY <2>1, <2>2 DEF NewServer, HasSpecChanged, Locked, Starts, DeadWhenStarting,
         OneProcess
    <3> QED
      BY <3>1, <3>2, <3>3, <3>4, <3>5, <3>6, <3>7, <3>8, <3>9, <3>10 DEF LifecycleInv
  <2> QED
    BY <2>3
<1>6. ASSUME UpdateService
      PROVE  LifecycleInv'
  <2>1. TypeOK'
    BY <1>6 DEF UpdateService, HasSpecChanged
  <2>2. Numbered'
    BY <1>6, <2>1 DEF UpdateService, HasSpecChanged, Numbered
  <2>3. StaysListed'
    BY <1>6, <2>1 DEF UpdateService, HasSpecChanged, StaysListed, Works
  <2>4. Young(r)'
    BY <1>6, <2>1 DEF UpdateService, HasSpecChanged, Young, Starts
  <2>5. Apart'
    BY <1>6, <2>1 DEF UpdateService, HasSpecChanged, Apart, Starts
  <2>6. KnownLater'
    BY <1>6, <2>1 DEF UpdateService, HasSpecChanged, KnownLater, Starts
  <2>7. ListedServerRuns'
    BY <1>6, <2>1 DEF UpdateService, HasSpecChanged, ListedServerRuns
  <2>8. KnownIsApplied'
    BY <1>6, <2>1 DEF UpdateService, HasSpecChanged, KnownIsApplied
  <2>9. Locked' /\ Young(e)' /\ DeadWhenStarting' /\ OneProcess'
    BY <1>6 DEF UpdateService, HasSpecChanged, Locked, Starts, Young, DeadWhenStarting,
       OneProcess
  <2> QED
    BY <2>1, <2>2, <2>3, <2>4, <2>5, <2>6, <2>7, <2>8, <2>9 DEF LifecycleInv
<1>7. ASSUME ReconcileRun
      PROVE  LifecycleInv'
  <2>0. UNCHANGED <<subnet, known, dhcpServerList, dataLock, e, created, changes>>
    BY <1>7 DEF ReconcileRun
  <2>1. CASE RunLaunch(r, r')
    <3>1. TypeOK'
      BY ZenonT(60), <2>0, <2>1 DEF RunLaunch, startDnsmasq, Young, Starts
    <3>2. Numbered'
      BY <2>0, <2>1, <3>1 DEF RunLaunch, startDnsmasq, Numbered
    <3>3. StaysListed'
      BY <2>0, <2>1, <3>1 DEF RunLaunch, startDnsmasq, StaysListed, Works
    <3>4. Young(r)'
      BY <2>0, <2>1, <3>1 DEF RunLaunch, startDnsmasq, Young, Starts
    <3>5. Young(e)'
      BY <2>0, <2>1, <3>1 DEF RunLaunch, startDnsmasq, Young, Starts, Apart
    <3>6. Apart'
      BY <2>0, <2>1, <3>1 DEF RunLaunch, startDnsmasq, Apart, Starts
    <3>7. DeadWhenStarting'
      BY <2>0, <2>1, <3>1 DEF RunLaunch, startDnsmasq, DeadWhenStarting, Young, Starts
    <3>8. KnownLater'
      BY <2>0, <2>1, <3>1 DEF RunLaunch, startDnsmasq, KnownLater, Starts
    <3>9. ListedServerRuns'
      BY <2>0, <2>1, <3>1 DEF RunLaunch, startDnsmasq, ListedServerRuns
    <3>10. OneProcess'
      BY <2>0, <2>1, <3>1 DEF RunLaunch, startDnsmasq, OneProcess, Young, Starts
    <3>11. KnownIsApplied'
      BY <2>0, <2>1, <3>1 DEF RunLaunch, startDnsmasq, KnownIsApplied
    <3>12. Locked'
      BY <2>0, <2>1 DEF RunLaunch, startDnsmasq, Locked, Starts
    <3> QED
      BY <3>1, <3>2, <3>3, <3>4, <3>5, <3>6, <3>7, <3>8, <3>9, <3>10, <3>11, <3>12
         DEF LifecycleInv
  <2>2. CASE RunFails(r, r')
    <3>1. TypeOK'
      BY <2>0, <2>2 DEF RunFails, Fault, srvVars
    <3>2. Numbered'
      BY <2>0, <2>2, <3>1 DEF RunFails, Fault, srvVars, Numbered
    <3>3. StaysListed'
      BY <2>0, <2>2, <3>1 DEF RunFails, Fault, srvVars, StaysListed, Works
    <3>4. Young(r)'
      BY <2>0, <2>2, <3>1 DEF RunFails, Fault, srvVars, Young, Starts
    <3>5. Apart'
      BY <2>0, <2>2, <3>1 DEF RunFails, Fault, srvVars, Apart, Starts
    <3>6. KnownLater'
      BY <2>0, <2>2, <3>1 DEF RunFails, Fault, srvVars, KnownLater, Starts
    <3>7. ListedServerRuns'
      BY <2>0, <2>2, <3>1 DEF RunFails, Fault, srvVars, ListedServerRuns
    <3>8. KnownIsApplied'
      BY <2>0, <2>2, <3>1 DEF RunFails, Fault, srvVars, KnownIsApplied
    <3>9. Locked' /\ Young(e)' /\ DeadWhenStarting' /\ OneProcess'
      BY <2>0, <2>2 DEF RunFails, Fault, srvVars, Locked, Starts, Young,
         DeadWhenStarting, OneProcess
    <3> QED
      BY <3>1, <3>2, <3>3, <3>4, <3>5, <3>6, <3>7, <3>8, <3>9 DEF LifecycleInv
  <2>3. CASE RunNotify(r, r')
    <3>1. TypeOK'
      BY ZenonT(60), <2>0, <2>3 DEF RunNotify, NotifyStatus
    <3>2. Numbered'
      BY <2>0, <2>3, <3>1 DEF RunNotify, NotifyStatus, Numbered
    <3>3. StaysListed'
      BY <2>0, <2>3, <3>1 DEF RunNotify, NotifyStatus, StaysListed, Works
    <3>4. Young(r)'
      BY <2>0, <2>3, <3>1 DEF RunNotify, NotifyStatus, Young, Starts
    <3>5. Apart'
      BY <2>0, <2>3, <3>1 DEF RunNotify, NotifyStatus, Apart, Starts
    <3>6. KnownLater'
      BY <2>0, <2>3, <3>1 DEF RunNotify, NotifyStatus, KnownLater, Starts
    <3>7. ListedServerRuns'
      BY <2>0, <2>3, <3>1 DEF RunNotify, NotifyStatus, ListedServerRuns
    <3>8. KnownIsApplied'
      BY <2>0, <2>3, <3>1 DEF RunNotify, NotifyStatus, KnownIsApplied
    <3>9. Locked' /\ Young(e)' /\ DeadWhenStarting' /\ OneProcess'
      BY <2>0, <2>3 DEF RunNotify, NotifyStatus, Locked, Starts, Young,
         DeadWhenStarting, OneProcess
    <3> QED
      BY <3>1, <3>2, <3>3, <3>4, <3>5, <3>6, <3>7, <3>8, <3>9 DEF LifecycleInv
  <2>4. CASE RunSpawn(r, r')
    <3>1. TypeOK'
      <4>1. r' \in Reconciling
        BY <2>0, <2>4 DEF RunSpawn, Reconciling
      <4>2. monitor' \in [Servers -> {"off", "select", "starting", "notify", "exited",
         "failed"}]
        BY <2>0, <2>4 DEF RunSpawn
      <4>3. faults' \in 0..MaxFaults
        BY <2>0, <2>4 DEF RunSpawn, Fault
      <4> QED
        BY <2>0, <2>4, <4>1, <4>2, <4>3 DEF RunSpawn, Fault, Reconciling, Electing
    <3>2. Numbered'
      BY <2>0, <2>4, <3>1 DEF RunSpawn, Fault, Numbered, OneProcess
    <3>3. StaysListed'
      BY <2>0, <2>4, <3>1 DEF RunSpawn, Fault, StaysListed, Works
    <3>4. Young(r)'
      BY <2>0, <2>4, <3>1 DEF RunSpawn, Fault, Young, Starts
    <3>5. Young(e)'
      BY <2>0, <2>4, <3>1 DEF RunSpawn, Fault, Young, Starts, Apart
    <3>6. Apart'
      BY <2>0, <2>4, <3>1 DEF RunSpawn, Fault, Apart, Starts
    <3>7. DeadWhenStarting'
      BY <2>0, <2>4, <3>1 DEF RunSpawn, Fault, DeadWhenStarting
    <3>8. KnownLater'
      BY <2>0, <2>4, <3>1 DEF RunSpawn, Fault, KnownLater, Starts
    <3>9. ListedServerRuns'
      BY <2>0, <2>4, <3>1 DEF RunSpawn, Fault, ListedServerRuns
    <3>10. KnownIsApplied'
      BY <2>0, <2>4, <3>1 DEF RunSpawn, Fault, KnownIsApplied
    <3>11. Locked' /\ OneProcess'
      BY <2>0, <2>4 DEF RunSpawn, Fault, Locked, Starts, OneProcess
    <3> QED
      BY <3>1, <3>2, <3>3, <3>4, <3>5, <3>6, <3>7, <3>8, <3>9, <3>10, <3>11
         DEF LifecycleInv
  <2> QED
    BY <1>7, <2>1, <2>2, <2>3, <2>4 DEF ReconcileRun
<1>8. ASSUME ReconcileInsert
      PROVE  LifecycleInv'
  <2>1. TypeOK'
    BY <1>8 DEF ReconcileInsert, srvVars
  <2>2. Numbered'
    BY <1>8, <2>1 DEF ReconcileInsert, srvVars, Numbered
  <2>3. Locked'
    BY <1>8, <2>1 DEF ReconcileInsert, srvVars, Locked, Starts
  <2>4. StaysListed'
    BY <1>8, <2>1 DEF ReconcileInsert, srvVars, StaysListed, Works, Young, Starts
  <2>5. Young(r)'
    BY <1>8, <2>1 DEF ReconcileInsert, srvVars, Young, Starts
  <2>6. Young(e)'
    BY <1>8, <2>1 DEF ReconcileInsert, srvVars, Young, Starts, Apart
  <2>7. Apart'
    BY <1>8, <2>1 DEF ReconcileInsert, srvVars, Apart, Starts
  <2>8. KnownLater'
    BY <1>8, <2>1 DEF ReconcileInsert, srvVars, KnownLater, Starts, Young
  <2>9. ListedServerRuns'
    BY <1>8, <2>1 DEF ReconcileInsert, srvVars, ListedServerRuns, Young, Starts
  <2>10. KnownIsApplied'
    BY <1>8, <2>1 DEF ReconcileInsert, srvVars, KnownIsApplied
  <2>11. DeadWhenStarting' /\ OneProcess'
    BY <1>8 DEF ReconcileInsert, srvVars, DeadWhenStarting, OneProcess
  <2> QED
    BY <2>1, <2>2, <2>3, <2>4, <2>5, <2>6, <2>7, <2>8, <2>9, <2>10, <2>11
       DEF LifecycleInv
<1>9. ASSUME ReconcileSet
      PROVE  LifecycleInv'
  <2>1. TypeOK'
    BY <1>9 DEF ReconcileSet, srvVars
  <2>2. Numbered'
    BY <1>9, <2>1 DEF ReconcileSet, srvVars, Numbered
  <2>3. StaysListed'
    BY <1>9, <2>1 DEF ReconcileSet, srvVars, StaysListed, Works
  <2>4. Young(r)'
    BY <1>9, <2>1 DEF ReconcileSet, srvVars, Young, Starts
  <2>5. Apart'
    BY <1>9, <2>1 DEF ReconcileSet, srvVars, Apart, Starts
  <2>6. KnownLater'
    BY <1>9, <2>1 DEF ReconcileSet, srvVars, KnownLater, Starts, StaysListed, Works
  <2>7. ListedServerRuns'
    BY <1>9, <2>1 DEF ReconcileSet, srvVars, ListedServerRuns
  <2>8. KnownIsApplied'
    BY <1>9, <2>1 DEF ReconcileSet, srvVars, KnownIsApplied, StaysListed, Works,
       KnownLater
  <2>9. Locked' /\ Young(e)' /\ DeadWhenStarting' /\ OneProcess'
    BY <1>9 DEF ReconcileSet, srvVars, Locked, Starts, Young, DeadWhenStarting,
       OneProcess
  <2> QED
    BY <2>1, <2>2, <2>3, <2>4, <2>5, <2>6, <2>7, <2>8, <2>9 DEF LifecycleInv
<1>10. ASSUME StopClose
      PROVE  LifecycleInv'
  <2>1. TypeOK'
    <3>1. r' \in Reconciling
      BY <1>10 DEF StopClose, Reconciling
    <3>2. r.server \in Servers
      BY <1>10 DEF StopClose, StaysListed, Works
    <3>3. closed[r.server] + 1 \in Nat
      BY <1>10, <3>1, <3>2
    <3>4. closed' \in [Servers -> Nat]
      BY <1>10, <3>1, <3>2, <3>3 DEF StopClose
    <3> QED
      BY <1>10, <3>1, <3>2, <3>3, <3>4 DEF StopClose, Reconciling, Electing
  <2>2. Numbered'
    BY <1>10, <2>1 DEF StopClose, Numbered
  <2>3. StaysListed'
    BY <1>10, <2>1 DEF StopClose, StaysListed, Works
  <2>4. Young(r)'
    BY <1>10, <2>1 DEF StopClose, Young, Starts
  <2>5. Young(e)'
    BY <1>10, <2>1 DEF StopClose, Young, Starts, StaysListed, Works
  <2>6. Apart'
    BY <1>10, <2>1 DEF StopClose, Apart, Starts
  <2>7. KnownLater'
    BY <1>10, <2>1 DEF StopClose, KnownLater, Starts
  <2>8. ListedServerRuns'
    BY <1>10, <2>1 DEF StopClose, ListedServerRuns, StaysListed, Works
  <2>9. KnownIsApplied'
    BY <1>10, <2>1 DEF StopClose, KnownIsApplied
  <2>10. Locked' /\ DeadWhenStarting' /\ OneProcess'
    BY <1>10 DEF StopClose, Locked, Starts, DeadWhenStarting, OneProcess
  <2> QED
    BY <2>1, <2>2, <2>3, <2>4, <2>5, <2>6, <2>7, <2>8, <2>9, <2>10 DEF LifecycleInv
<1>11. ASSUME StopKill
      PROVE  LifecycleInv'
  <2>1. TypeOK'
    BY ZenonT(60), <1>11 DEF StopKill
  <2>2. Numbered'
    BY <1>11, <2>1 DEF StopKill, Numbered
  <2>3. StaysListed'
    BY <1>11, <2>1 DEF StopKill, StaysListed, Works
  <2>4. Young(r)'
    BY <1>11, <2>1 DEF StopKill, Young, Starts
  <2>5. Young(e)'
    BY <1>11, <2>1 DEF StopKill, Young, Starts
  <2>6. Apart'
    BY <1>11, <2>1 DEF StopKill, Apart, Starts
  <2>7. DeadWhenStarting'
    BY <1>11, <2>1 DEF StopKill, DeadWhenStarting
  <2>8. KnownLater'
    BY <1>11, <2>1 DEF StopKill, KnownLater, Starts
  <2>9. ListedServerRuns'
    BY <1>11, <2>1 DEF StopKill, ListedServerRuns
  <2>10. KnownIsApplied'
    BY <1>11, <2>1 DEF StopKill, KnownIsApplied
  <2>11. Locked' /\ OneProcess'
    BY <1>11 DEF StopKill, Locked, Starts, OneProcess
  <2> QED
    BY <2>1, <2>2, <2>3, <2>4, <2>5, <2>6, <2>7, <2>8, <2>9, <2>10, <2>11
       DEF LifecycleInv
<1>12. ASSUME ReconcileUnlist
      PROVE  LifecycleInv'
  <2>1. TypeOK'
    BY <1>12 DEF ReconcileUnlist, srvVars
  <2>2. Numbered'
    BY <1>12, <2>1 DEF ReconcileUnlist, srvVars, Numbered
  <2>3. Locked'
    BY <1>12, <2>1 DEF ReconcileUnlist, srvVars, Locked, Starts
  <2>4. StaysListed'
    BY <1>12, <2>1 DEF ReconcileUnlist, srvVars, StaysListed, Works
  <2>5. Young(r)'
    BY <1>12, <2>1 DEF ReconcileUnlist, srvVars, Young, Starts
  <2>6. Young(e)'
    BY <1>12, <2>1 DEF ReconcileUnlist, srvVars, Young, Starts
  <2>7. Apart'
    BY <1>12, <2>1 DEF ReconcileUnlist, srvVars, Apart, Starts
  <2>8. KnownLater'
    BY <1>12, <2>1 DEF ReconcileUnlist, srvVars, KnownLater, Starts
  <2>9. ListedServerRuns'
    BY <1>12, <2>1 DEF ReconcileUnlist, srvVars, ListedServerRuns
  <2>10. KnownIsApplied'
    BY <1>12, <2>1 DEF ReconcileUnlist, srvVars, KnownIsApplied, KnownLater
  <2>11. DeadWhenStarting' /\ OneProcess'
    BY <1>12 DEF ReconcileUnlist, srvVars, DeadWhenStarting, OneProcess
  <2> QED
    BY <2>1, <2>2, <2>3, <2>4, <2>5, <2>6, <2>7, <2>8, <2>9, <2>10, <2>11
       DEF LifecycleInv
<1> QED
  BY <1>1, <1>2, <1>3, <1>4, <1>5, <1>6, <1>7, <1>8, <1>9, <1>10, <1>11, <1>12
     DEF ReconcileNext

\* The elected goroutine holds dataLock while it starts a server.
LEMMA ElectKeepsInv ==
    ASSUME LifecycleInv, ElectNext
    PROVE  LifecycleInv'
<1> USE LifecycleAssumption DEF LifecycleInv, TypeOK, Idle, Servers, NoServer, Absent
<1>1. ASSUME ElectList
      PROVE  LifecycleInv'
  <2>1. TypeOK'
    BY <1>1 DEF ElectList, srvVars
  <2>2. Numbered'
    BY <1>1, <2>1 DEF ElectList, srvVars, Numbered
  <2>3. Locked'
    BY <1>1, <2>1 DEF ElectList, srvVars, Locked, Starts
  <2>4. Young(e)'
    BY <1>1, <2>1 DEF ElectList, srvVars, Young, Starts
  <2>5. Apart'
    BY <1>1, <2>1 DEF ElectList, srvVars, Apart, Starts
  <2>6. StaysListed' /\ Young(r)' /\ DeadWhenStarting' /\ KnownLater' /\
     ListedServerRuns' /\ OneProcess' /\ KnownIsApplied'
    BY <1>1 DEF ElectList, srvVars, StaysListed, Works, Young, Starts, DeadWhenStarting,
       KnownLater, ListedServerRuns, OneProcess, KnownIsApplied
  <2> QED
    BY <2>1, <2>2, <2>3, <2>4, <2>5, <2>6 DEF LifecycleInv
<1>2. ASSUME ElectListFails
      PROVE  LifecycleInv'
  <2>1. TypeOK'
    BY SMTT(30), <1>2 DEF ElectListFails, srvVars, Fault
  <2>2. Numbered'
    BY <1>2, <2>1 DEF ElectListFails, srvVars, Fault, Numbered
  <2>3. Locked'
    BY <1>2, <2>1 DEF ElectListFails, srvVars, Fault, Locked, Starts
  <2>4. Young(e)'
    BY <1>2, <2>1 DEF ElectListFails, srvVars, Fault, Young, Starts
  <2>5. Apart'
    BY <1>2, <2>1 DEF ElectListFails, srvVars, Fault, Apart, Starts
  <2>6. StaysListed' /\ Young(r)' /\ DeadWhenStarting' /\ KnownLater' /\
     ListedServerRuns' /\ OneProcess' /\ KnownIsApplied'
    BY <1>2 DEF ElectListFails, srvVars, Fault, StaysListed, Works, Young, Starts,
       DeadWhenStarting, KnownLater, ListedServerRuns, OneProcess, KnownIsApplied
  <2> QED
    BY <2>1, <2>2, <2>3, <2>4, <2>5, <2>6 DEF LifecycleInv
<1>3. ASSUME ElectSkip
      PROVE  LifecycleInv'
  <2>1. TypeOK'
    BY ZenonT(60), <1>3 DEF ElectSkip, srvVars
  <2>2. Numbered'
    BY <1>3, <2>1 DEF ElectSkip, srvVars, Numbered
  <2>3. Locked'
    BY <1>3, <2>1 DEF ElectSkip, srvVars, Locked, Starts
  <2>4. Young(e)'
    BY <1>3, <2>1 DEF ElectSkip, srvVars, Young, Starts
  <2>5. Apart'
    BY <1>3, <2>1 DEF ElectSkip, srvVars, Apart, Starts
  <2>6. StaysListed' /\ Young(r)' /\ DeadWhenStarting' /\ KnownLater' /\
     ListedServerRuns' /\ OneProcess' /\ KnownIsApplied'
    BY <1>3 DEF ElectSkip, srvVars, StaysListed, Works, Young, Starts, DeadWhenStarting,
       KnownLater, ListedServerRuns, OneProcess, KnownIsApplied
  <2> QED
    BY <2>1, <2>2, <2>3, <2>4, <2>5, <2>6 DEF LifecycleInv
<1>4. ASSUME ElectNew
      PROVE  LifecycleInv'
  <2>1. PICK k \in Servers : NewServer(k, e.spec) /\ e' = [e EXCEPT !.pc = "launch",
     !.server = k]
    BY <1>4 DEF ElectNew
  <2>2. /\ e.pc = "lock" /\ e.spec # Absent /\ dhcpServerList = NoServer /\ dataLock'
        /\ UNCHANGED <<subnet, known, dhcpServerList, r, closed, pendingUpdate, monitor,
                       cmd, strays, changes, faults>>
    BY <1>4 DEF ElectNew
  <2>3. LifecycleInv'
    <3>1. TypeOK'
      <4>1. e' \in Electing
        BY <2>1, <2>2 DEF Electing
      <4>2. created' \in 0..MaxServers
        BY <2>1, <2>2 DEF NewServer
      <4>3. spec' \in [Servers -> Versions \cup {Absent}]
        BY <2>1, <2>2 DEF NewServer
      <4>4. worker' \in [Servers -> {"off", "select", "busy", "exited"}]
        BY <2>1, <2>2 DEF NewServer
      <4> QED
        BY <2>1, <2>2, <4>1, <4>2, <4>3, <4>4 DEF NewServer, Reconciling, Electing
    <3>2. Numbered'
      BY SMTT(30), <2>1, <2>2, <3>1 DEF NewServer, Numbered, OneProcess
    <3>3. Locked'
      BY <2>1, <2>2, <3>1 DEF NewServer, Locked, Starts
    <3>4. Young(r)'
      BY <2>1, <2>2, <3>1 DEF NewServer, Young, Starts
    <3>5. Young(e)'
      BY SMTT(30), <2>1, <2>2, <3>1 DEF NewServer, Young, Starts, Numbered
    <3>6. Apart'
      BY <2>1, <2>2, <3>1 DEF NewServer, Apart, Starts, Numbered
    <3>7. KnownLater'
      BY <2>1, <2>2, <3>1 DEF NewServer, KnownLater, Starts, Numbered
    <3>8. ListedServerRuns'
      BY <2>1, <2>2, <3>1 DEF NewServer, ListedServerRuns
    <3>9. KnownIsApplied'
      BY <2>1, <2>2, <3>1 DEF NewServer, KnownIsApplied
    <3>10. StaysListed' /\ DeadWhenStarting' /\ OneProcess'
      BY <2>1, <2>2 DEF NewServer, StaysListed, Works, DeadWhenStarting, OneProcess
    <3> QED
      BY <3>1, <3>2, <3>3, <3>4, <3>5, <3>6, <3>7, <3>8, <3>9, <3>10 DEF LifecycleInv
  <2> QED
    BY <2>3
<1>5. ASSUME ElectRun
      PROVE  LifecycleInv'
  <2>0. UNCHANGED <<subnet, known, dhcpServerList, r, created, changes>>
    BY <1>5 DEF ElectRun
  <2>1. CASE RunLaunch(e, e') /\ UNCHANGED dataLock
    <3>1. TypeOK'
      BY ZenonT(60), <2>0, <2>1 DEF RunLaunch, startDnsmasq, Young, Starts
    <3>2. Numbered'
      BY <2>0, <2>1, <3>1 DEF RunLaunch, startDnsmasq, Numbered
    <3>3. Locked'
      BY <2>0, <2>1, <3>1 DEF RunLaunch, startDnsmasq, Locked, Starts
    <3>4. Young(r)'
      BY <2>0, <2>1, <3>1 DEF RunLaunch, startDnsmasq, Young, Starts, Apart
    <3>5. Young(e)'
      BY <2>0, <2>1, <3>1 DEF RunLaunch, startDnsmasq, Young, Starts
    <3>6. Apart'
      BY <2>0, <2>1, <3>1 DEF RunLaunch, startDnsmasq, Apart, Starts
    <3>7. DeadWhenStarting'
      BY <2>0, <2>1, <3>1 DEF RunLaunch, startDnsmasq, DeadWhenStarting, Young, Starts
    <3>8. OneProcess'
      BY <2>0, <2>1, <3>1 DEF RunLaunch, startDnsmasq, OneProcess, Young, Starts
    <3>9. StaysListed' /\ KnownLater' /\ ListedServerRuns' /\ KnownIsApplied'
      BY <2>0, <2>1 DEF RunLaunch, startDnsmasq, StaysListed, Works, KnownLater, Starts,
         ListedServerRuns, KnownIsApplied
    <3> QED
      BY <3>1, <3>2, <3>3, <3>4, <3>5, <3>6, <3>7, <3>8, <3>9 DEF LifecycleInv
  <2>2. CASE RunFails(e, Idle) /\ e' = [Idle EXCEPT !.pc = "done"] /\ dataLock' = FALSE
    <3>1. TypeOK'
      <4>1. e' \in Electing
        BY <2>0, <2>2 DEF Electing
      <4>2. faults' \in 0..MaxFaults
        BY SMTT(30), <2>0, <2>2 DEF RunFails, Fault
      <4> QED
        BY <2>0, <2>2, <4>1, <4>2 DEF RunFails, Fault, srvVars, Reconciling, Electing
    <3>2. Numbered'
      BY <2>0, <2>2, <3>1 DEF RunFails, Fault, srvVars, Numbered
    <3>3. Locked'
      BY <2>0, <2>2, <3>1 DEF RunFails, Fault, srvVars, Locked, Starts
    <3>4. Young(e)'
      BY <2>0, <2>2, <3>1 DEF RunFails, Fault, srvVars, Young, Starts
    <3>5. Apart'
      BY <2>0, <2>2, <3>1 DEF RunFails, Fault, srvVars, Apart, Starts
    <3>6. StaysListed' /\ Young(r)' /\ DeadWhenStarting' /\ KnownLater' /\
       ListedServerRuns' /\ OneProcess' /\ KnownIsApplied'
      BY <2>0, <2>2 DEF RunFails, Fault, srvVars, StaysListed, Works, Young, Starts,
         DeadWhenStarting, KnownLater, ListedServerRuns, OneProcess, KnownIsApplied
    <3> QED
      BY <3>1, <3>2, <3>3, <3>4, <3>5, <3>6 DEF LifecycleInv
  <2>3. CASE RunNotify(e, e') /\ UNCHANGED dataLock
    <3>1. TypeOK'
      BY ZenonT(60), <2>0, <2>3 DEF RunNotify, NotifyStatus
    <3>2. Numbered'
      BY <2>0, <2>3, <3>1 DEF RunNotify, NotifyStatus, Numbered
    <3>3. Locked'
      BY <2>0, <2>3, <3>1 DEF RunNotify, NotifyStatus, Locked, Starts
    <3>4. Young(e)'
      BY <2>0, <2>3, <3>1 DEF RunNotify, NotifyStatus, Young, Starts
    <3>5. Apart'
      BY <2>0, <2>3, <3>1 DEF RunNotify, NotifyStatus, Apart, Starts
    <3>6. StaysListed' /\ Young(r)' /\ DeadWhenStarting' /\ KnownLater' /\
       ListedServerRuns' /\ OneProcess' /\ KnownIsApplied'
      BY <2>0, <2>3 DEF RunNotify, NotifyStatus, StaysListed, Works, Young, Starts,
         DeadWhenStarting, KnownLater, ListedServerRuns, OneProcess, KnownIsApplied
    <3> QED
      BY <3>1, <3>2, <3>3, <3>4, <3>5, <3>6 DEF LifecycleInv
  <2>4. CASE RunSpawn(e, e') /\ UNCHANGED dataLock
    <3>1. TypeOK'
      <4>1. e' \in Electing
        BY <2>0, <2>4 DEF RunSpawn, Electing
      <4>2. monitor' \in [Servers -> {"off", "select", "starting", "notify", "exited",
         "failed"}]
        BY <2>0, <2>4 DEF RunSpawn
      <4>3. faults' \in 0..MaxFaults
        BY <2>0, <2>4 DEF RunSpawn, Fault
      <4> QED
        BY SMTT(30), <2>0, <2>4, <4>1, <4>2, <4>3 DEF RunSpawn, Fault, Reconciling, Electing
    <3>2. Numbered'
      BY SMTT(30), <2>0, <2>4, <3>1 DEF RunSpawn, Fault, Numbered, OneProcess
    <3>3. Locked'
      BY <2>0, <2>4, <3>1 DEF RunSpawn, Fault, Locked, Starts
    <3>4. Young(r)'
      BY SMTT(30), <2>0, <2>4, <3>1 DEF RunSpawn, Fault, Young, Starts, Apart
    <3>5. Young(e)'
      BY <2>0, <2>4, <3>1 DEF RunSpawn, Fault, Young, Starts
    <3>6. Apart'
      BY <2>0, <2>4, <3>1 DEF RunSpawn, Fault, Apart, Starts
    <3>7. DeadWhenStarting'
      BY <2>0, <2>4, <3>1 DEF RunSpawn, Fault, DeadWhenStarting
    <3>8. ListedServerRuns'
      BY <2>0, <2>4, <3>1 DEF RunSpawn, Fault, ListedServerRuns
    <3>9. StaysListed' /\ KnownLater' /\ OneProcess' /\ KnownIsApplied'
      BY <2>0, <2>4 DEF RunSpawn, Fault, StaysListed, Works, KnownLater, Starts,
         OneProcess, KnownIsApplied
    <3> QED
      BY <3>1, <3>2, <3>3, <3>4, <3>5, <3>6, <3>7, <3>8, <3>9 DEF LifecycleInv
  <2> QED
    BY <1>5, <2>1, <2>2, <2>3, <2>4 DEF ElectRun
<1>6. ASSUME ElectInsert
      PROVE  LifecycleInv'
  <2>1. TypeOK'
    BY <1>6 DEF ElectInsert, srvVars
  <2>2. Numbered'
    BY <1>6, <2>1 DEF ElectInsert, srvVars, Numbered
  <2>3. Locked'
    BY <1>6, <2>1 DEF ElectInsert, srvVars, Locked, Starts
  <2>4. StaysListed'
    BY <1>6, <2>1 DEF ElectInsert, srvVars, StaysListed, Works, Locked, Starts
  <2>5. Young(r)'
    BY <1>6, <2>1 DEF ElectInsert, srvVars, Young, Starts, Apart
  <2>6. Young(e)'
    BY <1>6, <2>1 DEF ElectInsert, srvVars, Young, Starts
  <2>7. Apart'
    BY <1>6, <2>1 DEF ElectInsert, srvVars, Apart, Starts
  <2>8. KnownLater'
    BY <1>6, <2>1 DEF ElectInsert, srvVars, KnownLater, Starts, Young
  <2>9. ListedServerRuns'
    BY <1>6, <2>1 DEF ElectInsert, srvVars, ListedServerRuns, Young, Starts
  <2>10. KnownIsApplied'
    BY <1>6, <2>1 DEF ElectInsert, srvVars, KnownIsApplied, Locked, Starts
  <2>11. DeadWhenStarting' /\ OneProcess'
    BY <1>6 DEF ElectInsert, srvVars, DeadWhenStarting, OneProcess
  <2> QED
    BY <2>1, <2>2, <2>3, <2>4, <2>5, <2>6, <2>7, <2>8, <2>9, <2>10, <2>11
       DEF LifecycleInv
<1> QED
  BY <1>1, <1>2, <1>3, <1>4, <1>5, <1>6 DEF ElectNext

\* The worker of a server ends only when the server is stopped.
LEMMA WorkerKeepsInv ==
    ASSUME LifecycleInv, NEW k \in Servers, WorkerNext(k)
    PROVE  LifecycleInv'
<1> USE LifecycleAssumption DEF LifecycleInv, TypeOK, Idle, Servers, NoServer, Absent
<1>1. CASE WorkerExit(k)
  <2>1. TypeOK'
    BY <1>1 DEF WorkerExit, mgrVars
  <2>2. Young(r)'
    BY <1>1, <2>1 DEF WorkerExit, mgrVars, Young, Starts
  <2>3. Young(e)'
    BY <1>1, <2>1 DEF WorkerExit, mgrVars, Young, Starts
  <2>4. ListedServerRuns'
    BY <1>1, <2>1 DEF WorkerExit, mgrVars, ListedServerRuns
  <2>5. Numbered' /\ Locked' /\ StaysListed' /\ Apart' /\ DeadWhenStarting' /\
     KnownLater' /\ OneProcess' /\ KnownIsApplied'
    BY <1>1 DEF WorkerExit, mgrVars, Numbered, Locked, Starts, StaysListed, Works,
       Apart, DeadWhenStarting, KnownLater, OneProcess, KnownIsApplied
  <2> QED
    BY <2>1, <2>2, <2>3, <2>4, <2>5 DEF LifecycleInv
<1>2. CASE WorkerTick(k)
  <2>1. TypeOK'
    BY <1>2 DEF WorkerTick, mgrVars
  <2>2. Young(r)'
    BY <1>2, <2>1 DEF WorkerTick, mgrVars, Young, Starts
  <2>3. Young(e)'
    BY <1>2, <2>1 DEF WorkerTick, mgrVars, Young, Starts
  <2>4. ListedServerRuns'
    BY <1>2, <2>1 DEF WorkerTick, mgrVars, ListedServerRuns
  <2>5. Numbered' /\ Locked' /\ StaysListed' /\ Apart' /\ DeadWhenStarting' /\
     KnownLater' /\ OneProcess' /\ KnownIsApplied'
    BY <1>2 DEF WorkerTick, mgrVars, Numbered, Locked, Starts, StaysListed, Works,
       Apart, DeadWhenStarting, KnownLater, OneProcess, KnownIsApplied
  <2> QED
    BY <2>1, <2>2, <2>3, <2>4, <2>5 DEF LifecycleInv
<1>3. CASE WorkerUpdated(k)
  <2>1. TypeOK'
    BY <1>3 DEF WorkerUpdated, mgrVars
  <2>2. Young(r)'
    BY <1>3, <2>1 DEF WorkerUpdated, mgrVars, Young, Starts
  <2>3. Young(e)'
    BY <1>3, <2>1 DEF WorkerUpdated, mgrVars, Young, Starts
  <2>4. ListedServerRuns'
    BY <1>3, <2>1 DEF WorkerUpdated, mgrVars, ListedServerRuns
  <2>5. Numbered' /\ Locked' /\ StaysListed' /\ Apart' /\ DeadWhenStarting' /\
     KnownLater' /\ OneProcess' /\ KnownIsApplied'
    BY <1>3 DEF WorkerUpdated, mgrVars, Numbered, Locked, Starts, StaysListed, Works,
       Apart, DeadWhenStarting, KnownLater, OneProcess, KnownIsApplied
  <2> QED
    BY <2>1, <2>2, <2>3, <2>4, <2>5 DEF LifecycleInv
<1> QED
  BY <1>1, <1>2, <1>3 DEF WorkerNext

\* The monitor of a server ends only when the server is stopped, and starts
\* dnsmasq only while it is dead.
LEMMA MonitorKeepsInv ==
    ASSUME LifecycleInv, NEW k \in Servers, MonitorNext(k)
    PROVE  LifecycleInv'
<1> USE LifecycleAssumption DEF LifecycleInv, TypeOK, Idle, Servers, NoServer, Absent
<1>1. CASE MonitorExit(k)
  <2>1. TypeOK'
    BY <1>1 DEF MonitorExit, MonitorGoes
  <2>2. Numbered'
    BY <1>1, <2>1 DEF MonitorExit, MonitorGoes, Numbered
  <2>3. Young(r)'
    BY <1>1, <2>1 DEF MonitorExit, MonitorGoes, Young, Starts
  <2>4. Young(e)'
    BY <1>1, <2>1 DEF MonitorExit, MonitorGoes, Young, Starts
  <2>5. DeadWhenStarting'
    BY <1>1, <2>1 DEF MonitorExit, MonitorGoes, DeadWhenStarting
  <2>6. ListedServerRuns'
    BY <1>1, <2>1 DEF MonitorExit, MonitorGoes, ListedServerRuns
  <2>7. Locked' /\ StaysListed' /\ Apart' /\ KnownLater' /\ OneProcess' /\
     KnownIsApplied'
    BY <1>1 DEF MonitorExit, MonitorGoes, Locked, Starts, StaysListed, Works, Apart,
       KnownLater, OneProcess, KnownIsApplied
  <2> QED
    BY <2>1, <2>2, <2>3, <2>4, <2>5, <2>6, <2>7 DEF LifecycleInv
<1>2. CASE MonitorEvent(k)
  <2>1. TypeOK'
    BY <1>2 DEF MonitorEvent, MonitorGoes
  <2>2. Numbered'
    BY <1>2, <2>1 DEF MonitorEvent, MonitorGoes, Numbered
  <2>3. Young(r)'
    BY <1>2, <2>1 DEF MonitorEvent, MonitorGoes, Young, Starts
  <2>4. Young(e)'
    BY <1>2, <2>1 DEF MonitorEvent, MonitorGoes, Young, Starts
  <2>5. DeadWhenStarting'
    BY <1>2, <2>1 DEF MonitorEvent, MonitorGoes, DeadWhenStarting
  <2>6. ListedServerRuns'
    BY <1>2, <2>1 DEF MonitorEvent, MonitorGoes, ListedServerRuns
  <2>7. Locked' /\ StaysListed' /\ Apart' /\ KnownLater' /\ OneProcess' /\
     KnownIsApplied'
    BY <1>2 DEF MonitorEvent, MonitorGoes, Locked, Starts, StaysListed, Works, Apart,
       KnownLater, OneProcess, KnownIsApplied
  <2> QED
    BY <2>1, <2>2, <2>3, <2>4, <2>5, <2>6, <2>7 DEF LifecycleInv
<1>3. CASE MonitorRestartCh(k)
  <2>1. TypeOK'
    BY SMTT(30), <1>3 DEF MonitorRestartCh, MonitorGoes
  <2>2. Numbered'
    BY <1>3, <2>1 DEF MonitorRestartCh, MonitorGoes, Numbered
  <2>3. StaysListed'
    BY <1>3, <2>1 DEF MonitorRestartCh, MonitorGoes, StaysListed, Works
  <2>4. Young(r)'
    BY <1>3, <2>1 DEF MonitorRestartCh, MonitorGoes, Young, Starts
  <2>5. Young(e)'
    BY <1>3, <2>1 DEF MonitorRestartCh, MonitorGoes, Young, Starts
  <2>6. Apart'
    BY <1>3, <2>1 DEF MonitorRestartCh, MonitorGoes, Apart, Starts
  <2>7. DeadWhenStarting'
    BY <1>3, <2>1 DEF MonitorRestartCh, MonitorGoes, DeadWhenStarting
  <2>8. KnownLater'
    BY <1>3, <2>1 DEF MonitorRestartCh, MonitorGoes, KnownLater, Starts
  <2>9. ListedServerRuns'
    BY <1>3, <2>1 DEF MonitorRestartCh, MonitorGoes, ListedServerRuns
  <2>10. KnownIsApplied'
    BY <1>3, <2>1 DEF MonitorRestartCh, MonitorGoes, KnownIsApplied
  <2>11. Locked' /\ OneProcess'
    BY <1>3 DEF MonitorRestartCh, MonitorGoes, Locked, Starts, OneProcess
  <2> QED
    BY <2>1, <2>2, <2>3, <2>4, <2>5, <2>6, <2>7, <2>8, <2>9, <2>10, <2>11
       DEF LifecycleInv
<1>4. CASE MonitorTick(k)
  <2>1. TypeOK'
    BY <1>4 DEF MonitorTick, MonitorGoes
  <2>2. Numbered'
    BY <1>4, <2>1 DEF MonitorTick, MonitorGoes, Numbered
  <2>3. Young(r)'
    BY <1>4, <2>1 DEF MonitorTick, MonitorGoes, Young, Starts
  <2>4. Young(e)'
    BY <1>4, <2>1 DEF MonitorTick, MonitorGoes, Young, Starts
  <2>5. DeadWhenStarting'
    BY <1>4, <2>1 DEF MonitorTick, MonitorGoes, DeadWhenStarting
  <2>6. ListedServerRuns'
    BY <1>4, <2>1 DEF MonitorTick, MonitorGoes, ListedServerRuns
  <2>7. Locked' /\ StaysListed' /\ Apart' /\ KnownLater' /\ OneProcess' /\
     KnownIsApplied'
    BY <1>4 DEF MonitorTick, MonitorGoes, Locked, Starts, StaysListed, Works, Apart,
       KnownLater, OneProcess, KnownIsApplied
  <2> QED
    BY <2>1, <2>2, <2>3, <2>4, <2>5, <2>6, <2>7 DEF LifecycleInv
<1>5. CASE MonitorStarts(k)
  <2>1. TypeOK'
    BY <1>5 DEF MonitorStarts, MonitorGoes, startDnsmasq
  <2>2. Numbered'
    BY <1>5, <2>1 DEF MonitorStarts, MonitorGoes, startDnsmasq, Numbered
  <2>3. Young(r)'
    BY SMTT(30), <1>5, <2>1 DEF MonitorStarts, MonitorGoes, startDnsmasq, Young, Starts
  <2>4. Young(e)'
    BY SMTT(30), <1>5, <2>1 DEF MonitorStarts, MonitorGoes, startDnsmasq, Young, Starts
  <2>5. DeadWhenStarting'
    BY <1>5, <2>1 DEF MonitorStarts, MonitorGoes, startDnsmasq, DeadWhenStarting
  <2>6. ListedServerRuns'
    BY <1>5, <2>1 DEF MonitorStarts, MonitorGoes, startDnsmasq, ListedServerRuns
  <2>7. OneProcess'
    BY <1>5, <2>1 DEF MonitorStarts, MonitorGoes, startDnsmasq, OneProcess,
       DeadWhenStarting
  <2>8. Locked' /\ StaysListed' /\ Apart' /\ KnownLater' /\ KnownIsApplied'
    BY <1>5 DEF MonitorStarts, MonitorGoes, startDnsmasq, Locked, Starts, StaysListed,
       Works, Apart, KnownLater, KnownIsApplied
  <2> QED
    BY <2>1, <2>2, <2>3, <2>4, <2>5, <2>6, <2>7, <2>8 DEF LifecycleInv
<1>6. CASE MonitorStartFails(k)
  <2>1. TypeOK'
    BY <1>6 DEF MonitorStartFails, MonitorGoes, Fault
  <2>2. Numbered'
    BY <1>6, <2>1 DEF MonitorStartFails, MonitorGoes, Fault, Numbered
  <2>3. Young(r)'
    BY <1>6, <2>1 DEF MonitorStartFails, MonitorGoes, Fault, Young, Starts
  <2>4. Young(e)'
    BY <1>6, <2>1 DEF MonitorStartFails, MonitorGoes, Fault, Young, Starts
  <2>5. DeadWhenStarting'
    BY <1>6, <2>1 DEF MonitorStartFails, MonitorGoes, Fault, DeadWhenStarting
  <2>6. ListedServerRuns'
    BY <1>6, <2>1 DEF MonitorStartFails, MonitorGoes, Fault, ListedServerRuns
  <2>7. Locked' /\ StaysListed' /\ Apart' /\ KnownLater' /\ OneProcess' /\
     KnownIsApplied'
    BY <1>6 DEF MonitorStartFails, MonitorGoes, Fault, Locked, Starts, StaysListed,
       Works, Apart, KnownLater, OneProcess, KnownIsApplied
  <2> QED
    BY <2>1, <2>2, <2>3, <2>4, <2>5, <2>6, <2>7 DEF LifecycleInv
<1>7. CASE MonitorNotify(k)
  <2>1. TypeOK'
    BY <1>7 DEF MonitorNotify, MonitorGoes, NotifyStatus
  <2>2. Numbered'
    BY <1>7, <2>1 DEF MonitorNotify, MonitorGoes, NotifyStatus, Numbered
  <2>3. Young(r)'
    BY <1>7, <2>1 DEF MonitorNotify, MonitorGoes, NotifyStatus, Young, Starts
  <2>4. Young(e)'
    BY <1>7, <2>1 DEF MonitorNotify, MonitorGoes, NotifyStatus, Young, Starts
  <2>5. DeadWhenStarting'
    BY <1>7, <2>1 DEF MonitorNotify, MonitorGoes, NotifyStatus, DeadWhenStarting
  <2>6. ListedServerRuns'
    BY <1>7, <2>1 DEF MonitorNotify, MonitorGoes, NotifyStatus, ListedServerRuns
  <2>7. Locked' /\ StaysListed' /\ Apart' /\ KnownLater' /\ OneProcess' /\
     KnownIsApplied'
    BY <1>7 DEF MonitorNotify, MonitorGoes, NotifyStatus, Locked, Starts, StaysListed,
       Works, Apart, KnownLater, OneProcess, KnownIsApplied
  <2> QED
    BY <2>1, <2>2, <2>3, <2>4, <2>5, <2>6, <2>7 DEF LifecycleInv
<1> QED
  BY <1>1, <1>2, <1>3, <1>4, <1>5, <1>6, <1>7 DEF MonitorNext

\* A process that dies was the only one of its server.
LEMMA DeathKeepsInv ==
    ASSUME LifecycleInv, NEW k \in Servers, ProcessDies(k)
    PROVE  LifecycleInv'
<1> USE LifecycleAssumption DEF LifecycleInv, TypeOK, Idle, Servers, NoServer, Absent
<1>1. CASE ProcessDies(k)
  <2>1. TypeOK'
    BY <1>1 DEF ProcessDies, mgrVars, Fault
  <2>2. Numbered'
    BY <1>1, <2>1 DEF ProcessDies, mgrVars, Fault, Numbered
  <2>3. Young(r)'
    BY <1>1, <2>1 DEF ProcessDies, mgrVars, Fault, Young, Starts
  <2>4. Young(e)'
    BY <1>1, <2>1 DEF ProcessDies, mgrVars, Fault, Young, Starts
  <2>5. DeadWhenStarting'
    BY <1>1, <2>1 DEF ProcessDies, mgrVars, Fault, DeadWhenStarting
  <2>6. Locked' /\ StaysListed' /\ Apart' /\ KnownLater' /\ ListedServerRuns' /\
     OneProcess' /\ KnownIsApplied'
    BY <1>1 DEF ProcessDies, mgrVars, Fault, Locked, Starts, StaysListed, Works, Apart,
       KnownLater, ListedServerRuns, OneProcess, KnownIsApplied
  <2> QED
    BY <2>1, <2>2, <2>3, <2>4, <2>5, <2>6 DEF LifecycleInv
<1> QED
  BY <1>1

\* No server and no goroutine is there yet.
LEMMA InitEstablishesInv == Init => LifecycleInv
<1> SUFFICES ASSUME Init PROVE LifecycleInv
  OBVIOUS
<1> USE LifecycleAssumption DEF Init, Idle, Servers, NoServer, Absent
<1>1. TypeOK
  <2>1. subnet \in Versions \cup {Absent}
    BY DEF Versions
  <2>2. faults \in 0..MaxFaults /\ created \in 0..MaxServers /\
     changes \in 0..MaxChanges
    OBVIOUS
  <2>3. r \in Reconciling /\ e \in Electing
    BY DEF Reconciling, Electing
  <2> QED
    BY <2>1, <2>2, <2>3 DEF TypeOK, Reconciling, Electing
<1>2. Numbered /\ Locked /\ StaysListed /\ Young(r) /\ Young(e) /\ Apart
  BY DEF Numbered, Locked, StaysListed, Young, Apart, Starts, Works
<1>3. DeadWhenStarting /\ KnownLater /\ ListedServerRuns /\ OneProcess /\ KnownIsApplied
  BY DEF DeadWhenStarting, KnownLater, Starts, ListedServerRuns, OneProcess,
     KnownIsApplied
<1> QED
  BY <1>1, <1>2, <1>3 DEF LifecycleInv

\* LifecycleInv is inductive.
LEMMA NextKeepsInv == LifecycleInv /\ [Next]_vars => LifecycleInv'
<1> SUFFICES ASSUME LifecycleInv, [Next]_vars PROVE LifecycleInv'
  OBVIOUS
<1>1. CASE UNCHANGED vars
  BY <1>1 DEF vars, mgrVars, srvVars, LifecycleInv, TypeOK, Numbered, Locked,
     StaysListed,
     Young, Starts, Works, Apart, DeadWhenStarting, KnownLater, ListedServerRuns,
     OneProcess, KnownIsApplied
<1> QED
  BY <1>1, UsersKeepInv, ReconcileKeepsInv, ElectKeepsInv, WorkerKeepsInv,
     MonitorKeepsInv,
     DeathKeepsInv DEF Next

-----------------------------------------------------------------------------
(* The theorems                                                              *)

\* LifecycleInv holds in every reachable state.
THEOREM LifecycleInvariant == Spec => []LifecycleInv
  BY InitEstablishesInv, NextKeepsInv, PTL DEF Spec

\* Type correctness of the servers, their goroutines and their processes.
THEOREM LifecycleTypeCorrect == Spec => []TypeOK
<1>1. LifecycleInv => TypeOK
  BY DEF LifecycleInv
<1> QED
  BY <1>1, LifecycleInvariant, PTL

\* The listed server can be talked to while nobody stops it, and no server is
\* stopped twice, which would be a panic.
THEOREM ListedServerRunsAlways == Spec => []ListedServerRuns
<1>1. LifecycleInv => ListedServerRuns
  BY DEF LifecycleInv
<1> QED
  BY <1>1, LifecycleInvariant, PTL

\* No server ever has two live dnsmasq processes.
THEOREM OneProcessAlways == Spec => []OneProcess
<1>1. LifecycleInv => OneProcess
  BY DEF LifecycleInv
<1> QED
  BY <1>1, LifecycleInvariant, PTL

\* A spec that SubnetCache holds has reached the listed server.
THEOREM KnownIsAppliedAlways == Spec => []KnownIsApplied
<1>1. LifecycleInv => KnownIsApplied
  BY DEF LifecycleInv
<1> QED
  BY <1>1, LifecycleInvariant, PTL
=============================================================================
