----------------------- MODULE BindingIpPipelineProofs -----------------------
(***************************************************************************)
(* Proofs that BindingIpPipeline keeps its type invariant and loses no add *)
(* event, for any sets of names, subnets, addresses and MACs, any channel  *)
(* capacity and any number of user changes and faults.                     *)
(***************************************************************************)
EXTENDS BindingIpPipeline, TLAPS

-----------------------------------------------------------------------------
(* The inductive invariant                                                   *)

\* What the API server, the informer and the cache hold under a name is a
\* spec which that name has had; a spec that outlived its object is removed.
Tracked ==
    \A n \in Names :
        /\ \A i \in {bindingIps[n], seen[n], cache[n]} \ {None} :
              i \in ever /\ i.name = n
        /\ bindingIps[n] = None => {seen[n], cache[n]} \subseteq removed \cup {None}
        /\ seen[n] = None => cache[n] \in removed \cup {None}

\* Add events carry specs some object has had, and sit in the channels of
\* the server of their subnet.
AddsRequested ==
    /\ outbox # None /\ outbox.op = "add" => outbox.info \in ever
    /\ Elems(addedBindingIp) \subseteq ever
    /\ inflight # None /\ inflight.op = "add" => inflight.info \in ever
    /\ \A i \in Info : sleeping[[op |-> "add", info |-> i]] > 0 => i \in ever
    /\ \A s \in Subnets : \A i \in Elems(srvAdded[s]) : i \in ever /\ i.subnet = s
    /\ replay # None => \A i \in replay.todo : i \in ever /\ i.subnet = replay.subnet

\* Delete events carry specs of objects that were deleted.
DeletesRemoved ==
    /\ removed \subseteq ever
    /\ outbox # None /\ outbox.op = "del" => outbox.info \in removed
    /\ Elems(deletedBindingIp) \subseteq removed
    /\ inflight # None /\ inflight.op = "del" => inflight.info \in removed
    /\ \A i \in Info : sleeping[[op |-> "del", info |-> i]] > 0 => i \in removed
    /\ \A s \in Subnets :
          \A i \in Elems(srvDeleted[s]) : i \in removed /\ i.subnet = s

\* Tables, files and processes hold requested specs in their places.
InPlace(f) ==
    \A s \in Subnets, ip \in IPs :
        f[s][ip] # None =>
            f[s][ip] \in ever /\ f[s][ip].subnet = s /\ f[s][ip].ip = ip

TablesRequested == InPlace(table) /\ InPlace(hosts) /\ InPlace(loaded)

\* Until processBindingIpEvents runs, each cached spec waits in the channel.
BeforeElection ==
    elected # "yes" =>
        /\ inflight = None
        /\ \A e \in Event : sleeping[e] = 0
        /\ \A n \in Names : cache[n] # None => Queued(cache[n])

PipelineInv ==
    /\ TypeOK
    /\ Tracked
    /\ AddsRequested
    /\ DeletesRemoved
    /\ TablesRequested
    /\ BeforeElection
    /\ NothingLost

-----------------------------------------------------------------------------
(* Facts about channels and frames                                           *)

\* An empty channel holds nothing.
LEMMA ElemsEmpty == Elems(<<>>) = {}
  BY DEF Elems

\* A send adds one event to a channel and loses none.
LEMMA ElemsAppend ==
  ASSUME NEW S, NEW q \in Seq(S), NEW x \in S
  PROVE  /\ Append(q, x) \in Seq(S)
         /\ Elems(Append(q, x)) = Elems(q) \cup {x}
  <1>1. Append(q, x) \in Seq(S)
    OBVIOUS
  <1>2. ASSUME NEW y \in Elems(q) PROVE y \in Elems(Append(q, x))
    <2>1. PICK k \in DOMAIN q : y = q[k]
      BY <1>2 DEF Elems
    <2>2. k \in DOMAIN Append(q, x) /\ Append(q, x)[k] = q[k]
      OBVIOUS
    <2> QED
      BY <2>1, <2>2 DEF Elems
  <1>3. x \in Elems(Append(q, x))
    <2>1. Len(q) + 1 \in DOMAIN Append(q, x) /\ Append(q, x)[Len(q) + 1] = x
      OBVIOUS
    <2> QED
      BY <2>1 DEF Elems
  <1>4. ASSUME NEW y \in Elems(Append(q, x)) PROVE y \in Elems(q) \cup {x}
    <2>1. PICK k \in DOMAIN Append(q, x) : y = Append(q, x)[k]
      BY <1>4 DEF Elems
    <2>2. CASE k = Len(q) + 1
      BY <2>1, <2>2
    <2>3. CASE k # Len(q) + 1
      <3>1. k \in DOMAIN q /\ y = q[k]
        BY <2>1, <2>3
      <3> QED
        BY <3>1 DEF Elems
    <2> QED
      BY <2>2, <2>3
  <1> QED
    BY <1>1, <1>2, <1>3, <1>4

\* A receive takes the head of a channel and leaves the others.
LEMMA ElemsTail ==
  ASSUME NEW S, NEW q \in Seq(S), q # <<>>
  PROVE  /\ Head(q) \in S
         /\ Tail(q) \in Seq(S)
         /\ Elems(q) = Elems(Tail(q)) \cup {Head(q)}
  <1>1. Head(q) \in S /\ Tail(q) \in Seq(S)
    OBVIOUS
  <1>2. Head(q) \in Elems(q)
    <2>1. 1 \in DOMAIN q /\ Head(q) = q[1]
      OBVIOUS
    <2> QED
      BY <2>1 DEF Elems
  <1>3. ASSUME NEW y \in Elems(Tail(q)) PROVE y \in Elems(q)
    <2>1. PICK k \in DOMAIN Tail(q) : y = Tail(q)[k]
      BY <1>3 DEF Elems
    <2>2. k + 1 \in DOMAIN q /\ Tail(q)[k] = q[k + 1]
      OBVIOUS
    <2> QED
      BY <2>1, <2>2 DEF Elems
  <1>4. ASSUME NEW y \in Elems(q), y # Head(q) PROVE y \in Elems(Tail(q))
    <2>1. PICK k \in DOMAIN q : y = q[k]
      BY <1>4 DEF Elems
    <2>2. k # 1
      BY <1>4, <2>1
    <2>3. k - 1 \in DOMAIN Tail(q) /\ Tail(q)[k - 1] = q[k]
      BY <2>2
    <2> QED
      BY <2>1, <2>3 DEF Elems
  <1> QED
    BY <1>1, <1>2, <1>3, <1>4

Bindings == [IPs -> Info \cup {None}]

\* Sends to, receives from and updates of one server keep the types of the
\* per-subnet functions.
LEMMA ServerTypes ==
  ASSUME NEW s \in Subnets
  PROVE  /\ \A f \in [Subnets -> Seq(Info)], i \in Info :
               [f EXCEPT ![s] = Append(@, i)] \in [Subnets -> Seq(Info)]
         /\ \A f \in [Subnets -> Seq(Info)] :
               f[s] # <<>> => /\ Head(f[s]) \in Info
                              /\ [f EXCEPT ![s] = Tail(@)] \in [Subnets -> Seq(Info)]
         /\ \A f \in [Subnets -> Bindings], t \in Bindings :
               [f EXCEPT ![s] = t] \in [Subnets -> Bindings]
         /\ \A f \in [Subnets -> Bindings], ip \in IPs, v \in Info \cup {None} :
               [f EXCEPT ![s][ip] = v] \in [Subnets -> Bindings]
         /\ NoBindings \in Bindings
  <1>1. ASSUME NEW f \in [Subnets -> Seq(Info)], NEW i \in Info
        PROVE  [f EXCEPT ![s] = Append(@, i)] \in [Subnets -> Seq(Info)]
    <2>1. Append(f[s], i) \in Seq(Info)
      OBVIOUS
    <2> QED
      BY <2>1
  <1>2. ASSUME NEW f \in [Subnets -> Seq(Info)], f[s] # <<>>
        PROVE  /\ Head(f[s]) \in Info
               /\ [f EXCEPT ![s] = Tail(@)] \in [Subnets -> Seq(Info)]
    <2>1. Head(f[s]) \in Info /\ Tail(f[s]) \in Seq(Info)
      BY <1>2, ElemsTail
    <2> QED
      BY <2>1
  <1>3. \A f \in [Subnets -> Bindings], t \in Bindings :
           [f EXCEPT ![s] = t] \in [Subnets -> Bindings]
    OBVIOUS
  <1>4. \A f \in [Subnets -> Bindings], ip \in IPs, v \in Info \cup {None} :
           [f EXCEPT ![s][ip] = v] \in [Subnets -> Bindings]
    BY DEF Bindings
  <1>5. NoBindings \in Bindings
    BY DEF NoBindings, Bindings
  <1> QED
    BY <1>1, <1>2, <1>3, <1>4, <1>5

\* Only users change the API objects and the histories, but for the status.
LEMMA ApiFrame ==
  ASSUME ControllerNext \/ ManagerNext \/ MonitorNext \/ FaultNext
  PROVE  UNCHANGED <<bindingIps, subnets, changes, ever, removed>>
  BY DEF ControllerNext, ManagerNext, MonitorNext, FaultNext, InformerSync,
         ReconcileDeleted, ReconcileExisting, SendEvent, TakeAdded, TakeDeleted,
         Forward, Resend, Elect, ElectListFails, SubnetReconcile, ReplayList,
         ReplaySend, StartServer, StopServer, MonitorAdded, MonitorDeleted,
         MonitorRestartCh, MonitorTick, ProcessDies, AgentRestart, apiVars

\* Users, subnet manager and monitors leave the controller alone.
LEMMA ControllerFrame ==
  ASSUME UserNext \/ ManagerNext \/ MonitorNext
  PROVE  UNCHANGED <<seen, cache, outbox>>
  BY DEF UserNext, ManagerNext, MonitorNext, CreateBindingIp, UpdateBindingIp,
         DeleteBindingIp, CreateSubnet, DeleteSubnet, TakeAdded, TakeDeleted,
         Forward, Resend, Elect, ElectListFails, SubnetReconcile, ReplayList,
         ReplaySend, StartServer, StopServer, MonitorAdded, MonitorDeleted,
         MonitorRestartCh, MonitorTick, ctlVars

\* Users, controller and monitors leave the subnet manager alone.
LEMMA ManagerFrame ==
  ASSUME UserNext \/ MonitorNext
  PROVE  UNCHANGED <<addedBindingIp, deletedBindingIp, elected, inflight, sleeping,
                     dhcpServerList, replay>>
  BY DEF UserNext, MonitorNext, CreateBindingIp, UpdateBindingIp,
         DeleteBindingIp, CreateSubnet, DeleteSubnet, MonitorAdded,
         MonitorDeleted, MonitorRestartCh, MonitorTick, mgrVars, srvVars

\* Users and controller leave the servers alone.
LEMMA ServerFrame ==
  ASSUME UserNext \/ ControllerNext
  PROVE  UNCHANGED srvVars
  BY DEF UserNext, ControllerNext, CreateBindingIp, UpdateBindingIp,
         DeleteBindingIp, CreateSubnet, DeleteSubnet, InformerSync,
         ReconcileDeleted, ReconcileExisting, SendEvent

-----------------------------------------------------------------------------
(* Type correctness                                                          *)

\* Requests of users keep the types.
LEMMA TypeUser == ASSUME TypeOK, UserNext PROVE TypeOK'
  <1> USE DEF TypeOK, UserChange, apiVars, ctlVars, mgrVars, srvVars
  <1>1. ASSUME NEW n \in Names, NEW i \in Info, CreateBindingIp(n, i) PROVE TypeOK'
    BY <1>1 DEF CreateBindingIp
  <1>2. ASSUME NEW n \in Names, NEW i \in Info, UpdateBindingIp(n, i) PROVE TypeOK'
    BY <1>2 DEF UpdateBindingIp
  <1>3. ASSUME NEW n \in Names, DeleteBindingIp(n) PROVE TypeOK'
    BY <1>3 DEF DeleteBindingIp
  <1>4. ASSUME NEW s \in Subnets, CreateSubnet(s) PROVE TypeOK'
    BY <1>4 DEF CreateSubnet
  <1>5. ASSUME NEW s \in Subnets, DeleteSubnet(s) PROVE TypeOK'
    BY <1>5 DEF DeleteSubnet
  <1> QED
    BY <1>1, <1>2, <1>3, <1>4, <1>5 DEF UserNext

\* The controller's steps keep the types.
LEMMA TypeController == ASSUME TypeOK, ControllerNext PROVE TypeOK'
  <1> USE DEF TypeOK, apiVars, ctlVars, mgrVars, srvVars
  <1>1. ASSUME NEW n \in Names, InformerSync(n) PROVE TypeOK'
    BY <1>1 DEF InformerSync
  <1>2. ASSUME NEW n \in Names, ReconcileDeleted(n) PROVE TypeOK'
    BY <1>2 DEF ReconcileDeleted, Event
  <1>3. ASSUME NEW n \in Names, ReconcileExisting(n) PROVE TypeOK'
    <2>1. valid' \in [Names -> BOOLEAN]
      BY <1>3 DEF ReconcileExisting, updateBindingIPStatus, InRange
    <2>2. cache' \in [Names -> Info \cup {None}] /\ outbox' \in Event \cup {None}
      <3> HIDE DEF TypeOK, apiVars, ctlVars, mgrVars, srvVars
      <3>1. /\ cache \in [Names -> Info \cup {None}]
            /\ seen[n] \in Info
            /\ outbox = None
        BY <1>3 DEF TypeOK, ReconcileExisting
      <3>2. [op |-> "add", info |-> seen[n]] \in Event
        BY <3>1 DEF Event
      <3> QED
        BY <1>3, <3>1, <3>2 DEF ReconcileExisting, processBindingIP
    <2> QED
      BY <1>3, <2>1, <2>2 DEF ReconcileExisting
  <1>4. ASSUME SendEvent PROVE TypeOK'
    <2>1. outbox.info \in Info
      BY <1>4 DEF SendEvent, Event
    <2>2. addedBindingIp' \in Seq(Info) /\ deletedBindingIp' \in Seq(Info)
      <3> HIDE DEF TypeOK, apiVars, ctlVars, mgrVars, srvVars
      <3>1. addedBindingIp \in Seq(Info) /\ deletedBindingIp \in Seq(Info)
        BY DEF TypeOK
      <3>2. /\ Append(addedBindingIp, outbox.info) \in Seq(Info)
            /\ Append(deletedBindingIp, outbox.info) \in Seq(Info)
        BY <2>1, <3>1
      <3> QED
        BY <1>4, <3>1, <3>2 DEF SendEvent
    <2> QED
      BY <1>4, <2>2 DEF SendEvent
  <1> QED
    BY <1>1, <1>2, <1>3, <1>4 DEF ControllerNext

\* The subnet manager's steps keep the types.
LEMMA TypeManager == ASSUME TypeOK, ManagerNext PROVE TypeOK'
  <1> USE DEF TypeOK, apiVars, ctlVars, mgrVars, srvVars
  <1>1. ASSUME NEW e \in Event, Dispatch(e)
        PROVE  inflight' \in Event \cup {None} /\ sleeping' \in [Event -> Nat]
    BY <1>1 DEF Dispatch
  <1>2. ASSUME TakeAdded PROVE TypeOK'
    <2>1. Tail(addedBindingIp) \in Seq(Info) /\ Head(addedBindingIp) \in Info
      BY <1>2 DEF TakeAdded
    <2>2. [op |-> "add", info |-> Head(addedBindingIp)] \in Event
      BY <2>1 DEF Event
    <2> QED
      BY <1>1, <1>2, <2>1, <2>2 DEF TakeAdded
  <1>3. ASSUME TakeDeleted PROVE TypeOK'
    <2>1. Tail(deletedBindingIp) \in Seq(Info) /\ Head(deletedBindingIp) \in Info
      BY <1>3 DEF TakeDeleted
    <2>2. [op |-> "del", info |-> Head(deletedBindingIp)] \in Event
      BY <2>1 DEF Event
    <2> QED
      BY <1>1, <1>3, <2>1, <2>2 DEF TakeDeleted
  <1>4. ASSUME Forward PROVE TypeOK'
    <2>1. inflight.info \in Info /\ inflight.info.subnet \in Subnets
      BY <1>4 DEF Forward, Event, Info
    <2>2. srvAdded' \in [Subnets -> Seq(Info)] /\ srvDeleted' \in [Subnets -> Seq(Info)]
      <3> HIDE DEF TypeOK, apiVars, ctlVars, mgrVars, srvVars
      <3>1. srvAdded \in [Subnets -> Seq(Info)] /\ srvDeleted \in [Subnets -> Seq(Info)]
        BY DEF TypeOK
      <3>2. /\ Append(srvAdded[inflight.info.subnet], inflight.info) \in Seq(Info)
            /\ Append(srvDeleted[inflight.info.subnet], inflight.info) \in Seq(Info)
        BY <2>1, <3>1
      <3> QED
        BY <1>4, <2>1, <3>1, <3>2 DEF Forward
    <2> QED
      BY <1>4, <2>2 DEF Forward
  <1>5. ASSUME NEW e \in Event, Resend(e) PROVE TypeOK'
    <2>1. e.info \in Info
      BY DEF Event
    <2>2. addedBindingIp' \in Seq(Info) /\ deletedBindingIp' \in Seq(Info)
      <3> HIDE DEF TypeOK, apiVars, ctlVars, mgrVars, srvVars
      <3>1. addedBindingIp \in Seq(Info) /\ deletedBindingIp \in Seq(Info)
        BY DEF TypeOK
      <3>2. /\ Append(addedBindingIp, e.info) \in Seq(Info)
            /\ Append(deletedBindingIp, e.info) \in Seq(Info)
        BY <2>1, <3>1
      <3> QED
        BY <1>5, <3>1, <3>2 DEF Resend
    <2>3. sleeping' \in [Event -> Nat]
      BY <1>5 DEF Resend
    <2> QED
      BY <1>5, <2>2, <2>3 DEF Resend
  <1>6. ASSUME NEW S \in SUBSET Subnets, StartServers(S)
        PROVE  /\ dhcpServerList' \subseteq Subnets
               /\ srvAdded' \in [Subnets -> Seq(Info)]
               /\ srvDeleted' \in [Subnets -> Seq(Info)]
               /\ table' \in [Subnets -> [IPs -> Info \cup {None}]]
               /\ hosts' \in [Subnets -> [IPs -> Info \cup {None}]]
               /\ loaded' \in [Subnets -> [IPs -> Info \cup {None}]]
               /\ alive' \subseteq Subnets
               /\ torn' \subseteq Subnets
    BY <1>6 DEF StartServers, NoBindings
  <1>7. ASSUME Elect PROVE TypeOK'
    <2>1. PICK S \in SUBSET (subnets \ dhcpServerList) : StartServers(S)
      BY <1>7 DEF Elect
    <2> QED
      BY <1>6, <1>7, <2>1 DEF Elect
  <1>8. ASSUME ElectListFails PROVE TypeOK'
    BY <1>8 DEF ElectListFails
  <1>9. ASSUME NEW s \in Subnets, StartServer(s) PROVE TypeOK'
    <2>1. replay' \in Replay
      BY <1>9 DEF StartServer, Replay
    <2> QED
      BY <1>6, <1>9, <2>1 DEF StartServer
  <1>10. ASSUME ReplayList PROVE TypeOK'
    <2>1. replay' \in Replay \cup {None}
      BY <1>10 DEF ReplayList, Replay
    <2> QED
      BY <1>10, <2>1 DEF ReplayList
  <1>11. ASSUME NEW i \in Info, ReplaySend(i) PROVE TypeOK'
    <2>1. replay' \in Replay \cup {None}
      BY <1>11 DEF ReplaySend, Replay
    <2>2. srvAdded' \in [Subnets -> Seq(Info)]
      BY <1>11 DEF ReplaySend, Replay
    <2> QED
      BY <1>11, <2>1, <2>2 DEF ReplaySend
  <1>12. ASSUME NEW s \in Subnets, StopServer(s) PROVE TypeOK'
    BY <1>12 DEF StopServer, NoBindings
  <1> QED
    BY <1>2, <1>3, <1>4, <1>5, <1>7, <1>8, <1>9, <1>10, <1>11, <1>12
       DEF ManagerNext, SubnetReconcile

\* The monitor's steps keep the types.
LEMMA TypeMonitor == ASSUME TypeOK, MonitorNext PROVE TypeOK'
  <1> USE DEF TypeOK, apiVars, ctlVars, mgrVars, srvVars
  <1>1. ASSUME NEW s \in Subnets, Rewrite(s),
               table' \in [Subnets -> [IPs -> Info \cup {None}]]
        PROVE  /\ hosts' \in [Subnets -> [IPs -> Info \cup {None}]]
               /\ loaded' \in [Subnets -> [IPs -> Info \cup {None}]]
               /\ torn' \subseteq Subnets
               /\ faults' \in Nat
    <2>1. table'[s] \in Bindings
      BY <1>1 DEF Bindings
    <2>2. CASE WriteAndReload(s, table'[s])
      BY <2>1, <2>2, ServerTypes DEF WriteAndReload, Bindings
    <2>3. CASE WriteFails(s)
      <3> HIDE DEF TypeOK, apiVars, ctlVars, mgrVars, srvVars
      <3>1. /\ hosts \in [Subnets -> Bindings] /\ loaded \in [Subnets -> Bindings]
            /\ torn \subseteq Subnets /\ faults \in Nat
        BY DEF TypeOK, Bindings
      <3>2. [hosts EXCEPT ![s] = NoBindings] \in [Subnets -> Bindings]
        BY <3>1, ServerTypes
      <3>3. hosts' \in [Subnets -> Bindings] /\ loaded' \in [Subnets -> Bindings]
        BY <2>3, <3>1, <3>2 DEF WriteFails
      <3>4. torn' \subseteq Subnets /\ faults' \in Nat
        BY <2>3, <3>1 DEF WriteFails
      <3> QED
        BY <3>3, <3>4 DEF Bindings
    <2> QED
      BY <1>1, <2>2, <2>3 DEF Rewrite
  <1>2. ASSUME NEW s \in Subnets, MonitorAdded(s) PROVE TypeOK'
    <2> DEFINE i == Head(srvAdded[s])
    <2>1. i \in Info /\ i.ip \in IPs /\ srvAdded' \in [Subnets -> Seq(Info)]
      <3>1. i \in Info /\ srvAdded' \in [Subnets -> Seq(Info)]
        BY <1>2, ServerTypes DEF MonitorAdded
      <3> QED
        BY <3>1 DEF Info
    <2>2. CASE Bound(s, i)
      BY <1>2, <2>1, <2>2 DEF MonitorAdded
    <2>3. CASE ~Bound(s, i)
      <3>1. table' \in [Subnets -> [IPs -> Info \cup {None}]] /\ Rewrite(s)
        <4> HIDE DEF TypeOK, apiVars, ctlVars, mgrVars, srvVars
        <4>1. table \in [Subnets -> Bindings]
          BY DEF TypeOK, Bindings
        <4>2. table' = [table EXCEPT ![s][i.ip] = i] /\ Rewrite(s)
          BY <1>2, <2>3 DEF MonitorAdded
        <4>3. [table EXCEPT ![s][i.ip] = i] \in [Subnets -> Bindings]
          BY <2>1, <4>1, ServerTypes
        <4> QED
          BY <4>2, <4>3 DEF Bindings
      <3> QED
        BY <1>1, <1>2, <2>1, <3>1 DEF MonitorAdded
    <2> QED
      BY <2>2, <2>3
  <1>3. ASSUME NEW s \in Subnets, MonitorDeleted(s) PROVE TypeOK'
    <2> DEFINE i == Head(srvDeleted[s])
    <2>1. i \in Info /\ i.ip \in IPs /\ srvDeleted' \in [Subnets -> Seq(Info)]
      <3>1. i \in Info /\ srvDeleted' \in [Subnets -> Seq(Info)]
        BY <1>3, ServerTypes DEF MonitorDeleted
      <3> QED
        BY <3>1 DEF Info
    <2>2. CASE ~Bound(s, i)
      BY <1>3, <2>1, <2>2 DEF MonitorDeleted
    <2>3. CASE Bound(s, i)
      <3>1. table' \in [Subnets -> [IPs -> Info \cup {None}]] /\ Rewrite(s)
        <4> HIDE DEF TypeOK, apiVars, ctlVars, mgrVars, srvVars
        <4>1. table \in [Subnets -> Bindings]
          BY DEF TypeOK, Bindings
        <4>2. table' = [table EXCEPT ![s][i.ip] = None] /\ Rewrite(s)
          BY <1>3, <2>3 DEF MonitorDeleted
        <4>3. [table EXCEPT ![s][i.ip] = None] \in [Subnets -> Bindings]
          BY <2>1, <4>1, ServerTypes
        <4> QED
          BY <4>2, <4>3 DEF Bindings
      <3> QED
        BY <1>1, <1>3, <2>1, <3>1 DEF MonitorDeleted
    <2> QED
      BY <2>2, <2>3
  <1>4. ASSUME NEW s \in Subnets, MonitorRestartCh(s) PROVE TypeOK'
    BY <1>1, <1>4 DEF MonitorRestartCh
  <1>5. ASSUME NEW s \in Subnets, MonitorTick(s) PROVE TypeOK'
    BY <1>5 DEF MonitorTick
  <1> QED
    BY <1>2, <1>3, <1>4, <1>5 DEF MonitorNext

\* Process deaths and restarts keep the types.
LEMMA TypeFault == ASSUME TypeOK, FaultNext PROVE TypeOK'
  <1> USE DEF TypeOK, apiVars, ctlVars, mgrVars, srvVars
  <1>1. ASSUME NEW s \in Subnets, ProcessDies(s) PROVE TypeOK'
    BY <1>1 DEF ProcessDies
  <1>2. ASSUME AgentRestart PROVE TypeOK'
    BY <1>2 DEF AgentRestart, NoBindings
  <1> QED
    BY <1>1, <1>2 DEF FaultNext

\* Every step keeps the types.
LEMMA TypeStep == ASSUME TypeOK, [Next]_vars PROVE TypeOK'
  <1>1. CASE UNCHANGED vars
    BY <1>1 DEF TypeOK, vars, apiVars, ctlVars, mgrVars, srvVars
  <1> QED
    BY <1>1, TypeUser, TypeController, TypeManager, TypeMonitor, TypeFault DEF Next

\* Every variable keeps its type in every reachable state.
THEOREM TypeCorrect == Spec => []TypeOK
  <1>1. Init => TypeOK
    BY DEF Init, TypeOK, NoBindings
  <1> QED
    BY <1>1, TypeStep, PTL DEF Spec

-----------------------------------------------------------------------------
(* Where specs and events come from                                          *)

\* Every step keeps Tracked: the informer and the cache only copy specs.
LEMMA TrackedStep == ASSUME TypeOK, Tracked, [Next]_vars PROVE Tracked'
  <1>1. CASE UNCHANGED <<bindingIps, seen, cache, ever, removed>>
    BY <1>1 DEF Tracked
  <1> DEFINE Objects == /\ bindingIps \in [Names -> Info \cup {None}]
                        /\ seen \in [Names -> Info \cup {None}]
                        /\ cache \in [Names -> Info \cup {None}]
  <1>2. Objects
    BY DEF TypeOK
  <1>3. ASSUME NEW n \in Names, NEW i \in Info,
               CreateBindingIp(n, i) \/ UpdateBindingIp(n, i)
        PROVE  Tracked'
    <2>1. /\ bindingIps' = [bindingIps EXCEPT ![n] = i]
          /\ i.name = n /\ i # None
          /\ ever' = ever \cup {i}
          /\ UNCHANGED <<seen, cache, removed>>
      BY <1>3, PipelineAssumption DEF CreateBindingIp, UpdateBindingIp, ctlVars
    <2> QED
      BY <1>2, <2>1 DEF Tracked
  <1>4. ASSUME NEW n \in Names, DeleteBindingIp(n) PROVE Tracked'
    <2>1. /\ bindingIps' = [bindingIps EXCEPT ![n] = None]
          /\ removed' = removed \cup {i \in ever : i.name = n}
          /\ UNCHANGED <<seen, cache, ever>>
      BY <1>4 DEF DeleteBindingIp, ctlVars
    <2> QED
      BY <1>2, <2>1 DEF Tracked
  <1>5. ASSUME NEW s \in Subnets, CreateSubnet(s) \/ DeleteSubnet(s) PROVE Tracked'
    BY <1>1, <1>5 DEF CreateSubnet, DeleteSubnet, ctlVars
  <1>6. ASSUME NEW n \in Names, InformerSync(n) PROVE Tracked'
    <2>1. /\ seen' = [seen EXCEPT ![n] = bindingIps[n]]
          /\ UNCHANGED <<bindingIps, cache, ever, removed>>
      BY <1>6 DEF InformerSync, apiVars
    <2> QED
      BY <1>2, <2>1 DEF Tracked
  <1>7. ASSUME NEW n \in Names, ReconcileDeleted(n) PROVE Tracked'
    <2>1. /\ cache' = [cache EXCEPT ![n] = None]
          /\ UNCHANGED <<bindingIps, seen, ever, removed>>
      BY <1>7 DEF ReconcileDeleted, apiVars
    <2> QED
      BY <1>2, <2>1 DEF Tracked
  <1>8. ASSUME NEW n \in Names, ReconcileExisting(n) PROVE Tracked'
    <2>1. /\ seen[n] # None
          /\ cache' = [cache EXCEPT ![n] = seen[n]] \/ UNCHANGED cache
          /\ UNCHANGED <<bindingIps, seen, ever, removed>>
      BY <1>8 DEF ReconcileExisting, processBindingIP
    <2> QED
      BY <1>2, <2>1 DEF Tracked
  <1>9. CASE SendEvent
    BY <1>1, <1>9 DEF SendEvent, apiVars
  <1>10. CASE ManagerNext \/ MonitorNext
    BY <1>1, <1>10, ApiFrame, ControllerFrame
  <1>11. ASSUME NEW s \in Subnets, ProcessDies(s) PROVE Tracked'
    BY <1>1, <1>11 DEF ProcessDies, apiVars, ctlVars
  <1>12. CASE AgentRestart
    <2>1. /\ seen' = bindingIps
          /\ cache' = [n \in Names |-> None]
          /\ UNCHANGED <<bindingIps, ever, removed>>
      BY <1>12 DEF AgentRestart, apiVars
    <2> QED
      BY <1>2, <2>1 DEF Tracked
  <1>13. CASE UNCHANGED vars
    BY <1>1, <1>13 DEF vars, apiVars, ctlVars
  <1> QED
    BY <1>3, <1>4, <1>5, <1>6, <1>7, <1>8, <1>9, <1>10, <1>11, <1>12, <1>13
       DEF Next, UserNext, ControllerNext, FaultNext

\* A user step only adds to the histories.
LEMMA HistoryGrows ==
  ASSUME [Next]_vars
  PROVE  ever \subseteq ever' /\ removed \subseteq removed'
  <1>1. CASE UserNext
    BY <1>1 DEF UserNext, CreateBindingIp, UpdateBindingIp, DeleteBindingIp,
                CreateSubnet, DeleteSubnet
  <1>2. CASE UNCHANGED vars
    BY <1>2 DEF vars, apiVars
  <1> QED
    BY <1>1, <1>2, ApiFrame DEF Next

\* The variables that hold events.
eventVars == <<outbox, addedBindingIp, deletedBindingIp, inflight, sleeping,
               srvAdded, srvDeleted, replay>>

\* Every step keeps AddsRequested: add events start at the cache.
LEMMA AddsStep ==
  ASSUME TypeOK, Tracked, AddsRequested, [Next]_vars PROVE AddsRequested'
  <1>1. CASE UNCHANGED eventVars
    BY <1>1, HistoryGrows DEF AddsRequested, eventVars
  <1>2. CASE UserNext
    BY <1>1, <1>2, ControllerFrame, ManagerFrame, ServerFrame DEF eventVars, srvVars
  <1> DEFINE Typed == /\ outbox \in Event \cup {None}
                      /\ inflight \in Event \cup {None}
                      /\ addedBindingIp \in Seq(Info)
                      /\ deletedBindingIp \in Seq(Info)
                      /\ sleeping \in [Event -> Nat]
                      /\ srvAdded \in [Subnets -> Seq(Info)]
                      /\ replay \in Replay \cup {None}
  <1>3. Typed
    BY DEF TypeOK
  <1>4. ASSUME NEW n \in Names, InformerSync(n) PROVE AddsRequested'
    BY <1>1, <1>4 DEF InformerSync, eventVars, mgrVars, srvVars
  <1>5. ASSUME NEW n \in Names, ReconcileDeleted(n) PROVE AddsRequested'
    <2>1. /\ outbox' = [op |-> "del", info |-> cache[n]]
          /\ UNCHANGED <<ever, addedBindingIp, inflight, sleeping, srvAdded, replay>>
      BY <1>5 DEF ReconcileDeleted, apiVars, mgrVars, srvVars
    <2> QED
      BY <2>1 DEF AddsRequested
  <1>6. ASSUME NEW n \in Names, ReconcileExisting(n) PROVE AddsRequested'
    <2>1. /\ seen[n] \in ever
          /\ \/ outbox' = [op |-> "add", info |-> seen[n]]
             \/ UNCHANGED outbox
          /\ UNCHANGED <<ever, addedBindingIp, inflight, sleeping, srvAdded, replay>>
      BY <1>6 DEF ReconcileExisting, processBindingIP, Tracked, mgrVars, srvVars
    <2> QED
      BY <2>1 DEF AddsRequested
  <1>7. CASE SendEvent
    <2>1. UNCHANGED <<ever, inflight, sleeping, srvAdded, replay>> /\ outbox' = None
      BY <1>7 DEF SendEvent, apiVars, srvVars
    <2>2. Elems(addedBindingIp)' \subseteq ever
      <3>1. CASE outbox.op = "add"
        <4>1. outbox.info \in Info /\ outbox.info \in ever
          BY <1>3, <1>7, <3>1 DEF SendEvent, Event, AddsRequested
        <4>2. addedBindingIp' = Append(addedBindingIp, outbox.info)
          BY <1>7, <3>1 DEF SendEvent
        <4> QED
          BY <1>3, <4>1, <4>2, ElemsAppend DEF AddsRequested
      <3>2. CASE outbox.op # "add"
        BY <1>7, <3>2 DEF SendEvent, AddsRequested
      <3> QED
        BY <3>1, <3>2
    <2> QED
      BY <2>1, <2>2 DEF AddsRequested
  <1>8. CASE TakeAdded
    <2> DEFINE i == Head(addedBindingIp)
               e == [op |-> "add", info |-> i]
    <2>1. /\ i \in ever /\ i \in Info /\ e \in Event
          /\ Elems(Tail(addedBindingIp)) \subseteq ever
      BY <1>3, <1>8, ElemsTail DEF TakeAdded, AddsRequested, Event
    <2>2. /\ UNCHANGED <<ever, outbox, srvAdded, replay>>
          /\ addedBindingIp' = Tail(addedBindingIp)
          /\ \/ inflight' = e /\ UNCHANGED sleeping
             \/ sleeping' = [sleeping EXCEPT ![e] = @ + 1] /\ UNCHANGED inflight
      BY <1>8 DEF TakeAdded, Dispatch, apiVars, ctlVars, srvVars
    <2>3. ASSUME NEW j \in Info, sleeping'[[op |-> "add", info |-> j]] > 0
          PROVE  j \in ever
      <3>1. [op |-> "add", info |-> j] \in Event
        BY DEF Event
      <3>2. CASE j = i
        BY <2>1, <3>2
      <3>3. CASE j # i
        BY <1>3, <2>1, <2>2, <2>3, <3>1, <3>3 DEF AddsRequested
      <3> QED
        BY <3>2, <3>3
    <2> QED
      BY <2>1, <2>2, <2>3 DEF AddsRequested
  <1>9. CASE TakeDeleted
    <2> DEFINE e == [op |-> "del", info |-> Head(deletedBindingIp)]
    <2>1. e \in Event
      BY <1>3, <1>9, ElemsTail DEF TakeDeleted, Event
    <2>2. /\ UNCHANGED <<ever, outbox, addedBindingIp, srvAdded, replay>>
          /\ \/ inflight' = e /\ UNCHANGED sleeping
             \/ sleeping' = [sleeping EXCEPT ![e] = @ + 1] /\ UNCHANGED inflight
      BY <1>9 DEF TakeDeleted, Dispatch, apiVars, ctlVars, srvVars
    <2>3. ASSUME NEW j \in Info
          PROVE  sleeping'[[op |-> "add", info |-> j]] = sleeping[[op |-> "add", info |-> j]]
      <3>1. [op |-> "add", info |-> j] \in Event
        BY DEF Event
      <3> QED
        BY <1>3, <2>1, <2>2, <3>1
    <2> QED
      BY <2>2, <2>3 DEF AddsRequested
  <1>10. ASSUME NEW e \in Event, Resend(e) PROVE AddsRequested'
    <2>1. /\ UNCHANGED <<ever, outbox, inflight, srvAdded, replay>>
          /\ sleeping[e] > 0
          /\ sleeping' = [sleeping EXCEPT ![e] = @ - 1]
      BY <1>10 DEF Resend, apiVars, ctlVars, srvVars
    <2>2. e.info \in Info /\ e = [op |-> e.op, info |-> e.info]
      BY DEF Event
    <2>3. Elems(addedBindingIp)' \subseteq ever
      <3>1. CASE e.op = "add"
        <4>1. e.info \in ever
          BY <2>1, <2>2, <3>1 DEF AddsRequested
        <4>2. addedBindingIp' = Append(addedBindingIp, e.info)
          BY <1>10, <3>1 DEF Resend
        <4> QED
          BY <1>3, <2>2, <4>1, <4>2, ElemsAppend DEF AddsRequested
      <3>2. CASE e.op # "add"
        BY <1>10, <3>2 DEF Resend, AddsRequested
      <3> QED
        BY <3>1, <3>2
    <2>4. ASSUME NEW j \in Info, sleeping'[[op |-> "add", info |-> j]] > 0
          PROVE  j \in ever
      <3>1. [op |-> "add", info |-> j] \in Event
        BY DEF Event
      <3> QED
        BY <1>3, <2>1, <2>4, <3>1 DEF AddsRequested
    <2> QED
      BY <2>1, <2>3, <2>4 DEF AddsRequested
  <1>11. CASE Forward
    <2> DEFINE i == inflight.info
    <2>1. i \in Info /\ i.subnet \in Subnets
      BY <1>3, <1>11 DEF Forward, Event, Info
    <2>2. UNCHANGED <<ever, outbox, addedBindingIp, sleeping, replay>> /\ inflight' = None
      BY <1>11 DEF Forward, apiVars, ctlVars
    <2>3. ASSUME NEW s \in Subnets, NEW j \in Elems(srvAdded[s])'
          PROVE  j \in ever /\ j.subnet = s
      <3>1. CASE inflight.op = "add" /\ s = i.subnet
        <4>1. srvAdded'[s] = Append(srvAdded[s], i) /\ i \in ever
          BY <1>3, <1>11, <2>1, <3>1 DEF Forward, AddsRequested
        <4> QED
          BY <1>3, <2>1, <2>3, <3>1, <4>1, ElemsAppend DEF AddsRequested
      <3>2. CASE ~(inflight.op = "add" /\ s = i.subnet)
        <4>1. srvAdded'[s] = srvAdded[s]
          BY <1>3, <1>11, <2>1, <3>2 DEF Forward
        <4> QED
          BY <2>3, <4>1 DEF AddsRequested
      <3> QED
        BY <3>1, <3>2
    <2> QED
      BY <2>2, <2>3 DEF AddsRequested
  <1>12. ASSUME NEW S \in SUBSET Subnets, StartServers(S)
         PROVE  \A s \in Subnets : Elems(srvAdded[s])' \subseteq Elems(srvAdded[s])
    BY <1>12, ElemsEmpty DEF StartServers
  <1>13. CASE Elect
    <2>1. PICK S \in SUBSET Subnets : StartServers(S)
      BY <1>13 DEF Elect, TypeOK
    <2>2. UNCHANGED <<ever, outbox, addedBindingIp, inflight, sleeping, replay>>
      BY <1>13 DEF Elect, apiVars, ctlVars
    <2> QED
      BY <1>12, <2>1, <2>2 DEF AddsRequested
  <1>14. CASE ElectListFails
    BY <1>1, <1>14 DEF ElectListFails, eventVars, ctlVars, srvVars
  <1>15. ASSUME NEW s \in Subnets, StartServer(s) PROVE AddsRequested'
    <2>1. /\ StartServers({s})
          /\ UNCHANGED <<ever, outbox, addedBindingIp, inflight, sleeping>>
          /\ replay' = [subnet |-> s, listed |-> FALSE, todo |-> {}]
      BY <1>15 DEF StartServer, apiVars, ctlVars, mgrVars
    <2> QED
      BY <1>12, <2>1 DEF AddsRequested
  <1>16. CASE ReplayList
    <2>1. UNCHANGED <<ever, outbox, addedBindingIp, inflight, sleeping, srvAdded>>
      BY <1>16 DEF ReplayList, apiVars, ctlVars, mgrVars
    <2>2. ASSUME replay' # None, NEW i \in replay'.todo
          PROVE  i \in ever /\ i.subnet = replay'.subnet
      BY <1>16, <2>2 DEF ReplayList, Tracked
    <2> QED
      BY <2>1, <2>2 DEF AddsRequested
  <1>17. ASSUME NEW i \in Info, ReplaySend(i) PROVE AddsRequested'
    <2> DEFINE s == replay.subnet
    <2>1. UNCHANGED <<ever, outbox, addedBindingIp, inflight, sleeping>>
      BY <1>17 DEF ReplaySend, apiVars, ctlVars, mgrVars
    <2>2. /\ s \in Subnets /\ i \in ever /\ i.subnet = s
          /\ srvAdded' = [srvAdded EXCEPT ![s] = Append(srvAdded[s], i)]
      BY <1>3, <1>17 DEF ReplaySend, AddsRequested, Replay
    <2>3. replay' # None => /\ replay'.subnet = s
                            /\ replay'.todo \subseteq replay.todo
      BY <1>3, <1>17 DEF ReplaySend, Replay
    <2>4. ASSUME NEW r \in Subnets, NEW j \in Elems(srvAdded[r])'
          PROVE  j \in ever /\ j.subnet = r
      <3>1. CASE r = s
        <4>1. srvAdded'[r] = Append(srvAdded[r], i)
          BY <1>3, <2>2, <3>1
        <4> QED
          BY <1>3, <2>2, <2>4, <3>1, <4>1, ElemsAppend DEF AddsRequested
      <3>2. CASE r # s
        <4>1. srvAdded'[r] = srvAdded[r]
          BY <1>3, <2>2, <3>2
        <4> QED
          BY <2>4, <4>1 DEF AddsRequested
      <3> QED
        BY <3>1, <3>2
    <2> QED
      BY <1>17, <2>1, <2>3, <2>4 DEF AddsRequested, ReplaySend
  <1>18. ASSUME NEW s \in Subnets, StopServer(s) PROVE AddsRequested'
    <2>1. /\ UNCHANGED <<ever, outbox, addedBindingIp, sleeping, replay>>
          /\ inflight' \in {None, inflight}
          /\ srvAdded' = [srvAdded EXCEPT ![s] = <<>>]
      BY <1>18 DEF StopServer, apiVars, ctlVars
    <2>2. \A r \in Subnets : Elems(srvAdded[r])' \subseteq Elems(srvAdded[r])
      BY <1>3, <2>1, ElemsEmpty
    <2> QED
      BY <2>1, <2>2 DEF AddsRequested
  <1>19. ASSUME NEW s \in Subnets, MonitorAdded(s) PROVE AddsRequested'
    <2>1. /\ UNCHANGED <<ever, outbox, addedBindingIp, inflight, sleeping, replay>>
          /\ srvAdded[s] # <<>>
          /\ srvAdded' = [srvAdded EXCEPT ![s] = Tail(srvAdded[s])]
      BY <1>19 DEF MonitorAdded, apiVars, ctlVars, mgrVars
    <2>2. \A r \in Subnets : Elems(srvAdded[r])' \subseteq Elems(srvAdded[r])
      BY <1>3, <2>1, ElemsTail
    <2> QED
      BY <2>1, <2>2 DEF AddsRequested
  <1>20. ASSUME NEW s \in Subnets, MonitorDeleted(s) \/ MonitorRestartCh(s) \/ MonitorTick(s)
         PROVE  AddsRequested'
    <2>1. UNCHANGED <<ever, outbox, addedBindingIp, inflight, sleeping, replay, srvAdded>>
      BY <1>20 DEF MonitorDeleted, MonitorRestartCh, MonitorTick, apiVars, ctlVars, mgrVars
    <2> QED
      BY <2>1 DEF AddsRequested
  <1>21. ASSUME NEW s \in Subnets, ProcessDies(s) PROVE AddsRequested'
    BY <1>1, <1>21 DEF ProcessDies, eventVars, ctlVars, mgrVars
  <1>22. CASE AgentRestart
    <2>1. /\ outbox' = None /\ inflight' = None /\ replay' = None
          /\ addedBindingIp' = <<>>
          /\ sleeping' = [e \in Event |-> 0]
          /\ srvAdded' = [s \in Subnets |-> <<>>]
      BY <1>22 DEF AgentRestart
    <2>2. \A i \in Info : [op |-> "add", info |-> i] \in Event
      BY DEF Event
    <2> QED
      BY <2>1, <2>2, ElemsEmpty DEF AddsRequested
  <1>23. CASE UNCHANGED vars
    BY <1>1, <1>23 DEF vars, eventVars, ctlVars, mgrVars, srvVars
  <1> QED
    BY <1>2, <1>4, <1>5, <1>6, <1>7, <1>8, <1>9, <1>10, <1>11, <1>13, <1>14,
       <1>15, <1>16, <1>17, <1>18, <1>19, <1>20, <1>21, <1>22, <1>23
       DEF Next, ControllerNext, ManagerNext, SubnetReconcile, MonitorNext, FaultNext

\* Every step keeps DeletesRemoved: delete events start at a deleted object.
LEMMA DeletesStep ==
  ASSUME TypeOK, Tracked, DeletesRemoved, [Next]_vars PROVE DeletesRemoved'
  <1>1. removed' \subseteq ever'
    <2>1. CASE UserNext
      BY <2>1 DEF UserNext, CreateBindingIp, UpdateBindingIp, DeleteBindingIp,
                  CreateSubnet, DeleteSubnet, DeletesRemoved
    <2>2. CASE UNCHANGED vars
      BY <2>2 DEF vars, apiVars, DeletesRemoved
    <2> QED
      BY <2>1, <2>2, ApiFrame DEF Next, DeletesRemoved
  <1>2. CASE UNCHANGED eventVars
    BY <1>1, <1>2, HistoryGrows DEF DeletesRemoved, eventVars
  <1>3. CASE UserNext
    BY <1>2, <1>3, ControllerFrame, ManagerFrame, ServerFrame DEF eventVars, srvVars
  <1> DEFINE Typed == /\ outbox \in Event \cup {None}
                      /\ inflight \in Event \cup {None}
                      /\ addedBindingIp \in Seq(Info)
                      /\ deletedBindingIp \in Seq(Info)
                      /\ sleeping \in [Event -> Nat]
                      /\ srvDeleted \in [Subnets -> Seq(Info)]
  <1>4. Typed
    BY DEF TypeOK
  <1>5. ASSUME NEW n \in Names, InformerSync(n) PROVE DeletesRemoved'
    BY <1>2, <1>5 DEF InformerSync, eventVars, mgrVars, srvVars
  <1>6. ASSUME NEW n \in Names, ReconcileDeleted(n) PROVE DeletesRemoved'
    <2>1. /\ outbox' = [op |-> "del", info |-> cache[n]]
          /\ cache[n] \in removed
          /\ UNCHANGED <<removed, deletedBindingIp, inflight, sleeping, srvDeleted>>
      BY <1>6 DEF ReconcileDeleted, Tracked, apiVars, mgrVars, srvVars
    <2> QED
      BY <1>1, <2>1 DEF DeletesRemoved
  <1>7. ASSUME NEW n \in Names, ReconcileExisting(n) PROVE DeletesRemoved'
    <2>1. /\ \/ outbox' = [op |-> "add", info |-> seen[n]]
             \/ UNCHANGED outbox
          /\ UNCHANGED <<removed, deletedBindingIp, inflight, sleeping, srvDeleted>>
      BY <1>7 DEF ReconcileExisting, processBindingIP, mgrVars, srvVars
    <2> QED
      BY <1>1, <2>1 DEF DeletesRemoved
  <1>8. CASE SendEvent
    <2>1. UNCHANGED <<removed, inflight, sleeping, srvDeleted>> /\ outbox' = None
      BY <1>8 DEF SendEvent, apiVars, srvVars
    <2>2. Elems(deletedBindingIp)' \subseteq removed
      <3>1. CASE outbox.op # "add"
        <4>1. outbox.info \in Info /\ outbox.info \in removed
          BY <1>4, <1>8, <3>1 DEF SendEvent, Event, DeletesRemoved
        <4>2. deletedBindingIp' = Append(deletedBindingIp, outbox.info)
          BY <1>8, <3>1 DEF SendEvent
        <4> QED
          BY <1>4, <4>1, <4>2, ElemsAppend DEF DeletesRemoved
      <3>2. CASE outbox.op = "add"
        BY <1>8, <3>2 DEF SendEvent, DeletesRemoved
      <3> QED
        BY <3>1, <3>2
    <2> QED
      BY <1>1, <2>1, <2>2 DEF DeletesRemoved
  <1>9. CASE TakeDeleted
    <2> DEFINE i == Head(deletedBindingIp)
               e == [op |-> "del", info |-> i]
    <2>1. /\ i \in removed /\ i \in Info /\ e \in Event
          /\ Elems(Tail(deletedBindingIp)) \subseteq removed
      BY <1>4, <1>9, ElemsTail DEF TakeDeleted, DeletesRemoved, Event
    <2>2. /\ UNCHANGED <<removed, outbox, srvDeleted>>
          /\ deletedBindingIp' = Tail(deletedBindingIp)
          /\ \/ inflight' = e /\ UNCHANGED sleeping
             \/ sleeping' = [sleeping EXCEPT ![e] = @ + 1] /\ UNCHANGED inflight
      BY <1>9 DEF TakeDeleted, Dispatch, apiVars, ctlVars, srvVars
    <2>3. ASSUME NEW j \in Info, sleeping'[[op |-> "del", info |-> j]] > 0
          PROVE  j \in removed
      <3>1. [op |-> "del", info |-> j] \in Event
        BY DEF Event
      <3>2. CASE j = i
        BY <2>1, <3>2
      <3>3. CASE j # i
        BY <1>4, <2>1, <2>2, <2>3, <3>1, <3>3 DEF DeletesRemoved
      <3> QED
        BY <3>2, <3>3
    <2> QED
      BY <1>1, <2>1, <2>2, <2>3 DEF DeletesRemoved
  <1>10. CASE TakeAdded
    <2> DEFINE e == [op |-> "add", info |-> Head(addedBindingIp)]
    <2>1. e \in Event
      BY <1>4, <1>10, ElemsTail DEF TakeAdded, Event
    <2>2. /\ UNCHANGED <<removed, outbox, deletedBindingIp, srvDeleted>>
          /\ \/ inflight' = e /\ UNCHANGED sleeping
             \/ sleeping' = [sleeping EXCEPT ![e] = @ + 1] /\ UNCHANGED inflight
      BY <1>10 DEF TakeAdded, Dispatch, apiVars, ctlVars, srvVars
    <2>3. ASSUME NEW j \in Info
          PROVE  sleeping'[[op |-> "del", info |-> j]] = sleeping[[op |-> "del", info |-> j]]
      <3>1. [op |-> "del", info |-> j] \in Event
        BY DEF Event
      <3> QED
        BY <1>4, <2>1, <2>2, <3>1
    <2> QED
      BY <1>1, <2>2, <2>3 DEF DeletesRemoved
  <1>11. ASSUME NEW e \in Event, Resend(e) PROVE DeletesRemoved'
    <2>1. /\ UNCHANGED <<removed, outbox, inflight, srvDeleted>>
          /\ sleeping[e] > 0
          /\ sleeping' = [sleeping EXCEPT ![e] = @ - 1]
      BY <1>11 DEF Resend, apiVars, ctlVars, srvVars
    <2>2. e.info \in Info /\ e.op \in {"add", "del"} /\ e = [op |-> e.op, info |-> e.info]
      BY DEF Event
    <2>3. Elems(deletedBindingIp)' \subseteq removed
      <3>1. CASE e.op = "del"
        <4>1. e.info \in removed
          BY <2>1, <2>2, <3>1 DEF DeletesRemoved
        <4>2. deletedBindingIp' = Append(deletedBindingIp, e.info)
          BY <1>11, <3>1 DEF Resend
        <4> QED
          BY <1>4, <2>2, <4>1, <4>2, ElemsAppend DEF DeletesRemoved
      <3>2. CASE e.op = "add"
        BY <1>11, <3>2 DEF Resend, DeletesRemoved
      <3> QED
        BY <2>2, <3>1, <3>2
    <2>4. ASSUME NEW j \in Info, sleeping'[[op |-> "del", info |-> j]] > 0
          PROVE  j \in removed
      <3>1. [op |-> "del", info |-> j] \in Event
        BY DEF Event
      <3> QED
        BY <1>4, <2>1, <2>4, <3>1 DEF DeletesRemoved
    <2> QED
      BY <1>1, <2>1, <2>3, <2>4 DEF DeletesRemoved
  <1>12. CASE Forward
    <2> DEFINE i == inflight.info
    <2>1. i \in Info /\ i.subnet \in Subnets /\ inflight.op \in {"add", "del"}
      BY <1>4, <1>12 DEF Forward, Event, Info
    <2>2. UNCHANGED <<removed, outbox, deletedBindingIp, sleeping>> /\ inflight' = None
      BY <1>12 DEF Forward, apiVars, ctlVars
    <2>3. ASSUME NEW s \in Subnets, NEW j \in Elems(srvDeleted[s])'
          PROVE  j \in removed /\ j.subnet = s
      <3>1. CASE inflight.op = "del" /\ s = i.subnet
        <4>1. srvDeleted'[s] = Append(srvDeleted[s], i) /\ i \in removed
          BY <1>4, <1>12, <2>1, <3>1 DEF Forward, DeletesRemoved
        <4> QED
          BY <1>4, <2>1, <2>3, <3>1, <4>1, ElemsAppend DEF DeletesRemoved
      <3>2. CASE ~(inflight.op = "del" /\ s = i.subnet)
        <4>1. srvDeleted'[s] = srvDeleted[s]
          BY <1>4, <1>12, <2>1, <3>2 DEF Forward
        <4> QED
          BY <2>3, <4>1 DEF DeletesRemoved
      <3> QED
        BY <3>1, <3>2
    <2> QED
      BY <1>1, <2>2, <2>3 DEF DeletesRemoved
  <1>13. ASSUME NEW S \in SUBSET Subnets, StartServers(S)
         PROVE  \A s \in Subnets : Elems(srvDeleted[s])' \subseteq Elems(srvDeleted[s])
    BY <1>13, ElemsEmpty DEF StartServers
  <1>14. CASE Elect
    <2>1. PICK S \in SUBSET Subnets : StartServers(S)
      BY <1>14 DEF Elect, TypeOK
    <2>2. UNCHANGED <<removed, outbox, deletedBindingIp, inflight, sleeping>>
      BY <1>14 DEF Elect, apiVars, ctlVars
    <2> QED
      BY <1>1, <1>13, <2>1, <2>2 DEF DeletesRemoved
  <1>15. CASE ElectListFails
    BY <1>2, <1>15 DEF ElectListFails, eventVars, ctlVars, srvVars
  <1>16. ASSUME NEW s \in Subnets, StartServer(s) PROVE DeletesRemoved'
    <2>1. /\ StartServers({s})
          /\ UNCHANGED <<removed, outbox, deletedBindingIp, inflight, sleeping>>
      BY <1>16 DEF StartServer, apiVars, ctlVars, mgrVars
    <2> QED
      BY <1>1, <1>13, <2>1 DEF DeletesRemoved
  <1>17. CASE ReplayList \/ \E i \in Info : ReplaySend(i)
    <2>1. UNCHANGED <<removed, outbox, deletedBindingIp, inflight, sleeping, srvDeleted>>
      BY <1>17 DEF ReplayList, ReplaySend, apiVars, ctlVars, mgrVars
    <2> QED
      BY <1>1, <2>1 DEF DeletesRemoved
  <1>18. ASSUME NEW s \in Subnets, StopServer(s) PROVE DeletesRemoved'
    <2>1. /\ UNCHANGED <<removed, outbox, deletedBindingIp, sleeping>>
          /\ inflight' \in {None, inflight}
          /\ srvDeleted' = [srvDeleted EXCEPT ![s] = <<>>]
      BY <1>18 DEF StopServer, apiVars, ctlVars
    <2>2. \A r \in Subnets : Elems(srvDeleted[r])' \subseteq Elems(srvDeleted[r])
      BY <1>4, <2>1, ElemsEmpty
    <2> QED
      BY <1>1, <2>1, <2>2 DEF DeletesRemoved
  <1>19. ASSUME NEW s \in Subnets, MonitorDeleted(s) PROVE DeletesRemoved'
    <2>1. /\ UNCHANGED <<removed, outbox, deletedBindingIp, inflight, sleeping>>
          /\ srvDeleted[s] # <<>>
          /\ srvDeleted' = [srvDeleted EXCEPT ![s] = Tail(srvDeleted[s])]
      BY <1>19 DEF MonitorDeleted, apiVars, ctlVars, mgrVars
    <2>2. \A r \in Subnets : Elems(srvDeleted[r])' \subseteq Elems(srvDeleted[r])
      BY <1>4, <2>1, ElemsTail
    <2> QED
      BY <1>1, <2>1, <2>2 DEF DeletesRemoved
  <1>20. ASSUME NEW s \in Subnets, MonitorAdded(s) \/ MonitorRestartCh(s) \/ MonitorTick(s)
         PROVE  DeletesRemoved'
    <2>1. UNCHANGED <<removed, outbox, deletedBindingIp, inflight, sleeping, srvDeleted>>
      BY <1>20 DEF MonitorAdded, MonitorRestartCh, MonitorTick, apiVars, ctlVars, mgrVars
    <2> QED
      BY <1>1, <2>1 DEF DeletesRemoved
  <1>21. ASSUME NEW s \in Subnets, ProcessDies(s) PROVE DeletesRemoved'
    BY <1>2, <1>21 DEF ProcessDies, eventVars, ctlVars, mgrVars
  <1>22. CASE AgentRestart
    <2>1. /\ outbox' = None /\ inflight' = None
          /\ deletedBindingIp' = <<>>
          /\ sleeping' = [e \in Event |-> 0]
          /\ srvDeleted' = [s \in Subnets |-> <<>>]
      BY <1>22 DEF AgentRestart
    <2>2. \A i \in Info : [op |-> "del", info |-> i] \in Event
      BY DEF Event
    <2> QED
      BY <1>1, <2>1, <2>2, ElemsEmpty DEF DeletesRemoved
  <1>23. CASE UNCHANGED vars
    BY <1>2, <1>23 DEF vars, eventVars, ctlVars, mgrVars, srvVars
  <1> QED
    BY <1>3, <1>5, <1>6, <1>7, <1>8, <1>9, <1>10, <1>11, <1>12, <1>14, <1>15,
       <1>16, <1>17, <1>18, <1>19, <1>20, <1>21, <1>22, <1>23
       DEF Next, ControllerNext, ManagerNext, SubnetReconcile, MonitorNext, FaultNext

\* Every step keeps tables, files and processes filled with requested specs.
LEMMA TablesStep ==
  ASSUME TypeOK, AddsRequested, TablesRequested, [Next]_vars
  PROVE  TablesRequested'
  <1>1. CASE UNCHANGED <<table, hosts, loaded>>
    BY <1>1, HistoryGrows DEF TablesRequested, InPlace
  <1> DEFINE Typed == /\ table \in [Subnets -> [IPs -> Info \cup {None}]]
                      /\ hosts \in [Subnets -> [IPs -> Info \cup {None}]]
                      /\ loaded \in [Subnets -> [IPs -> Info \cup {None}]]
                      /\ srvAdded \in [Subnets -> Seq(Info)]
                      /\ srvDeleted \in [Subnets -> Seq(Info)]
  <1>2. Typed
    BY DEF TypeOK
  <1>3. CASE UserNext \/ ControllerNext
    BY <1>1, <1>3, ServerFrame DEF srvVars
  <1>4. ASSUME NEW S \in SUBSET Subnets, StartServers(S) PROVE TablesRequested'
    BY <1>2, <1>4, HistoryGrows DEF StartServers, NoBindings, TablesRequested, InPlace
  <1>5. CASE Elect
    BY <1>4, <1>5 DEF Elect, TypeOK
  <1>6. ASSUME NEW s \in Subnets, StartServer(s) PROVE TablesRequested'
    BY <1>4, <1>6 DEF StartServer
  <1>7. ASSUME NEW s \in Subnets, StopServer(s) PROVE TablesRequested'
    <2>1. /\ table' = [table EXCEPT ![s] = NoBindings]
          /\ loaded' = [loaded EXCEPT ![s] = NoBindings]
          /\ UNCHANGED hosts
      BY <1>7 DEF StopServer
    <2> QED
      BY <1>2, <2>1, HistoryGrows DEF NoBindings, TablesRequested, InPlace
  <1>8. CASE \/ TakeAdded \/ TakeDeleted \/ Forward \/ ElectListFails \/ ReplayList
             \/ (\E e \in Event : Resend(e)) \/ (\E i \in Info : ReplaySend(i))
    BY <1>1, <1>8 DEF TakeAdded, TakeDeleted, Forward, ElectListFails, ReplayList,
                      Resend, ReplaySend, srvVars
  <1>9. ASSUME NEW s \in Subnets, Rewrite(s), InPlace(table)',
               table' \in [Subnets -> [IPs -> Info \cup {None}]]
        PROVE  TablesRequested'
    <2>1. CASE WriteAndReload(s, table'[s])
      BY <1>2, <1>9, <2>1, HistoryGrows DEF WriteAndReload, TablesRequested, InPlace
    <2>2. CASE WriteFails(s)
      <3>1. UNCHANGED loaded
        BY <2>2 DEF WriteFails
      <3>2. InPlace(loaded)'
        BY <3>1, HistoryGrows DEF TablesRequested, InPlace
      <3>3. CASE UNCHANGED hosts
        <4>1. InPlace(hosts)'
          BY <3>3, HistoryGrows DEF TablesRequested, InPlace
        <4> QED
          BY <1>9, <3>2, <4>1 DEF TablesRequested
      <3>4. CASE hosts' = [hosts EXCEPT ![s] = NoBindings]
        <4>1. InPlace(hosts)'
          BY <1>2, <3>4, HistoryGrows DEF NoBindings, TablesRequested, InPlace
        <4> QED
          BY <1>9, <3>2, <4>1 DEF TablesRequested
      <3> QED
        BY <2>2, <3>3, <3>4 DEF WriteFails
    <2> QED
      BY <1>9, <2>1, <2>2 DEF Rewrite
  <1>10. ASSUME NEW s \in Subnets, MonitorAdded(s) PROVE TablesRequested'
    <2> DEFINE i == Head(srvAdded[s])
    <2>1. /\ i \in Info /\ i.ip \in IPs
          /\ i \in ever /\ i.subnet = s
      <3>1. srvAdded[s] \in Seq(Info) /\ srvAdded[s] # <<>>
        BY <1>2, <1>10 DEF MonitorAdded
      <3>2. i \in Info /\ i \in Elems(srvAdded[s])
        BY <3>1, ElemsTail
      <3>3. i.ip \in IPs
        BY <3>2 DEF Info
      <3> QED
        BY <3>2, <3>3 DEF AddsRequested
    <2>2. CASE Bound(s, i)
      BY <1>1, <1>10, <2>2 DEF MonitorAdded
    <2>3. CASE ~Bound(s, i)
      <3>1. Rewrite(s) /\ table' = [table EXCEPT ![s][i.ip] = i]
        BY <1>10, <2>3 DEF MonitorAdded
      <3>2. table' \in [Subnets -> [IPs -> Info \cup {None}]]
        BY <1>2, <2>1, <3>1
      <3>3. InPlace(table)'
        BY <1>2, <2>1, <3>1, HistoryGrows DEF TablesRequested, InPlace
      <3> QED
        BY <1>9, <3>1, <3>2, <3>3
    <2> QED
      BY <2>2, <2>3
  <1>11. ASSUME NEW s \in Subnets, MonitorDeleted(s) PROVE TablesRequested'
    <2> DEFINE i == Head(srvDeleted[s])
    <2>1. i \in Info /\ i.ip \in IPs
      <3>1. srvDeleted[s] \in Seq(Info) /\ srvDeleted[s] # <<>>
        BY <1>2, <1>11 DEF MonitorDeleted
      <3>2. i \in Info
        BY <3>1, ElemsTail
      <3> QED
        BY <3>2 DEF Info
    <2>2. CASE ~Bound(s, i)
      BY <1>1, <1>11, <2>2 DEF MonitorDeleted
    <2>3. CASE Bound(s, i)
      <3>1. Rewrite(s) /\ table' = [table EXCEPT ![s][i.ip] = None]
        BY <1>11, <2>3 DEF MonitorDeleted
      <3>2. table' \in [Subnets -> [IPs -> Info \cup {None}]]
        BY <1>2, <2>1, <3>1
      <3>3. InPlace(table)'
        BY <1>2, <2>1, <3>1, HistoryGrows DEF TablesRequested, InPlace
      <3> QED
        BY <1>9, <3>1, <3>2, <3>3
    <2> QED
      BY <2>2, <2>3
  <1>12. ASSUME NEW s \in Subnets, MonitorRestartCh(s) PROVE TablesRequested'
    <2>1. Rewrite(s) /\ UNCHANGED table
      BY <1>12 DEF MonitorRestartCh
    <2>2. InPlace(table)'
      BY <2>1, HistoryGrows DEF TablesRequested, InPlace
    <2> QED
      BY <1>2, <1>9, <2>1, <2>2
  <1>13. ASSUME NEW s \in Subnets, MonitorTick(s) PROVE TablesRequested'
    <2>1. /\ UNCHANGED table
          /\ hosts' = [hosts EXCEPT ![s] = table[s]]
          /\ loaded' = [loaded EXCEPT ![s] = table[s]]
      BY <1>13 DEF MonitorTick
    <2> QED
      BY <1>2, <2>1, HistoryGrows DEF TablesRequested, InPlace
  <1>14. ASSUME NEW s \in Subnets, ProcessDies(s) PROVE TablesRequested'
    BY <1>1, <1>14 DEF ProcessDies
  <1>15. CASE AgentRestart
    <2>1. /\ table' = [s \in Subnets |-> NoBindings]
          /\ loaded' = [s \in Subnets |-> NoBindings]
          /\ UNCHANGED hosts
      BY <1>15 DEF AgentRestart
    <2> QED
      BY <2>1, HistoryGrows DEF NoBindings, TablesRequested, InPlace
  <1>16. CASE UNCHANGED vars
    BY <1>1, <1>16 DEF vars, srvVars
  <1> QED
    BY <1>3, <1>5, <1>6, <1>7, <1>8, <1>10, <1>11, <1>12, <1>13, <1>14, <1>15, <1>16
       DEF Next, ManagerNext, SubnetReconcile, MonitorNext, FaultNext

\* Every step keeps BeforeElection.
LEMMA ElectionStep ==
  ASSUME TypeOK, BeforeElection, [Next]_vars PROVE BeforeElection'
  <1>1. CASE UNCHANGED <<elected, inflight, sleeping, cache, outbox, addedBindingIp>>
    BY <1>1 DEF BeforeElection, Queued
  <1>2. CASE UserNext \/ MonitorNext
    BY <1>1, <1>2, ControllerFrame, ManagerFrame
  <1>3. outbox \in Event \cup {None} /\ addedBindingIp \in Seq(Info)
        /\ cache \in [Names -> Info \cup {None}]
    BY DEF TypeOK
  <1>4. ASSUME NEW n \in Names, InformerSync(n) PROVE BeforeElection'
    BY <1>1, <1>4 DEF InformerSync, mgrVars
  <1>5. ASSUME NEW n \in Names, ReconcileDeleted(n) PROVE BeforeElection'
    <2>1. /\ cache' = [cache EXCEPT ![n] = None]
          /\ outbox = None
          /\ UNCHANGED <<elected, inflight, sleeping, addedBindingIp>>
      BY <1>5 DEF ReconcileDeleted, mgrVars
    <2>2. \A i \in Info : outbox # [op |-> "add", info |-> i]
      BY <2>1, PipelineAssumption DEF Event
    <2>3. ASSUME NEW m \in Names, cache'[m] # None, elected # "yes"
          PROVE  Queued(cache[m])' /\ cache'[m] = cache[m]
      <3>1. m # n /\ cache'[m] = cache[m] /\ cache[m] \in Info
        BY <1>3, <2>1, <2>3
      <3> QED
        BY <2>1, <2>2, <2>3, <3>1 DEF BeforeElection, Queued
    <2> QED
      BY <2>1, <2>3 DEF BeforeElection
  <1>6. ASSUME NEW n \in Names, ReconcileExisting(n) PROVE BeforeElection'
    <2>1. /\ \/ /\ cache' = [cache EXCEPT ![n] = seen[n]]
                /\ outbox' = [op |-> "add", info |-> seen[n]]
             \/ UNCHANGED <<cache, outbox>>
          /\ outbox = None
          /\ UNCHANGED <<elected, inflight, sleeping, addedBindingIp>>
      BY <1>6 DEF ReconcileExisting, processBindingIP, mgrVars
    <2>2. \A i \in Info : outbox # [op |-> "add", info |-> i]
      BY <2>1, PipelineAssumption DEF Event
    <2>3. ASSUME NEW m \in Names, cache'[m] # None, elected # "yes"
          PROVE  Queued(cache[m])'
      <3>1. CASE cache'[m] = cache[m]
        BY <1>3, <2>1, <2>2, <2>3, <3>1 DEF BeforeElection, Queued
      <3>2. CASE cache'[m] # cache[m]
        <4>1. m = n /\ cache'[m] = seen[n] /\ outbox' = [op |-> "add", info |-> seen[n]]
          BY <1>3, <2>1, <3>2
        <4> QED
          BY <4>1 DEF Queued
      <3> QED
        BY <3>1, <3>2
    <2> QED
      BY <2>1, <2>3 DEF BeforeElection
  <1>7. CASE SendEvent
    <2>1. UNCHANGED <<elected, inflight, sleeping, cache>>
      BY <1>7 DEF SendEvent
    <2>2. ASSUME NEW i, Queued(i) PROVE Queued(i)'
      <3>1. outbox.info \in Info
        BY <1>3, <1>7 DEF SendEvent, Event
      <3>2. CASE outbox.op = "add"
        <4>1. addedBindingIp' = Append(addedBindingIp, outbox.info)
          BY <1>7, <3>2 DEF SendEvent
        <4>2. Elems(addedBindingIp)' = Elems(addedBindingIp) \cup {outbox.info}
          BY <1>3, <3>1, <4>1, ElemsAppend
        <4>3. CASE outbox = [op |-> "add", info |-> i]
          BY <4>2, <4>3 DEF Queued
        <4> QED
          BY <2>2, <4>2, <4>3 DEF Queued
      <3>3. CASE outbox.op # "add"
        BY <1>7, <2>2, <3>3 DEF SendEvent, Queued
      <3> QED
        BY <3>2, <3>3
    <2> QED
      BY <2>1, <2>2 DEF BeforeElection
  <1>8. CASE TakeAdded \/ TakeDeleted \/ Elect
    <2>1. elected' = "yes"
      BY <1>8 DEF TakeAdded, TakeDeleted, Elect
    <2> QED
      BY <2>1 DEF BeforeElection
  <1>9. CASE Forward
    BY <1>9 DEF Forward, ctlVars, BeforeElection, Queued
  <1>10. ASSUME NEW e \in Event, Resend(e) PROVE BeforeElection'
    BY <1>10 DEF Resend, BeforeElection
  <1>11. CASE ElectListFails
    BY <1>11 DEF ElectListFails, ctlVars, BeforeElection, Queued
  <1>12. CASE ReplayList \/ \E i \in Info : ReplaySend(i)
    BY <1>1, <1>12 DEF ReplayList, ReplaySend, ctlVars, mgrVars
  <1>13. ASSUME NEW s \in Subnets, StartServer(s) PROVE BeforeElection'
    BY <1>1, <1>13 DEF StartServer, ctlVars, mgrVars
  <1>14. ASSUME NEW s \in Subnets, StopServer(s) PROVE BeforeElection'
    BY <1>14 DEF StopServer, ctlVars, BeforeElection, Queued
  <1>15. ASSUME NEW s \in Subnets, ProcessDies(s) PROVE BeforeElection'
    BY <1>1, <1>15 DEF ProcessDies, ctlVars, mgrVars
  <1>16. CASE AgentRestart
    BY <1>16 DEF AgentRestart, BeforeElection
  <1>17. CASE UNCHANGED vars
    BY <1>1, <1>17 DEF vars, ctlVars, mgrVars
  <1> QED
    BY <1>2, <1>4, <1>5, <1>6, <1>7, <1>8, <1>9, <1>10, <1>11, <1>12, <1>13,
       <1>14, <1>15, <1>16, <1>17
       DEF Next, ControllerNext, ManagerNext, SubnetReconcile, FaultNext

-----------------------------------------------------------------------------
(* No add event is lost                                                      *)

\* The binding is in the table of its server, or an add event is on its way.
Held(i) == table[i.subnet][i.ip] = i \/ Pending(i)

holdVars == <<table, outbox, addedBindingIp, sleeping, inflight, srvAdded, replay>>

\* What is undisturbed after a step was so before it: histories only grow.
LEMMA UndisturbedBefore ==
  ASSUME [Next]_vars, NEW i \in Info, Undisturbed(i)'
  PROVE  Undisturbed(i)
  BY HistoryGrows DEF Undisturbed

\* An undisturbed spec is the only one its address can be bound to.
LEMMA OnlyBinding ==
  ASSUME NEW i \in Info, NEW j \in ever, Undisturbed(i),
         j.subnet = i.subnet, j.ip = i.ip
  PROVE  j = i
  BY DEF Undisturbed

\* The steps of the controller keep the event of a cached spec on its way.
LEMMA HeldController ==
  ASSUME TypeOK, NEW i \in Info, Held(i), ControllerNext
  PROVE  Held(i)'
  <1>1. CASE UNCHANGED holdVars
    BY <1>1 DEF holdVars, Held, Pending, Queued
  <1>2. UNCHANGED <<table, srvAdded, replay>>
    BY ServerFrame DEF srvVars
  <1>3. ASSUME NEW n \in Names, InformerSync(n) PROVE Held(i)'
    BY <1>1, <1>2, <1>3 DEF InformerSync, mgrVars, holdVars
  <1>4. ASSUME NEW n \in Names, ReconcileDeleted(n) \/ ReconcileExisting(n)
        PROVE  Held(i)'
    <2>1. outbox = None /\ UNCHANGED <<addedBindingIp, sleeping, inflight>>
      BY <1>4 DEF ReconcileDeleted, ReconcileExisting, mgrVars
    <2>2. outbox # [op |-> "add", info |-> i]
      BY <2>1, PipelineAssumption DEF Event
    <2> QED
      BY <1>2, <2>1, <2>2 DEF Held, Pending, Queued
  <1>5. CASE SendEvent
    <2>1. outbox \in Event /\ addedBindingIp \in Seq(Info)
      BY <1>5 DEF SendEvent, TypeOK
    <2>2. outbox.info \in Info
      BY <2>1 DEF Event
    <2>3. UNCHANGED <<sleeping, inflight>>
      BY <1>5 DEF SendEvent
    <2>4. CASE outbox.op = "add"
      <3>1. addedBindingIp' = Append(addedBindingIp, outbox.info)
        BY <1>5, <2>4 DEF SendEvent
      <3>2. Elems(addedBindingIp)' = Elems(addedBindingIp) \cup {outbox.info}
        BY <2>1, <2>2, <3>1, ElemsAppend
      <3>3. CASE outbox = [op |-> "add", info |-> i]
        BY <3>2, <3>3 DEF Held, Pending, Queued
      <3>4. CASE outbox # [op |-> "add", info |-> i]
        BY <1>2, <2>3, <3>2, <3>4 DEF Held, Pending, Queued
      <3> QED
        BY <3>3, <3>4
    <2>5. CASE outbox.op # "add"
      <3>1. UNCHANGED addedBindingIp /\ outbox # [op |-> "add", info |-> i]
        BY <1>5, <2>5 DEF SendEvent
      <3> QED
        BY <1>2, <2>3, <3>1 DEF Held, Pending, Queued
    <2> QED
      BY <2>4, <2>5
  <1> QED
    BY <1>3, <1>4, <1>5 DEF ControllerNext

\* The steps of processBindingIpEvents and of its sleeping goroutines hand
\* the event on.
LEMMA HeldEvents ==
  ASSUME TypeOK, NEW i \in Info, Held(i),
         TakeAdded \/ TakeDeleted \/ Forward \/ \E e \in Event : Resend(e)
  PROVE  Held(i)'
  <1> DEFINE a == [op |-> "add", info |-> i]
  <1>1. a \in Event /\ a # None
    BY PipelineAssumption DEF Event
  <1>2. /\ addedBindingIp \in Seq(Info) /\ deletedBindingIp \in Seq(Info)
        /\ sleeping \in [Event -> Nat]
        /\ srvAdded \in [Subnets -> Seq(Info)]
        /\ inflight \in Event \cup {None}
    BY DEF TypeOK
  <1>3. UNCHANGED <<table, outbox, replay>>
    BY DEF TakeAdded, TakeDeleted, Forward, Resend, srvVars, ctlVars
  <1>4. CASE TakeAdded
    <2> DEFINE h == Head(addedBindingIp)
    <2>1. /\ h \in Info
          /\ Elems(addedBindingIp) = Elems(addedBindingIp)' \cup {h}
      BY <1>2, <1>4, ElemsTail DEF TakeAdded
    <2>2. [op |-> "add", info |-> h] \in Event
      BY <2>1 DEF Event
    <2>3. inflight = None /\ UNCHANGED srvAdded
      BY <1>4 DEF TakeAdded, srvVars
    <2>4. /\ \/ inflight' = [op |-> "add", info |-> h] /\ UNCHANGED sleeping
             \/ /\ UNCHANGED inflight
                /\ sleeping' = [sleeping EXCEPT ![[op |-> "add", info |-> h]] = @ + 1]
      BY <1>4 DEF TakeAdded, Dispatch
    <2>6. CASE h = i
      <3>1. inflight' = a \/ sleeping'[a] > 0
        BY <1>1, <1>2, <2>4, <2>6
      <3> QED
        BY <3>1 DEF Held, Pending
    <2>7. CASE h # i
      <3>1. sleeping[a] > 0 => sleeping'[a] > 0
        BY <1>1, <1>2, <2>2, <2>4
      <3> QED
        BY <1>1, <1>3, <2>1, <2>3, <2>7, <3>1 DEF Held, Pending, Queued
    <2> QED
      BY <2>6, <2>7
  <1>5. CASE TakeDeleted
    <2> DEFINE d == [op |-> "del", info |-> Head(deletedBindingIp)]
    <2>1. inflight = None /\ UNCHANGED <<addedBindingIp, srvAdded>>
      BY <1>5 DEF TakeDeleted, srvVars
    <2>2. UNCHANGED sleeping \/ sleeping' = [sleeping EXCEPT ![d] = @ + 1]
      BY <1>5 DEF TakeDeleted, Dispatch
    <2>3. sleeping'[a] = sleeping[a]
      BY <1>1, <1>2, <2>2
    <2> QED
      BY <1>1, <1>3, <2>1, <2>3 DEF Held, Pending, Queued
  <1>6. CASE Forward
    <2> DEFINE s == inflight.info.subnet
    <2>1. /\ inflight \in Event /\ inflight.info \in Info /\ s \in Subnets
      BY <1>2, <1>6 DEF Forward, Event, Info
    <2>2. UNCHANGED <<addedBindingIp, sleeping>>
      BY <1>6 DEF Forward
    <2>3. srvAdded[s] \in Seq(Info) /\ i.subnet \in Subnets
      BY <1>2, <2>1 DEF Info
    <2>4. CASE inflight.op = "add"
      <3>1. srvAdded' = [srvAdded EXCEPT ![s] = Append(@, inflight.info)]
        BY <1>6, <2>4 DEF Forward
      <3>2. Elems(srvAdded'[s]) = Elems(srvAdded[s]) \cup {inflight.info}
        <4>1. srvAdded'[s] = Append(srvAdded[s], inflight.info)
          BY <1>2, <2>1, <3>1
        <4> QED
          BY <2>1, <2>3, <4>1, ElemsAppend
      <3>3. i \in Elems(srvAdded[i.subnet]) => i \in Elems(srvAdded'[i.subnet])
        BY <1>2, <2>1, <2>3, <3>1, <3>2
      <3>4. CASE inflight = a
        BY <3>2, <3>4 DEF Held, Pending
      <3>5. CASE inflight # a
        BY <1>3, <2>2, <3>3, <3>5 DEF Held, Pending, Queued
      <3> QED
        BY <3>4, <3>5
    <2>5. CASE inflight.op # "add"
      <3>1. UNCHANGED srvAdded /\ inflight # a
        BY <1>6, <2>5 DEF Forward
      <3> QED
        BY <1>3, <2>2, <3>1 DEF Held, Pending, Queued
    <2> QED
      BY <2>4, <2>5
  <1>7. ASSUME NEW e \in Event, Resend(e) PROVE Held(i)'
    <2>1. e.info \in Info /\ (e.op = "add" => e = [op |-> "add", info |-> e.info])
      BY DEF Event
    <2>2. /\ UNCHANGED <<inflight, srvAdded>>
          /\ sleeping' = [sleeping EXCEPT ![e] = @ - 1]
      BY <1>7 DEF Resend, srvVars
    <2>3. CASE e = a
      <3>1. addedBindingIp' = Append(addedBindingIp, i)
        BY <1>7, <2>3 DEF Resend
      <3>2. i \in Elems(addedBindingIp)'
        BY <1>2, <3>1, ElemsAppend
      <3> QED
        BY <3>2 DEF Held, Pending, Queued
    <2>4. CASE e # a
      <3>1. sleeping'[a] = sleeping[a]
        BY <1>1, <1>2, <2>2, <2>4
      <3>2. Elems(addedBindingIp) \subseteq Elems(addedBindingIp)'
        <4>1. CASE e.op = "add"
          <5>1. addedBindingIp' = Append(addedBindingIp, e.info)
            BY <1>7, <4>1 DEF Resend
          <5> QED
            BY <1>2, <2>1, <5>1, ElemsAppend
        <4>2. CASE e.op # "add"
          BY <1>7, <4>2 DEF Resend
        <4> QED
          BY <4>1, <4>2
      <3> QED
        BY <1>3, <2>2, <3>1, <3>2 DEF Held, Pending, Queued
    <2> QED
      BY <2>3, <2>4
  <1> QED
    BY <1>4, <1>5, <1>6, <1>7

\* Starting and stopping other servers, and the replay into a new server,
\* keep the event or the binding of a cached spec.
LEMMA HeldSubnets ==
  ASSUME TypeOK, NEW n \in Names, NEW i \in Info, cache[n] = i, Held(i),
         i.subnet \in dhcpServerList, i.subnet \in dhcpServerList',
         \/ Elect \/ ElectListFails \/ \E s \in Subnets : SubnetReconcile(s)
  PROVE  Held(i)'
  <1>1. /\ srvAdded \in [Subnets -> Seq(Info)]
        /\ table \in [Subnets -> [IPs -> Info \cup {None}]]
        /\ inflight \in Event \cup {None}
        /\ replay \in Replay \cup {None}
        /\ i.subnet \in Subnets
    BY DEF TypeOK, Info
  <1>2. CASE ElectListFails
    BY <1>2 DEF ElectListFails, ctlVars, srvVars, Held, Pending, Queued
  <1>3. ASSUME NEW S, StartServers(S), i.subnet \notin S
        PROVE  table'[i.subnet] = table[i.subnet] /\ srvAdded'[i.subnet] = srvAdded[i.subnet]
    BY <1>1, <1>3 DEF StartServers
  <1>4. CASE Elect
    <2>1. PICK S \in SUBSET (subnets \ dhcpServerList) : StartServers(S)
      BY <1>4 DEF Elect
    <2>2. table'[i.subnet] = table[i.subnet] /\ srvAdded'[i.subnet] = srvAdded[i.subnet]
      BY <1>3, <2>1
    <2>3. UNCHANGED <<outbox, addedBindingIp, sleeping, inflight, replay>>
      BY <1>4 DEF Elect, ctlVars
    <2> QED
      BY <2>2, <2>3 DEF Held, Pending, Queued
  <1>5. ASSUME NEW s \in Subnets, StartServer(s) PROVE Held(i)'
    <2>1. table'[i.subnet] = table[i.subnet] /\ srvAdded'[i.subnet] = srvAdded[i.subnet]
      BY <1>3, <1>5 DEF StartServer
    <2>2. replay = None /\ UNCHANGED <<outbox, addedBindingIp, sleeping, inflight>>
      BY <1>5 DEF StartServer, ctlVars, mgrVars
    <2> QED
      BY <2>1, <2>2 DEF Held, Pending, Queued
  <1>6. ASSUME NEW s \in Subnets, StopServer(s) PROVE Held(i)'
    <2>1. s # i.subnet
      BY <1>6 DEF StopServer
    <2>2. table'[i.subnet] = table[i.subnet] /\ srvAdded'[i.subnet] = srvAdded[i.subnet]
      BY <1>1, <1>6, <2>1 DEF StopServer
    <2>3. UNCHANGED <<outbox, addedBindingIp, sleeping, replay>>
      BY <1>6 DEF StopServer, ctlVars
    <2>4. inflight = [op |-> "add", info |-> i] => UNCHANGED inflight
      BY <1>6, <2>1 DEF StopServer
    <2> QED
      BY <2>2, <2>3, <2>4 DEF Held, Pending, Queued
  <1>7. CASE ReplayList
    <2>1. UNCHANGED <<table, outbox, addedBindingIp, sleeping, inflight, srvAdded>>
      BY <1>7 DEF ReplayList, ctlVars, mgrVars
    <2>2. CASE replay # None /\ replay.subnet = i.subnet
      <3> DEFINE infos == {cache[m] : m \in {k \in Names : cache[k] # None}}
                 mine == {j \in infos : j.subnet = replay.subnet}
      <3>1. i \in mine
        BY <2>2, PipelineAssumption
      <3>2. replay' = [subnet |-> replay.subnet, listed |-> TRUE, todo |-> mine]
        BY <1>7, <3>1 DEF ReplayList
      <3>3. replay' # None
        <4>1. mine \subseteq Info
          BY DEF TypeOK
        <4>2. replay' \in Replay
          BY <1>1, <2>2, <3>2, <4>1 DEF Replay
        <4> QED
          BY <4>2, PipelineAssumption
      <3> QED
        BY <2>2, <3>1, <3>2, <3>3 DEF Held, Pending
    <2>3. CASE ~(replay # None /\ replay.subnet = i.subnet)
      BY <2>1, <2>3 DEF Held, Pending, Queued
    <2> QED
      BY <2>2, <2>3
  <1>8. ASSUME NEW j \in Info, ReplaySend(j) PROVE Held(i)'
    <2> DEFINE s == replay.subnet
    <2>1. /\ replay \in Replay /\ replay.listed /\ j \in replay.todo
          /\ s \in Subnets
      BY <1>1, <1>8 DEF ReplaySend, Replay
    <2>2. /\ srvAdded' = [srvAdded EXCEPT ![s] = Append(@, j)]
          /\ replay' = IF replay.todo = {j} THEN None
                       ELSE [replay EXCEPT !.todo = @ \ {j}]
          /\ UNCHANGED <<table, outbox, addedBindingIp, sleeping, inflight>>
      BY <1>8 DEF ReplaySend, ctlVars, mgrVars
    <2>3. srvAdded[s] \in Seq(Info) /\ srvAdded'[s] = Append(srvAdded[s], j)
      BY <1>1, <2>1, <2>2
    <2>4. Elems(srvAdded'[s]) = Elems(srvAdded[s]) \cup {j}
      BY <2>3, ElemsAppend
    <2>5. Elems(srvAdded[i.subnet]) \subseteq Elems(srvAdded'[i.subnet])
      BY <1>1, <2>1, <2>2, <2>4
    <2>6. CASE s = i.subnet /\ i \in replay.todo
      <3>1. CASE i = j
        BY <2>4, <2>6, <3>1 DEF Held, Pending
      <3>2. CASE i # j
        <4>1. replay' = [replay EXCEPT !.todo = @ \ {j}]
          BY <2>2, <2>6, <3>2
        <4>2. replay' \in Replay /\ replay'.subnet = s /\ i \in replay'.todo
          BY <2>1, <2>6, <3>2, <4>1 DEF Replay
        <4> QED
          BY <2>6, <4>2, PipelineAssumption DEF Held, Pending
      <3> QED
        BY <3>1, <3>2
    <2>7. CASE ~(s = i.subnet /\ i \in replay.todo)
      BY <2>1, <2>2, <2>5, <2>7 DEF Held, Pending, Queued
    <2> QED
      BY <2>6, <2>7
  <1> QED
    BY <1>2, <1>4, <1>5, <1>6, <1>7, <1>8 DEF SubnetReconcile

\* The monitor of a server neither drops an undisturbed binding nor the add
\* event for it: another spec never asked for the address, and a delete
\* event carries a removed spec.
LEMMA HeldMonitor ==
  ASSUME TypeOK, AddsRequested, DeletesRemoved, TablesRequested,
         NEW i \in Info, Held(i), Undisturbed(i), MonitorNext
  PROVE  /\ Held(i)'
         /\ table[i.subnet][i.ip] = i => table'[i.subnet][i.ip] = i
  <1>1. /\ srvAdded \in [Subnets -> Seq(Info)]
        /\ srvDeleted \in [Subnets -> Seq(Info)]
        /\ table \in [Subnets -> [IPs -> Info \cup {None}]]
        /\ i.subnet \in Subnets /\ i.ip \in IPs
        /\ i # None
    BY PipelineAssumption DEF TypeOK, Info
  <1>2. UNCHANGED <<outbox, addedBindingIp, sleeping, inflight, replay>>
    BY ControllerFrame, ManagerFrame
       DEF MonitorNext, MonitorAdded, MonitorDeleted, MonitorRestartCh, MonitorTick
  <1>3. ASSUME NEW s \in Subnets, MonitorAdded(s)
        PROVE  /\ Held(i)'
               /\ table[i.subnet][i.ip] = i => table'[i.subnet][i.ip] = i
    <2> DEFINE j == Head(srvAdded[s])
    <2>1. srvAdded[s] \in Seq(Info) /\ srvAdded[s] # <<>>
      BY <1>1, <1>3 DEF MonitorAdded
    <2>2. j \in Info /\ Elems(srvAdded[s]) = Elems(Tail(srvAdded[s])) \cup {j}
      BY <2>1, ElemsTail
    <2>3. j \in ever /\ j.subnet = s /\ j.ip \in IPs
      BY <2>2 DEF AddsRequested, Info
    <2>4. srvAdded' = [srvAdded EXCEPT ![s] = Tail(@)]
      BY <1>3 DEF MonitorAdded
    <2>5. table' = table \/ table' = [table EXCEPT ![s][j.ip] = j]
      BY <1>3 DEF MonitorAdded
    <2>6. ASSUME table[i.subnet][i.ip] = i PROVE table'[i.subnet][i.ip] = i
      <3>1. CASE s = i.subnet /\ j.ip = i.ip
        <4>1. j = i
          BY <2>3, <3>1, OnlyBinding
        <4> QED
          BY <1>1, <2>3, <2>5, <2>6, <3>1, <4>1
      <3>2. CASE ~(s = i.subnet /\ j.ip = i.ip)
        BY <1>1, <2>3, <2>5, <2>6, <3>2
      <3> QED
        BY <3>1, <3>2
    <2>7. ASSUME i \in Elems(srvAdded[i.subnet])
          PROVE  table'[i.subnet][i.ip] = i \/ i \in Elems(srvAdded'[i.subnet])
      <3>1. CASE s # i.subnet
        BY <1>1, <2>4, <2>7, <3>1
      <3>2. CASE s = i.subnet /\ j # i
        <4>1. srvAdded'[s] = Tail(srvAdded[s])
          BY <1>1, <2>4
        <4> QED
          BY <2>2, <2>7, <3>2, <4>1
      <3>3. CASE s = i.subnet /\ j = i
        <4>1. CASE Bound(s, j)
          <5>1. /\ table[s][i.ip] # None /\ table' = table
            BY <1>3, <3>3, <4>1 DEF MonitorAdded, Bound
          <5>2. /\ table[s][i.ip] \in ever
                /\ table[s][i.ip].subnet = i.subnet /\ table[s][i.ip].ip = i.ip
            BY <1>1, <3>3, <5>1 DEF TablesRequested, InPlace
          <5>3. table[s][i.ip] = i
            BY <5>2, OnlyBinding
          <5> QED
            BY <3>3, <5>1, <5>3
        <4>2. CASE ~Bound(s, j)
          <5>1. table' = [table EXCEPT ![s][j.ip] = j]
            BY <1>3, <4>2 DEF MonitorAdded
          <5> QED
            BY <1>1, <3>3, <5>1
        <4> QED
          BY <4>1, <4>2
      <3> QED
        BY <3>1, <3>2, <3>3
    <2> QED
      BY <1>2, <2>6, <2>7 DEF Held, Pending, Queued
  <1>4. ASSUME NEW s \in Subnets, MonitorDeleted(s)
        PROVE  /\ Held(i)'
               /\ table[i.subnet][i.ip] = i => table'[i.subnet][i.ip] = i
    <2> DEFINE j == Head(srvDeleted[s])
    <2>1. srvDeleted[s] \in Seq(Info) /\ srvDeleted[s] # <<>>
      BY <1>1, <1>4 DEF MonitorDeleted
    <2>2. j \in Info /\ j \in Elems(srvDeleted[s])
      BY <2>1, ElemsTail
    <2>3. j \in removed /\ j \in ever /\ j.subnet = s /\ j.ip \in IPs
      BY <2>2 DEF DeletesRemoved, Info
    <2>4. ~(s = i.subnet /\ j.ip = i.ip)
      <3>1. j # i
        BY <2>3 DEF Undisturbed
      <3> QED
        BY <2>3, <3>1, OnlyBinding
    <2>5. /\ table' = table \/ table' = [table EXCEPT ![s][j.ip] = None]
          /\ UNCHANGED srvAdded
      BY <1>4 DEF MonitorDeleted
    <2>6. table'[i.subnet][i.ip] = table[i.subnet][i.ip]
      BY <1>1, <2>3, <2>4, <2>5
    <2> QED
      BY <1>2, <2>5, <2>6 DEF Held, Pending, Queued
  <1>5. ASSUME NEW s \in Subnets, MonitorRestartCh(s) \/ MonitorTick(s)
        PROVE  /\ Held(i)'
               /\ table[i.subnet][i.ip] = i => table'[i.subnet][i.ip] = i
    <2>1. UNCHANGED <<table, srvAdded>>
      BY <1>5 DEF MonitorRestartCh, MonitorTick
    <2> QED
      BY <1>2, <2>1 DEF Held, Pending, Queued
  <1> QED
    BY <1>3, <1>4, <1>5 DEF MonitorNext

\* A binding or its add event survives every step that keeps its server.
LEMMA HeldStep ==
  ASSUME PipelineInv, [Next]_vars,
         NEW n \in Names, NEW i \in Info, cache[n] = i, cache'[n] = i,
         Undisturbed(i), Held(i),
         i.subnet \in dhcpServerList, i.subnet \in dhcpServerList'
  PROVE  Held(i)'
  <1>1. CASE UNCHANGED holdVars
    BY <1>1 DEF holdVars, Held, Pending, Queued
  <1>2. CASE UserNext
    BY <1>1, <1>2, ControllerFrame, ManagerFrame, ServerFrame DEF holdVars, srvVars
  <1>3. CASE ControllerNext
    BY <1>3, HeldController DEF PipelineInv
  <1>4. CASE ManagerNext
    BY <1>4, HeldEvents, HeldSubnets DEF ManagerNext, PipelineInv
  <1>5. CASE MonitorNext
    BY <1>5, HeldMonitor DEF PipelineInv
  <1>6. CASE FaultNext
    <2>1. ASSUME NEW s \in Subnets, ProcessDies(s) PROVE Held(i)'
      BY <1>1, <2>1 DEF ProcessDies, holdVars, ctlVars, mgrVars
    <2>2. ~AgentRestart
      BY DEF AgentRestart
    <2> QED
      BY <1>6, <2>1, <2>2 DEF FaultNext
  <1>7. CASE UNCHANGED vars
    BY <1>1, <1>7 DEF vars, holdVars, ctlVars, mgrVars, srvVars
  <1> QED
    BY <1>2, <1>3, <1>4, <1>5, <1>6, <1>7 DEF Next

\* A spec the controller has just cached is in its outbox.
LEMMA NewlyCached ==
  ASSUME TypeOK, [Next]_vars, NEW n \in Names,
         cache'[n] # cache[n], cache'[n] # None
  PROVE  outbox' = [op |-> "add", info |-> cache'[n]]
  <1>1. cache \in [Names -> Info \cup {None}]
    BY DEF TypeOK
  <1>2. ASSUME NEW m \in Names, ReconcileDeleted(m) PROVE FALSE
    BY <1>1, <1>2 DEF ReconcileDeleted
  <1>3. ASSUME NEW m \in Names, ReconcileExisting(m)
        PROVE  outbox' = [op |-> "add", info |-> cache'[n]]
    BY <1>1, <1>3 DEF ReconcileExisting, processBindingIP
  <1>4. ASSUME NEW m \in Names, InformerSync(m) PROVE FALSE
    BY <1>4 DEF InformerSync
  <1>5. ~SendEvent
    BY DEF SendEvent
  <1>6. ~UserNext /\ ~ManagerNext /\ ~MonitorNext
    BY ControllerFrame
  <1>7. ~FaultNext
    BY DEF FaultNext, ProcessDies, AgentRestart, ctlVars
  <1>8. ~UNCHANGED vars
    BY DEF vars, ctlVars
  <1> QED
    BY <1>2, <1>3, <1>4, <1>5, <1>6, <1>7, <1>8 DEF Next, ControllerNext

\* A new server finds the event of every cached spec of its subnet still in
\* the channel (Elect) or is about to have it replayed (StartServer).
LEMMA NewServer ==
  ASSUME PipelineInv, [Next]_vars, NEW n \in Names, NEW i \in Info,
         cache[n] = i, cache'[n] = i,
         i.subnet \notin dhcpServerList, i.subnet \in dhcpServerList'
  PROVE  Held(i)'
  <1>1. CASE Elect
    <2>1. elected # "yes" /\ UNCHANGED <<outbox, addedBindingIp>>
      BY <1>1 DEF Elect, ctlVars
    <2>2. Queued(i)
      BY <2>1, PipelineAssumption DEF PipelineInv, BeforeElection
    <2> QED
      BY <2>1, <2>2 DEF Held, Pending, Queued
  <1>2. ASSUME NEW s \in Subnets, StartServer(s) PROVE Held(i)'
    <2>1. /\ replay' = [subnet |-> s, listed |-> FALSE, todo |-> {}]
          /\ dhcpServerList' = dhcpServerList \cup {s}
      BY <1>2 DEF StartServer, StartServers
    <2>2. replay' \in Replay /\ i.subnet = s
      BY <2>1 DEF Replay
    <2> QED
      BY <2>1, <2>2, PipelineAssumption DEF Held, Pending
  <1>3. CASE UNCHANGED dhcpServerList
    BY <1>3
  <1>4. ASSUME NEW s \in Subnets, StopServer(s) PROVE FALSE
    BY <1>4 DEF StopServer
  <1>5. CASE \/ TakeAdded \/ TakeDeleted \/ Forward \/ ElectListFails \/ ReplayList
             \/ (\E e \in Event : Resend(e)) \/ (\E j \in Info : ReplaySend(j))
    BY <1>3, <1>5 DEF TakeAdded, TakeDeleted, Forward, ElectListFails, ReplayList,
                      Resend, ReplaySend, srvVars
  <1>6. ~(UserNext \/ ControllerNext)
    BY ServerFrame DEF srvVars
  <1>7. ~MonitorNext
    BY DEF MonitorNext, MonitorAdded, MonitorDeleted, MonitorRestartCh, MonitorTick
  <1>8. ~FaultNext
    BY DEF FaultNext, ProcessDies, AgentRestart
  <1>9. ~UNCHANGED vars
    BY DEF vars, srvVars
  <1> QED
    BY <1>1, <1>2, <1>4, <1>5, <1>6, <1>7, <1>8, <1>9
       DEF Next, ManagerNext, SubnetReconcile

\* Every step keeps NothingLost.
LEMMA NothingLostStep ==
  ASSUME PipelineInv, [Next]_vars, TypeOK' PROVE NothingLost'
  <1> SUFFICES ASSUME NEW n \in Names, NEW i, i = cache'[n], i # None,
                      Undisturbed(i)', i.subnet \in dhcpServerList'
               PROVE  Held(i)'
    BY DEF NothingLost, Held
  <1>1. i \in Info
    BY DEF TypeOK
  <1>2. CASE cache'[n] # cache[n]
    <2>1. outbox' = [op |-> "add", info |-> i]
      BY <1>2, NewlyCached DEF PipelineInv
    <2> QED
      BY <2>1 DEF Held, Pending, Queued
  <1>3. CASE cache'[n] = cache[n] /\ i.subnet \notin dhcpServerList
    BY <1>1, <1>3, NewServer
  <1>4. CASE cache'[n] = cache[n] /\ i.subnet \in dhcpServerList
    <2>1. Undisturbed(i)
      BY <1>1, UndisturbedBefore
    <2>2. Held(i)
      BY <1>4, <2>1 DEF PipelineInv, NothingLost, Held
    <2> QED
      BY <1>1, <1>4, <2>1, <2>2, HeldStep
  <1> QED
    BY <1>2, <1>3, <1>4

-----------------------------------------------------------------------------
(* The theorems                                                              *)

\* PipelineInv is inductive: it holds at the start and every step keeps it.
THEOREM PipelineInvariant == Spec => []PipelineInv
  <1>1. Init => PipelineInv
    <2> SUFFICES ASSUME Init PROVE PipelineInv
      OBVIOUS
    <2>1. TypeOK
      BY DEF Init, TypeOK, NoBindings
    <2>2. Tracked
      BY DEF Init, Tracked
    <2>3. \A op \in {"add", "del"}, i \in Info : [op |-> op, info |-> i] \in Event
      BY DEF Event
    <2>4. AddsRequested
      BY <2>3, ElemsEmpty DEF Init, AddsRequested
    <2>5. DeletesRemoved
      BY <2>3, ElemsEmpty DEF Init, DeletesRemoved
    <2>6. TablesRequested
      BY DEF Init, NoBindings, TablesRequested, InPlace
    <2>7. BeforeElection
      BY DEF Init, BeforeElection
    <2>8. NothingLost
      BY DEF Init, NothingLost
    <2> QED
      BY <2>1, <2>2, <2>4, <2>5, <2>6, <2>7, <2>8 DEF PipelineInv
  <1>2. PipelineInv /\ [Next]_vars => PipelineInv'
    <2> SUFFICES ASSUME PipelineInv, [Next]_vars PROVE PipelineInv'
      OBVIOUS
    <2>1. TypeOK /\ Tracked /\ AddsRequested /\ DeletesRemoved /\ TablesRequested
          /\ BeforeElection
      BY DEF PipelineInv
    <2>2. TypeOK'
      BY <2>1, TypeStep
    <2> QED
      BY <2>1, <2>2, TrackedStep, AddsStep, DeletesStep, TablesStep, ElectionStep,
         NothingLostStep DEF PipelineInv
  <1> QED
    BY <1>1, <1>2, PTL DEF Spec

\* No add event is lost, for any number of objects, servers and faults.
THEOREM NothingLostAlways == Spec => []NothingLost
  BY PipelineInvariant, PTL DEF PipelineInv

\* What a DHCP server serves was requested by the BindingIp it names.
THEOREM ProvenanceAlways == Spec => []ServedWasRequested
  <1>1. PipelineInv => ServedWasRequested
    <2> SUFFICES ASSUME PipelineInv PROVE ServedWasRequested
      OBVIOUS
    <2>1. dhcpServerList \subseteq Subnets /\ TablesRequested
      BY DEF PipelineInv, TypeOK
    <2> QED
      BY <2>1 DEF ServedWasRequested, TablesRequested, InPlace
  <1> QED
    BY <1>1, PipelineInvariant, PTL

\* The binding of an undisturbed spec stays in the table of a server that
\* keeps running.
THEOREM NoSpuriousUnbindAlways == Spec => NoSpuriousUnbind
  <1>1. ASSUME PipelineInv, [Next]_vars, NEW i \in ever,
               table[i.subnet][i.ip] = i, Undisturbed(i),
               i.subnet \in dhcpServerList, i.subnet \in dhcpServerList'
        PROVE  table'[i.subnet][i.ip] = i
    <2>1. i \in Info /\ i.subnet \in Subnets
      BY <1>1 DEF PipelineInv, TypeOK, Info
    <2>2. table \in [Subnets -> [IPs -> Info \cup {None}]]
      BY <1>1 DEF PipelineInv, TypeOK
    <2>3. CASE UNCHANGED table
      BY <1>1, <2>3
    <2>4. CASE UserNext \/ ControllerNext \/ UNCHANGED vars
      BY <2>3, <2>4, ServerFrame DEF vars, srvVars
    <2>5. CASE \/ TakeAdded \/ TakeDeleted \/ Forward \/ ElectListFails \/ ReplayList
               \/ (\E e \in Event : Resend(e)) \/ (\E j \in Info : ReplaySend(j))
      BY <2>3, <2>5 DEF TakeAdded, TakeDeleted, Forward, ElectListFails, ReplayList,
                        Resend, ReplaySend, srvVars
    <2>6. ASSUME NEW S, StartServers(S), i.subnet \notin S
          PROVE  table'[i.subnet][i.ip] = i
      BY <1>1, <2>1, <2>6 DEF StartServers
    <2>7. CASE Elect
      <3>1. PICK S \in SUBSET (subnets \ dhcpServerList) : StartServers(S)
        BY <2>7 DEF Elect
      <3> QED
        BY <1>1, <2>6, <3>1
    <2>8. ASSUME NEW s \in Subnets, StartServer(s) PROVE table'[i.subnet][i.ip] = i
      <3>1. StartServers({s}) /\ s \notin dhcpServerList
        BY <2>8 DEF StartServer
      <3> QED
        BY <1>1, <2>6, <3>1
    <2>9. ASSUME NEW s \in Subnets, StopServer(s) PROVE table'[i.subnet][i.ip] = i
      BY <1>1, <2>1, <2>2, <2>9 DEF StopServer
    <2>10. CASE MonitorNext
      <3>1. Held(i)
        BY <1>1 DEF Held
      <3> QED
        BY <1>1, <2>1, <2>10, <3>1, HeldMonitor DEF PipelineInv
    <2>11. CASE FaultNext
      BY <1>1, <2>11 DEF FaultNext, ProcessDies, AgentRestart
    <2> QED
      BY <1>1, <2>4, <2>5, <2>7, <2>8, <2>9, <2>10, <2>11
         DEF Next, ManagerNext, SubnetReconcile
  <1> DEFINE Kept == \A i \in ever :
          LET s == i.subnet IN
          (/\ table[s][i.ip] = i
           /\ Undisturbed(i) /\ Undisturbed(i)'
           /\ s \in dhcpServerList /\ s \in dhcpServerList')
              => table'[s][i.ip] = i
  <1>2. PipelineInv /\ [Next]_vars => [Kept]_vars
    BY <1>1
  <1> QED
    BY <1>2, PipelineInvariant, PTL DEF Spec, NoSpuriousUnbind

\* File, process and table of every running server agree between two
\* iterations of its monitor, failed writes and dead processes aside.
THEOREM ConfigInStepAlways == Spec => []ConfigInStep
  <1>1. Init => ConfigInStep
    BY DEF Init, ConfigInStep
  <1>2. ASSUME TypeOK, ConfigInStep, [Next]_vars PROVE ConfigInStep'
    <2>1. /\ table \in [Subnets -> [IPs -> Info \cup {None}]]
          /\ hosts \in [Subnets -> [IPs -> Info \cup {None}]]
          /\ loaded \in [Subnets -> [IPs -> Info \cup {None}]]
          /\ dhcpServerList \subseteq Subnets
      BY <1>2 DEF TypeOK
    <2>2. CASE UNCHANGED <<dhcpServerList, table, hosts, loaded, alive, torn>>
      BY <1>2, <2>2 DEF ConfigInStep
    <2>3. CASE UserNext \/ ControllerNext \/ UNCHANGED vars
      BY <2>2, <2>3, ServerFrame DEF vars, srvVars
    <2>4. CASE \/ TakeAdded \/ TakeDeleted \/ Forward \/ ElectListFails \/ ReplayList
               \/ (\E e \in Event : Resend(e)) \/ (\E j \in Info : ReplaySend(j))
      BY <2>2, <2>4 DEF TakeAdded, TakeDeleted, Forward, ElectListFails, ReplayList,
                        Resend, ReplaySend, srvVars
    <2>5. ASSUME NEW S \in SUBSET Subnets, StartServers(S) PROVE ConfigInStep'
      BY <1>2, <2>1, <2>5 DEF StartServers, ConfigInStep
    <2>6. CASE Elect
      BY <1>2, <2>5, <2>6 DEF Elect, TypeOK
    <2>7. ASSUME NEW s \in Subnets, StartServer(s) PROVE ConfigInStep'
      BY <2>5, <2>7 DEF StartServer
    <2>8. ASSUME NEW s \in Subnets, StopServer(s) PROVE ConfigInStep'
      BY <1>2, <2>1, <2>8 DEF StopServer, ConfigInStep
    <2>9. ASSUME NEW s \in Subnets, Rewrite(s), UNCHANGED <<dhcpServerList, alive>>,
                 \A r \in Subnets \ {s} : table'[r] = table[r]
          PROVE  ConfigInStep'
      <3>1. CASE WriteAndReload(s, table'[s])
        BY <1>2, <2>1, <2>9, <3>1 DEF WriteAndReload, ConfigInStep
      <3>2. CASE WriteFails(s)
        <4>1. /\ \A r \in Subnets \ {s} : hosts'[r] = hosts[r]
              /\ UNCHANGED loaded /\ torn' = torn \cup {s}
          BY <2>1, <3>2 DEF WriteFails
        <4> QED
          BY <1>2, <2>1, <2>9, <4>1 DEF ConfigInStep
      <3> QED
        BY <2>9, <3>1, <3>2 DEF Rewrite
    <2>10. ASSUME NEW s \in Subnets, MonitorAdded(s) PROVE ConfigInStep'
      <3>1. UNCHANGED <<dhcpServerList, alive>>
        BY <2>10 DEF MonitorAdded
      <3>2. CASE Bound(s, Head(srvAdded[s]))
        BY <2>2, <2>10, <3>2 DEF MonitorAdded
      <3>3. CASE ~Bound(s, Head(srvAdded[s]))
        BY <2>1, <2>9, <2>10, <3>1, <3>3 DEF MonitorAdded
      <3> QED
        BY <3>2, <3>3
    <2>11. ASSUME NEW s \in Subnets, MonitorDeleted(s) PROVE ConfigInStep'
      <3>1. UNCHANGED <<dhcpServerList, alive>>
        BY <2>11 DEF MonitorDeleted
      <3>2. CASE ~Bound(s, Head(srvDeleted[s]))
        BY <2>2, <2>11, <3>2 DEF MonitorDeleted
      <3>3. CASE Bound(s, Head(srvDeleted[s]))
        BY <2>1, <2>9, <2>11, <3>1, <3>3 DEF MonitorDeleted
      <3> QED
        BY <3>2, <3>3
    <2>12. ASSUME NEW s \in Subnets, MonitorRestartCh(s) PROVE ConfigInStep'
      BY <2>9, <2>12 DEF MonitorRestartCh
    <2>13. ASSUME NEW s \in Subnets, MonitorTick(s) PROVE ConfigInStep'
      BY <1>2, <2>1, <2>13 DEF MonitorTick, ConfigInStep
    <2>14. ASSUME NEW s \in Subnets, ProcessDies(s) PROVE ConfigInStep'
      BY <1>2, <2>14 DEF ProcessDies, ConfigInStep
    <2>15. CASE AgentRestart
      BY <2>15 DEF AgentRestart, ConfigInStep
    <2> QED
      BY <1>2, <2>3, <2>4, <2>6, <2>7, <2>8, <2>10, <2>11, <2>12, <2>13, <2>14, <2>15
         DEF Next, ManagerNext, SubnetReconcile, MonitorNext, FaultNext
  <1> QED
    BY <1>1, <1>2, TypeCorrect, PTL DEF Spec
=============================================================================
