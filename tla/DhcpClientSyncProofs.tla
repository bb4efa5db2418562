------------------------ MODULE DhcpClientSyncProofs ------------------------
(***************************************************************************)
(* Theorems about DhcpClientSync, for any addresses, leases, channel       *)
(* capacity, changes and faults. The inductive invariant is SyncInv.       *)
(***************************************************************************)
EXTENDS DhcpClientSync, TLAPS

\* The last report about i says that its lease is l.
Says(i, l) ==
    IF l = None THEN told[i].kind # "add"
    ELSE told[i].kind = "add" /\ told[i].lease = l

\* As long as dnsmasq has not been started the file does not change and no
\* lease is known. A scan reports what differs between what is known and what
\* it read, which is the file unless an event is waiting.
Scanning ==
    /\ mon.pc = "idle" => mon \in {MonIdle, Boot}
    /\ ~mon.up => file = lease /\ known = Nothing
    /\ mon.pc = "send" =>
          /\ ~dirty => mon.new = file
          /\ \A i \in mon.adds : mon.new[i] # None
          /\ \A i \in mon.dels : mon.new[i] = None /\ known[i] # None

\* What has been said of an address without a gap: when the agent starts, no
\* more than that it has a lease; later what is known of it, which is what the
\* file says unless an event is waiting; during a scan, what the scan read,
\* unless the report is still to come.
Said ==
    \A i \in IPs \ gap :
        /\ mon.pc = "idle" /\ ~mon.up /\ told[i].kind = "add" => file[i] # None
        /\ mon.pc = "idle" /\ mon.up => Says(i, known[i])
        /\ mon.pc = "idle" /\ mon.up /\ ~dirty => known[i] = file[i]
        /\ mon.pc = "send" /\ i \notin mon.adds \cup mon.dels => Says(i, mon.new[i])

\* Reports that have been sent: the last one about an address, or an earlier
\* one.
Sent(k) ==
    {e \in Reports :
        /\ e.kind = k
        /\ e.ip \in IPs
        /\ e.lease \in Leases
        /\ e.n > 0 /\ e.n <= told[e.ip].n
        /\ e.n = told[e.ip].n => e = told[e.ip]}

\* Reports that wait or are being handled are reports that were sent, each in
\* the channel and with the handler of its kind.
InTransit ==
    /\ addChan \in Seq(Sent("add"))
    /\ deleteChan \in Seq(Sent("delete"))
    /\ timers \subseteq Sent("add") \cup Sent("delete")
    /\ w.pc = "idle" => w = Idle
    /\ w.pc \in {"add", "create", "fill", "bind"} => w.ev \in Sent("add")
    /\ w.pc = "delete" => w.ev \in Sent("delete")

\* A resourceVersion is given once: a copy with the version of the object is
\* the object, and the object with the version that Create answered is the one
\* that was created.
Versions ==
    /\ \A i \in IPs :
          /\ obj[i] # None => obj[i].rv <= rev[i]
          /\ seen[i] # None => seen[i].rv <= rev[i]
          /\ obj[i] # None /\ seen[i] # None /\ obj[i].rv = seen[i].rv => obj[i] = seen[i]
    /\ w.pc = "fill" =>
          /\ w.uid <= rev[w.ev.ip]
          /\ obj[w.ev.ip] # None /\ obj[w.ev.ip].rv = w.uid => obj[w.ev.ip].uid = w.uid

\* The RedfishStatus of i has what the lease of report e says.
Follows(i, e) ==
    /\ obj[i] # None
    /\ obj[i].mac = e.lease.mac
    /\ obj[i].expire = e.lease.expire

\* When handleDHCPAdd comes to the BindingIp, the RedfishStatus it names as
\* the owner follows the report, unless it was deleted or an old copy was
\* looked at.
AtBind ==
    w.pc = "bind" /\ ~w.stale =>
        Follows(w.ev.ip, w.ev) /\ obj[w.ev.ip].uid = w.uid

\* The last report about an address has been handled, and the handler is not
\* at another report about it.
Handled(i) ==
    /\ told[i].n # 0
    /\ settled[i] = told[i].n
    /\ ~(w.pc # "idle" /\ w.ev.ip = i)

\* The objects say what the last report says, and the BindingIp belongs to the
\* RedfishStatus that is there, so that it is not garbage.
Agreed(i) ==
    \/ /\ told[i].kind = "add"
       /\ Follows(i, told[i])
       /\ told[i].bind => bound[i] # None /\ bound[i].owner = obj[i].uid
    \/ /\ told[i].kind = "delete"
       /\ obj[i] # None => obj[i].label = "false"

InLine == \A i \in IPs : settled[i] <= told[i].n /\ (Handled(i) => Agreed(i))

SyncInv ==
    /\ TypeOK
    /\ Scanning
    /\ Said
    /\ InTransit
    /\ Versions
    /\ AtBind
    /\ InLine

-----------------------------------------------------------------------------
(* Reports, objects and sequences of them                                    *)

\* The fields of a report.
LEMMA ReportFields ==
    ASSUME NEW e \in Reports
    PROVE  /\ e.kind \in {"none", "add", "delete"}
           /\ e.n \in Nat /\ e.lease \in Leases \cup {None} /\ e.bind \in BOOLEAN
  BY DEF Reports

\* The fields of a RedfishStatus.
LEMMA ObjectFields ==
    ASSUME NEW o \in Objects
    PROVE  o.uid \in Nat /\ o.rv \in Nat
  BY DEF Objects

\* A channel of reports of one kind is a channel of reports of a larger set.
LEMMA ChannelGrows ==
    ASSUME NEW S, NEW T, S \subseteq T, NEW s \in Seq(S)
    PROVE  s \in Seq(T)
  OBVIOUS

\* What Send appends is a report.
LEMMA ReportTyped ==
    ASSUME TypeOK, NEW k \in {"add", "delete"}, NEW i \in IPs, NEW l \in Leases
    PROVE  Report(k, i, l) \in Reports
<1>1. told[i].n + 1 \in Nat
  BY ReportFields DEF TypeOK
<1>2. (feature = "bind") \in BOOLEAN
  OBVIOUS
<1> QED
  BY <1>1, <1>2 DEF Report, Reports

\* Reports stay sent as long as no other is sent.
LEMMA SentStays ==
    told' = told => Sent("add")' = Sent("add") /\ Sent("delete")' = Sent("delete")
  BY DEF Sent

\* A new report about i outdates the earlier ones, which remain reports that
\* were sent, and is itself one.
LEMMA SendOutdates ==
    ASSUME TypeOK, NEW k \in {"add", "delete"}, NEW i \in IPs, NEW l \in Leases,
           told' = [told EXCEPT ![i] = Report(k, i, l)]
    PROVE  /\ Report(k, i, l) \in Reports
           /\ Report(k, i, l) \in Sent(k)'
           /\ Sent("add") \subseteq Sent("add")'
           /\ Sent("delete") \subseteq Sent("delete")'
           /\ told' \in [IPs -> Reports]
           /\ told'[i].n = told[i].n + 1
<1>1. Report(k, i, l) \in Reports
  BY ReportTyped
<1>2. told' \in [IPs -> Reports]
  BY <1>1 DEF TypeOK
<1>3. told[i].n \in Nat /\ told'[i] = Report(k, i, l)
  BY ReportFields DEF TypeOK
<1>4. /\ Report(k, i, l).kind = k /\ Report(k, i, l).ip = i
      /\ Report(k, i, l).n = told[i].n + 1 /\ Report(k, i, l).lease = l
  BY DEF Report
<1>5. Report(k, i, l) \in Sent(k)'
  BY <1>1, <1>3, <1>4 DEF Sent
<1>6. ASSUME NEW c, NEW e \in Sent(c)
      PROVE  e \in Sent(c)'
  <2>1. CASE e.ip = i
    BY <1>3, <1>4, <2>1, ReportFields DEF Sent
  <2>2. CASE e.ip # i
    <3>1. told'[e.ip] = told[e.ip]
      BY <2>2 DEF TypeOK, Sent
    <3> QED
      BY <3>1 DEF Sent
  <2> QED
    BY <2>1, <2>2
<1> QED
  BY <1>1, <1>2, <1>3, <1>4, <1>5, <1>6

\* What the API server does when it stores o as the RedfishStatus of i.
LEMMA StoreEffect ==
    ASSUME TypeOK, NEW i \in IPs, NEW o \in Objects, Store(i, o)
    PROVE  /\ obj' \in [IPs -> Objects \cup {None}]
           /\ rev' \in [IPs -> Nat]
           /\ rev'[i] = rev[i] + 1
           /\ obj'[i] \in Objects /\ obj'[i] # None
           /\ obj'[i].rv = rev[i] + 1 /\ obj'[i].uid = o.uid
           /\ obj'[i].mac = o.mac /\ obj'[i].expire = o.expire
           /\ obj'[i].label = o.label
           /\ \A j \in IPs \ {i} : obj'[j] = obj[j] /\ rev'[j] = rev[j]
<1> DEFINE p == [o EXCEPT !.rv = rev[i] + 1]
<1>1. rev[i] + 1 \in Nat
  BY DEF TypeOK
<1>2. p \in Objects
  BY <1>1 DEF Objects
<1>3. /\ p.rv = rev[i] + 1 /\ p.uid = o.uid /\ p.mac = o.mac /\ p.expire = o.expire
      /\ p.label = o.label
  BY DEF Objects
<1>4. obj' = [obj EXCEPT ![i] = p] /\ rev' = [rev EXCEPT ![i] = rev[i] + 1]
  BY DEF Store
<1> HIDE DEF p
<1>5. obj'[i] = p /\ obj' \in [IPs -> Objects \cup {None}]
  BY <1>2, <1>4 DEF TypeOK
<1>6. rev'[i] = rev[i] + 1 /\ rev' \in [IPs -> Nat]
  BY <1>1, <1>4 DEF TypeOK
<1>7. \A j \in IPs \ {i} : obj'[j] = obj[j] /\ rev'[j] = rev[j]
  BY <1>4 DEF TypeOK
<1> QED
  BY <1>2, <1>3, <1>5, <1>6, <1>7, NoneAssumption

\* The version given is new: no copy has it, and nobody was told it.
LEMMA StoreKeepsVersions ==
    ASSUME SyncInv, NEW i \in IPs, NEW o \in Objects, Store(i, o), UNCHANGED seen,
           w'.pc = "fill" => w.pc = "fill" /\ UNCHANGED w /\ w.ev.ip \in IPs
    PROVE  Versions'
<1>1. /\ obj'[i] \in Objects /\ rev'[i] = rev[i] + 1 /\ obj'[i].rv = rev[i] + 1
      /\ \A j \in IPs \ {i} : obj'[j] = obj[j] /\ rev'[j] = rev[j]
  BY StoreEffect DEF SyncInv
<1>2. rev[i] \in Nat
  BY DEF SyncInv, TypeOK
<1>3. ASSUME NEW j \in IPs
      PROVE  /\ obj'[j] # None => obj'[j].rv <= rev'[j]
             /\ seen'[j] # None => seen'[j].rv <= rev'[j]
             /\ obj'[j] # None /\ seen'[j] # None /\ obj'[j].rv = seen'[j].rv
                  => obj'[j] = seen'[j]
  <2>1. CASE j = i
    <3>1. seen[i] # None => seen[i].rv \in Nat /\ seen[i].rv <= rev[i]
      BY ObjectFields DEF SyncInv, TypeOK, Versions
    <3> QED
      BY <1>1, <1>2, <2>1, <3>1
  <2>2. CASE j # i
    BY <1>1, <2>2 DEF SyncInv, Versions
  <2> QED
    BY <2>1, <2>2
<1>4. ASSUME w'.pc = "fill"
      PROVE  /\ w'.uid <= rev'[w'.ev.ip]
             /\ obj'[w'.ev.ip] # None /\ obj'[w'.ev.ip].rv = w'.uid
                  => obj'[w'.ev.ip].uid = w'.uid
  <2>1. w' = w /\ w.pc = "fill" /\ w.ev.ip \in IPs /\ w.uid \in Nat
    BY <1>4 DEF SyncInv, TypeOK, Handlings
  <2>2. CASE w.ev.ip = i
    BY <1>1, <1>2, <2>1, <2>2 DEF SyncInv, Versions
  <2>3. CASE w.ev.ip # i
    BY <1>1, <2>1, <2>3 DEF SyncInv, Versions
  <2> QED
    BY <2>2, <2>3
<1> QED
  BY <1>3, <1>4 DEF Versions

\* The handler at work has a report that was sent.
LEMMA AtWork ==
    ASSUME SyncInv, w.pc # "idle"
    PROVE  /\ w.ev \in Sent("add") \cup Sent("delete")
           /\ w.ev \in Reports /\ w.ev # None
           /\ w.ev.ip \in IPs /\ w.ev.lease \in Leases /\ w.ev.n \in Nat
           /\ w.ev.n > 0 /\ w.ev.n <= told[w.ev.ip].n
           /\ w.ev.n = told[w.ev.ip].n => w.ev = told[w.ev.ip]
           /\ IF w.pc = "delete" THEN w.ev.kind = "delete" ELSE w.ev.kind = "add"
<1>1. w.pc \in {"add", "create", "fill", "bind", "delete"}
  BY DEF SyncInv, TypeOK, Handlings
<1>2. w.ev \in Sent("add") \cup Sent("delete")
  BY <1>1 DEF SyncInv, InTransit
<1>3. IF w.pc = "delete" THEN w.ev.kind = "delete" ELSE w.ev.kind = "add"
  BY <1>1 DEF SyncInv, InTransit, Sent
<1> QED
  BY <1>2, <1>3, ReportFields, NoneAssumption DEF Sent

-----------------------------------------------------------------------------
(* Every step keeps the invariant                                            *)

\* dnsmasq and users of the Subnet leave an event for the monitor.
LEMMA LeasesKeepInv ==
    ASSUME SyncInv, \/ \E i \in IPs, l \in Leases \cup {None} : LeaseChange(i, l)
           \/ LeaseFlush
           \/ \E f \in {"off", "sync", "bind"} : UpdateService(f)
    PROVE  SyncInv'
<1> USE SyncAssumption, NoneAssumption, SentStays
      DEF SyncInv, TypeOK, dhcpVars, srvVars, chanVars, apiVars, cacheVars, handlerFrame
<1>1. ASSUME NEW i \in IPs, NEW l \in Leases \cup {None}, LeaseChange(i, l)
      PROVE  SyncInv'
  <2>1. TypeOK'
    <3>1. lease' \in [IPs -> Leases \cup {None}]
      BY <1>1 DEF LeaseChange, Change
    <3>2. file' \in [IPs -> Leases \cup {None}]
      BY <1>1 DEF LeaseChange, Change, Nothing
    <3>3. dirty' \in BOOLEAN
      BY <1>1 DEF LeaseChange, Change
    <3>4. changes' \in 0..MaxChanges
      BY <1>1 DEF LeaseChange, Change
    <3> QED
      BY <1>1, <3>1, <3>2, <3>3, <3>4 DEF LeaseChange, Change
  <2>2. Scanning'
    BY <1>1, <2>1 DEF LeaseChange, Change, Scanning
  <2>3. Said'
    BY <1>1, <2>1 DEF LeaseChange, Change, Said, Says
  <2>4. InTransit' /\ Versions' /\ AtBind' /\ InLine'
    BY <1>1 DEF LeaseChange, Change, InTransit, Versions, AtBind, Follows, InLine,
       Handled, Agreed
  <2> QED
    BY <2>1, <2>2, <2>3, <2>4 DEF SyncInv
<1>2. ASSUME LeaseFlush
      PROVE  SyncInv'
  <2>1. TypeOK'
    BY <1>2 DEF LeaseFlush
  <2>2. Scanning'
    BY <1>2, <2>1 DEF LeaseFlush, Scanning
  <2>3. Said'
    BY <1>2, <2>1 DEF LeaseFlush, Said, Says, Scanning
  <2>4. InTransit' /\ Versions' /\ AtBind' /\ InLine'
    BY <1>2 DEF LeaseFlush, InTransit, Versions, AtBind, Follows, InLine, Handled,
       Agreed
  <2> QED
    BY <2>1, <2>2, <2>3, <2>4 DEF SyncInv
<1>3. ASSUME NEW f \in {"off", "sync", "bind"}, UpdateService(f)
      PROVE  SyncInv'
  <2>1. TypeOK'
    BY <1>3 DEF UpdateService, Change
  <2>2. Scanning'
    BY <1>3, <2>1 DEF UpdateService, Change, Scanning
  <2>3. Said'
    BY <1>3, <2>1 DEF UpdateService, Change, Said, Says
  <2>4. InTransit' /\ Versions' /\ AtBind' /\ InLine'
    BY <1>3 DEF UpdateService, Change, InTransit, Versions, AtBind, Follows, InLine,
       Handled, Agreed
  <2> QED
    BY <2>1, <2>2, <2>3, <2>4 DEF SyncInv
<1> QED
  BY <1>1, <1>2, <1>3

\* The monitor compares the file with what it knows. A difference that it
\* does not report is a gap.
LEMMA ScanLeasesKeepsInv ==
    ASSUME SyncInv, ScanLeases
    PROVE  SyncInv'
<1> USE SyncAssumption, NoneAssumption, SentStays
      DEF SyncInv, TypeOK, dhcpVars, srvVars, chanVars, apiVars, cacheVars, handlerFrame
<1>a. /\ mon.pc = "idle" /\ dirty' = FALSE /\ mon'.pc = "send" /\ mon'.up = mon.up
      /\ mon'.new = file /\ mon'.adds \subseteq IPs /\ mon'.dels \subseteq IPs /\ mon' \in Scans
  BY DEF ScanLeases, Scans
<1>b. /\ \A j \in mon'.adds : file[j] # None
      /\ \A j \in mon'.dels : file[j] = None /\ known[j] # None
      /\ gap \subseteq gap' /\ gap' \subseteq IPs
      /\ \A j \in IPs \ gap' : j \notin mon'.adds \cup mon'.dels => known[j] = file[j]
  BY DEF ScanLeases, Appeared, Changed, Vanished
<1>c. UNCHANGED <<dhcpVars, known, told, chanVars, w, apiVars, cacheVars, changes, faults, settled>>
  BY DEF ScanLeases
<1>1. TypeOK'
  <2>1. dirty' \in BOOLEAN
    BY <1>a, <1>b, <1>c
  <2>2. mon' \in Scans
    BY <1>a, <1>b, <1>c DEF Scans, Nothing
  <2>3. gap' \subseteq IPs
    BY <1>a, <1>b, <1>c
  <2> QED
    BY <1>a, <1>b, <1>c, <2>1, <2>2, <2>3
<1>2. Scanning'
  BY <1>a, <1>b, <1>c, <1>1 DEF Scanning
<1>3. Said'
  <2>1. SUFFICES ASSUME NEW j \in IPs \ gap', j \notin mon'.adds \cup mon'.dels
       PROVE  Says(j, mon.new[j])'
    BY <1>a, <1>b, <1>c DEF Said
  <2>2. j \notin gap /\ known[j] = file[j] /\ mon'.new[j] = file[j]
    BY <1>a, <1>b, <1>c, <2>1
  <2>3. CASE mon.up
    BY <1>a, <1>b, <1>c, <2>2, <2>3 DEF Said, Says
  <2>4. CASE ~mon.up
    BY <1>a, <1>b, <1>c, <2>2, <2>4 DEF Said, Says, Scanning, Nothing
  <2> QED
    BY <2>3, <2>4 DEF Scans
<1>4. InTransit' /\ Versions' /\ AtBind' /\ InLine'
  BY <1>a, <1>b, <1>c DEF InTransit, Versions, AtBind, Follows, InLine, Handled, Agreed
<1> QED
  BY <1>1, <1>2, <1>3, <1>4 DEF SyncInv

\* A file that cannot be read leaves a gap.
LEMMA ScanFailsKeepsInv ==
    ASSUME SyncInv, ScanFails
    PROVE  SyncInv'
<1> USE SyncAssumption, NoneAssumption, SentStays
      DEF SyncInv, TypeOK, dhcpVars, srvVars, chanVars, apiVars, cacheVars, handlerFrame
<1>1. ASSUME ScanFails
      PROVE  SyncInv'
  <2>1. TypeOK'
    BY <1>1 DEF ScanFails, Fault
  <2>2. Scanning'
    BY <1>1, <2>1 DEF ScanFails, Fault, Scanning
  <2>3. Said'
    BY <1>1, <2>1 DEF ScanFails, Fault, Said, Says
  <2>4. InTransit' /\ Versions' /\ AtBind' /\ InLine'
    BY <1>1 DEF ScanFails, Fault, InTransit, Versions, AtBind, Follows, InLine, Handled,
       Agreed
  <2> QED
    BY <2>1, <2>2, <2>3, <2>4 DEF SyncInv
<1> QED
  BY <1>1

\* The leases that were read become the leases that are known.
LEMMA ScanDoneKeepsInv ==
    ASSUME SyncInv, ScanDone
    PROVE  SyncInv'
<1> USE SyncAssumption, NoneAssumption, SentStays
      DEF SyncInv, TypeOK, dhcpVars, srvVars, chanVars, apiVars, cacheVars, handlerFrame
<1>a. /\ mon.pc = "send" /\ mon.adds = {} /\ mon.dels = {} /\ known' = mon.new
      /\ mon' = MonIdle /\ mon'.pc = "idle" /\ mon'.up /\ mon' \in Scans
  BY DEF ScanDone, MonIdle, Scans, Nothing
<1>b. UNCHANGED <<dhcpVars, dirty, told, gap, chanVars, w, apiVars, cacheVars, changes, faults, settled>>
  BY DEF ScanDone
<1>1. TypeOK'
  <2>1. known' \in [IPs -> Leases \cup {None}]
    BY <1>a, <1>b DEF Nothing, Scans
  <2>2. mon' \in Scans
    BY <1>a, <1>b DEF Scans, Nothing
  <2> QED
    BY <1>a, <1>b, <2>1, <2>2
<1>2. Scanning'
  BY <1>a, <1>b, <1>1 DEF Scanning
<1>3. Said'
  BY <1>a, <1>b, <1>1 DEF Said, Says, Scanning
<1>4. InTransit' /\ Versions' /\ AtBind' /\ InLine'
  BY <1>a, <1>b DEF InTransit, Versions, AtBind, Follows, InLine, Handled, Agreed
<1> QED
  BY <1>1, <1>2, <1>3, <1>4 DEF SyncInv

\* The monitor sends an add report: those before it are out of date.
LEMMA SendAddKeepsInv ==
    ASSUME SyncInv, NEW i \in IPs, SendAdd(i)
    PROVE  SyncInv'
<1> USE SyncAssumption, NoneAssumption, SentStays
      DEF SyncInv, TypeOK, dhcpVars, srvVars, chanVars, apiVars, cacheVars, handlerFrame
<1>a. /\ mon.pc = "send" /\ i \in mon.adds /\ mon.new[i] \in Leases /\ mon.new[i] # None
  BY DEF SendAdd, Scanning, Scans
<1>b. /\ Report("add", i, mon.new[i]).kind = "add" /\ Report("add", i, mon.new[i]).lease = mon.new[i]
      /\ addChan' = Append(addChan, Report("add", i, mon.new[i])) /\ Len(addChan) < Cap
      /\ told' = [told EXCEPT ![i] = Report("add", i, mon.new[i])] /\ gap' = gap \ {i}
      /\ mon' = [mon EXCEPT !.adds = @ \ {i}]
      /\ UNCHANGED <<dhcpVars, dirty, known, deleteChan, timers, w, apiVars, cacheVars, changes,
                     faults, settled>>
  BY DEF SendAdd, Report
<1>c. /\ Report("add", i, mon.new[i]) \in Reports /\ Report("add", i, mon.new[i]) \in Sent("add")'
      /\ Sent("add") \subseteq Sent("add")' /\ Sent("delete") \subseteq Sent("delete")'
      /\ told' \in [IPs -> Reports] /\ told'[i].n = told[i].n + 1
  BY <1>a, <1>b, SendOutdates
<1>d. /\ mon'.pc = "send" /\ mon'.up = mon.up /\ mon'.new = mon.new /\ mon' \in Scans
      /\ mon'.adds \subseteq mon.adds /\ mon'.dels \subseteq mon.dels
      /\ \A j \in IPs \ {i} :
            j \in mon.adds \cup mon.dels => j \in mon'.adds \cup mon'.dels
  BY <1>a, <1>b DEF Scans
<1>1. TypeOK'
  <2>1. addChan' \in Seq(Reports) /\ Len(addChan') <= Cap
    BY <1>a, <1>b, <1>c, <1>d
  <2>2. told' \in [IPs -> Reports]
    BY <1>a, <1>b, <1>c, <1>d
  <2>3. gap' \subseteq IPs
    BY <1>a, <1>b, <1>c, <1>d
  <2>4. mon' \in Scans
    BY <1>a, <1>b, <1>c, <1>d DEF Scans, Nothing
  <2> QED
    BY <1>a, <1>b, <1>c, <1>d, <2>1, <2>2, <2>3, <2>4
<1>2. Scanning'
  BY <1>a, <1>b, <1>c, <1>d, <1>1 DEF Scanning
<1>3. Said'
  <2>1. SUFFICES ASSUME NEW j \in IPs \ gap', j \notin mon'.adds \cup mon'.dels
       PROVE  Says(j, mon.new[j])'
    BY <1>a, <1>b, <1>c, <1>d DEF Said
  <2>2. CASE j = i
    BY <1>a, <1>b, <1>c, <1>d, <2>2 DEF Says
  <2>3. CASE j # i
    BY <1>a, <1>b, <1>c, <1>d, <2>1, <2>3 DEF Said, Says
  <2> QED
    BY <2>2, <2>3
<1>4. InTransit'
  <2>1. /\ addChan' \in Seq(Sent("add")') /\ deleteChan' \in Seq(Sent("delete")')
       /\ timers' \subseteq Sent("add")' \cup Sent("delete")'
    BY <1>a, <1>b, <1>c, <1>d, ChannelGrows DEF InTransit
  <2> QED
    BY <1>a, <1>b, <1>c, <1>d, <2>1 DEF InTransit
<1>5. InLine'
  <2>1. ASSUME NEW j \in IPs, Handled(j)'
       PROVE  Agreed(j)'
    <3>1. CASE j # i
      <4>1. Handled(j)
        BY <1>a, <1>b, <1>c, <1>d, <1>1, <2>1, <3>1 DEF Handled
      <4> QED
        BY <1>a, <1>b, <1>c, <1>d, <2>1, <3>1, <4>1 DEF InLine, Agreed, Follows
    <3>2. CASE j = i
      BY <1>a, <1>b, <1>c, <1>d, <2>1, <3>2, ReportFields DEF Handled, InLine
    <3> QED
      BY <3>1, <3>2
  <2>2. ASSUME NEW j \in IPs
       PROVE  settled'[j] <= told'[j].n
    BY <1>a, <1>b, <1>c, <1>d, ReportFields DEF InLine
  <2> QED
    BY <2>1, <2>2 DEF InLine
<1>6. Versions' /\ AtBind'
  BY <1>a, <1>b, <1>c, <1>d DEF Versions, AtBind, Follows
<1> QED
  BY <1>1, <1>2, <1>3, <1>4, <1>5, <1>6 DEF SyncInv

\* The monitor sends a delete report: those before it are out of date.
LEMMA SendDeleteKeepsInv ==
    ASSUME SyncInv, NEW i \in IPs, SendDelete(i)
    PROVE  SyncInv'
<1> USE SyncAssumption, NoneAssumption, SentStays
      DEF SyncInv, TypeOK, dhcpVars, srvVars, chanVars, apiVars, cacheVars, handlerFrame
<1>a. /\ mon.pc = "send" /\ i \in mon.dels /\ known[i] \in Leases /\ mon.new[i] = None
  BY DEF SendDelete, Scanning, Scans
<1>b. /\ Report("delete", i, known[i]).kind = "delete" /\ Report("delete", i, known[i]).lease = known[i]
      /\ deleteChan' = Append(deleteChan, Report("delete", i, known[i])) /\ Len(deleteChan) < Cap
      /\ told' = [told EXCEPT ![i] = Report("delete", i, known[i])] /\ gap' = gap \ {i}
      /\ mon' = [mon EXCEPT !.dels = @ \ {i}]
      /\ UNCHANGED <<dhcpVars, dirty, known, addChan, timers, w, apiVars, cacheVars, changes,
                     faults, settled>>
  BY DEF SendDelete, Report
<1>c. /\ Report("delete", i, known[i]) \in Reports /\ Report("delete", i, known[i]) \in Sent("delete")'
      /\ Sent("add") \subseteq Sent("add")' /\ Sent("delete") \subseteq Sent("delete")'
      /\ told' \in [IPs -> Reports] /\ told'[i].n = told[i].n + 1
  BY <1>a, <1>b, SendOutdates
<1>d. /\ mon'.pc = "send" /\ mon'.up = mon.up /\ mon'.new = mon.new /\ mon' \in Scans
      /\ mon'.adds \subseteq mon.adds /\ mon'.dels \subseteq mon.dels
      /\ \A j \in IPs \ {i} :
            j \in mon.adds \cup mon.dels => j \in mon'.adds \cup mon'.dels
  BY <1>a, <1>b DEF Scans
<1>1. TypeOK'
  <2>1. deleteChan' \in Seq(Reports) /\ Len(deleteChan') <= Cap
    BY <1>a, <1>b, <1>c, <1>d
  <2>2. told' \in [IPs -> Reports]
    BY <1>a, <1>b, <1>c, <1>d
  <2>3. gap' \subseteq IPs
    BY <1>a, <1>b, <1>c, <1>d
  <2>4. mon' \in Scans
    BY <1>a, <1>b, <1>c, <1>d DEF Scans, Nothing
  <2> QED
    BY <1>a, <1>b, <1>c, <1>d, <2>1, <2>2, <2>3, <2>4
<1>2. Scanning'
  BY <1>a, <1>b, <1>c, <1>d, <1>1 DEF Scanning
<1>3. Said'
  <2>1. SUFFICES ASSUME NEW j \in IPs \ gap', j \notin mon'.adds \cup mon'.dels
       PROVE  Says(j, mon.new[j])'
    BY <1>a, <1>b, <1>c, <1>d DEF Said
  <2>2. CASE j = i
    BY <1>a, <1>b, <1>c, <1>d, <2>2 DEF Says
  <2>3. CASE j # i
    BY <1>a, <1>b, <1>c, <1>d, <2>1, <2>3 DEF Said, Says
  <2> QED
    BY <2>2, <2>3
<1>4. InTransit'
  <2>1. /\ addChan' \in Seq(Sent("add")') /\ deleteChan' \in Seq(Sent("delete")')
       /\ timers' \subseteq Sent("add")' \cup Sent("delete")'
    BY <1>a, <1>b, <1>c, <1>d, ChannelGrows DEF InTransit
  <2> QED
    BY <1>a, <1>b, <1>c, <1>d, <2>1 DEF InTransit
<1>5. InLine'
  <2>1. ASSUME NEW j \in IPs, Handled(j)'
       PROVE  Agreed(j)'
    <3>1. CASE j # i
      <4>1. Handled(j)
        BY <1>a, <1>b, <1>c, <1>d, <1>1, <2>1, <3>1 DEF Handled
      <4> QED
        BY <1>a, <1>b, <1>c, <1>d, <2>1, <3>1, <4>1 DEF InLine, Agreed, Follows
    <3>2. CASE j = i
      BY <1>a, <1>b, <1>c, <1>d, <2>1, <3>2, ReportFields DEF Handled, InLine
    <3> QED
      BY <3>1, <3>2
  <2>2. ASSUME NEW j \in IPs
       PROVE  settled'[j] <= told'[j].n
    BY <1>a, <1>b, <1>c, <1>d, ReportFields DEF InLine
  <2> QED
    BY <2>1, <2>2 DEF InLine
<1>6. Versions' /\ AtBind'
  BY <1>a, <1>b, <1>c, <1>d DEF Versions, AtBind, Follows
<1> QED
  BY <1>1, <1>2, <1>3, <1>4, <1>5, <1>6 DEF SyncInv

\* The handler takes an add report.
LEMMA TakeAddKeepsInv ==
    ASSUME SyncInv, TakeAdd
    PROVE  SyncInv'
<1> USE SyncAssumption, NoneAssumption, SentStays
      DEF SyncInv, TypeOK, dhcpVars, srvVars, chanVars, apiVars, cacheVars, handlerFrame
<1>a. /\ w.pc = "idle" /\ addChan # <<>> /\ addChan' = Tail(addChan)
      /\ w' = [Idle EXCEPT !.pc = "add", !.ev = Head(addChan)]
      /\ UNCHANGED <<dhcpVars, srvVars, deleteChan, timers, apiVars, cacheVars, changes, faults,
                     settled>>
  BY DEF TakeAdd
<1>b. /\ Head(addChan) \in Sent("add") /\ Head(addChan) \in Reports /\ addChan' \in Seq(Sent("add"))
      /\ addChan' \in Seq(Reports) /\ Len(addChan') <= Cap
  BY <1>a DEF InTransit
<1>c. w' \in Handlings /\ w'.pc = "add" /\ w'.ev = Head(addChan)
  BY <1>a, <1>b DEF Idle, Handlings
<1>1. TypeOK'
  <2>1. w' \in Handlings
    BY <1>a, <1>b, <1>c DEF Handlings
  <2>2. addChan' \in Seq(Reports) /\ Len(addChan') <= Cap
    BY <1>a, <1>b, <1>c
  <2> QED
    BY <1>a, <1>b, <1>c, <2>1, <2>2
<1>2. InTransit'
  BY <1>a, <1>b, <1>c, <1>1 DEF InTransit
<1>3. Versions'
  BY <1>a, <1>b, <1>c, <1>1 DEF Versions
<1>4. AtBind'
  BY <1>a, <1>b, <1>c, <1>1 DEF AtBind, Follows
<1>5. InLine'
  BY <1>a, <1>b, <1>c, <1>1 DEF InLine, Handled, Agreed, Follows
<1>6. Scanning' /\ Said'
  BY <1>a, <1>b, <1>c DEF Scanning, Said, Says
<1> QED
  BY <1>1, <1>2, <1>3, <1>4, <1>5, <1>6 DEF SyncInv

\* The handler takes a delete report.
LEMMA TakeDeleteKeepsInv ==
    ASSUME SyncInv, TakeDelete
    PROVE  SyncInv'
<1> USE SyncAssumption, NoneAssumption, SentStays
      DEF SyncInv, TypeOK, dhcpVars, srvVars, chanVars, apiVars, cacheVars, handlerFrame
<1>a. /\ w.pc = "idle" /\ deleteChan # <<>> /\ deleteChan' = Tail(deleteChan)
      /\ w' = [Idle EXCEPT !.pc = "delete", !.ev = Head(deleteChan)]
      /\ UNCHANGED <<dhcpVars, srvVars, addChan, timers, apiVars, cacheVars, changes, faults,
                     settled>>
  BY DEF TakeDelete
<1>b. /\ Head(deleteChan) \in Sent("delete") /\ Head(deleteChan) \in Reports /\ deleteChan' \in Seq(Sent("delete"))
      /\ deleteChan' \in Seq(Reports) /\ Len(deleteChan') <= Cap
  BY <1>a DEF InTransit
<1>c. w' \in Handlings /\ w'.pc = "delete" /\ w'.ev = Head(deleteChan)
  BY <1>a, <1>b DEF Idle, Handlings
<1>1. TypeOK'
  <2>1. w' \in Handlings
    BY <1>a, <1>b, <1>c DEF Handlings
  <2>2. deleteChan' \in Seq(Reports) /\ Len(deleteChan') <= Cap
    BY <1>a, <1>b, <1>c
  <2> QED
    BY <1>a, <1>b, <1>c, <2>1, <2>2
<1>2. InTransit'
  BY <1>a, <1>b, <1>c, <1>1 DEF InTransit
<1>3. Versions'
  BY <1>a, <1>b, <1>c, <1>1 DEF Versions
<1>4. AtBind'
  BY <1>a, <1>b, <1>c, <1>1 DEF AtBind, Follows
<1>5. InLine'
  BY <1>a, <1>b, <1>c, <1>1 DEF InLine, Handled, Agreed, Follows
<1>6. Scanning' /\ Said'
  BY <1>a, <1>b, <1>c DEF Scanning, Said, Says
<1> QED
  BY <1>1, <1>2, <1>3, <1>4, <1>5, <1>6 DEF SyncInv

\* A goroutine sends a report again.
LEMMA RetryAddKeepsInv ==
    ASSUME SyncInv, NEW e \in timers, RetryFires(e), e.kind = "add"
    PROVE  SyncInv'
<1> USE SyncAssumption, NoneAssumption, SentStays
      DEF SyncInv, TypeOK, dhcpVars, srvVars, chanVars, apiVars, cacheVars, handlerFrame
<1>a. /\ timers' = timers \ {e} /\ addChan' = Append(addChan, e) /\ Len(addChan) < Cap
      /\ UNCHANGED <<dhcpVars, srvVars, deleteChan, w, apiVars, cacheVars, changes, faults, settled>>
  BY DEF RetryFires
<1>b. e \in Reports /\ e \in Sent("add")
  BY DEF InTransit, Sent
<1>1. TypeOK'
  <2>1. timers' \in SUBSET Reports
    BY <1>a, <1>b
  <2>2. addChan' \in Seq(Reports) /\ Len(addChan') <= Cap
    BY <1>a, <1>b
  <2> QED
    BY <1>a, <1>b, <2>1, <2>2
<1>2. InTransit'
  BY <1>a, <1>b, <1>1 DEF InTransit
<1>3. Scanning' /\ Said' /\ Versions' /\ AtBind' /\ InLine'
  BY <1>a, <1>b DEF Scanning, Said, Says, Versions, AtBind, Follows, InLine, Handled,
     Agreed
<1> QED
  BY <1>1, <1>2, <1>3 DEF SyncInv

\* A goroutine sends a report again.
LEMMA RetryDeleteKeepsInv ==
    ASSUME SyncInv, NEW e \in timers, RetryFires(e), e.kind = "delete"
    PROVE  SyncInv'
<1> USE SyncAssumption, NoneAssumption, SentStays
      DEF SyncInv, TypeOK, dhcpVars, srvVars, chanVars, apiVars, cacheVars, handlerFrame
<1>a. /\ timers' = timers \ {e} /\ deleteChan' = Append(deleteChan, e) /\ Len(deleteChan) < Cap
      /\ UNCHANGED <<dhcpVars, srvVars, addChan, w, apiVars, cacheVars, changes, faults, settled>>
  BY DEF RetryFires
<1>b. e \in Reports /\ e \in Sent("delete")
  BY DEF InTransit, Sent
<1>1. TypeOK'
  <2>1. timers' \in SUBSET Reports
    BY <1>a, <1>b
  <2>2. deleteChan' \in Seq(Reports) /\ Len(deleteChan') <= Cap
    BY <1>a, <1>b
  <2> QED
    BY <1>a, <1>b, <2>1, <2>2
<1>2. InTransit'
  BY <1>a, <1>b, <1>1 DEF InTransit
<1>3. Scanning' /\ Said' /\ Versions' /\ AtBind' /\ InLine'
  BY <1>a, <1>b DEF Scanning, Said, Says, Versions, AtBind, Follows, InLine, Handled,
     Agreed
<1> QED
  BY <1>1, <1>2, <1>3 DEF SyncInv

\* A RedfishStatus that a user deletes is not settled, and the handler at its
\* report works on an outdated one.
LEMMA DeleteObjectKeepsInv ==
    ASSUME SyncInv, NEW i \in IPs, DeleteObject(i)
    PROVE  SyncInv'
<1> USE SyncAssumption, NoneAssumption, SentStays
      DEF SyncInv, TypeOK, dhcpVars, srvVars, chanVars, apiVars, cacheVars, handlerFrame
<1>a. /\ obj[i] # None /\ obj' = [obj EXCEPT ![i] = None] /\ settled' = [settled EXCEPT ![i] = 0]
      /\ changes < MaxChanges /\ changes' = changes + 1
      /\ UNCHANGED <<dhcpVars, srvVars, chanVars, bound, rev, cacheVars, faults>>
  BY DEF DeleteObject, Change
<1>b. /\ w' \in Handlings /\ w'.pc = w.pc /\ w'.ev = w.ev /\ w'.uid = w.uid
      /\ w.stale \/ (w.pc # "idle" /\ w.ev.ip = i) <=> w'.stale
  BY DEF DeleteObject, Handlings
<1>c. w.pc = "idle" => w' = w
  BY DEF DeleteObject, Handlings, InTransit, Idle
<1>d. w.pc # "idle" => w.ev.ip \in IPs
  BY AtWork
<1>1. TypeOK'
  <2>1. obj' \in [IPs -> Objects \cup {None}]
    BY <1>a, <1>b, <1>c, <1>d DEF Change
  <2>2. settled' \in [IPs -> Nat]
    BY <1>a, <1>b, <1>c, <1>d DEF Change
  <2>3. w' \in Handlings
    BY <1>a, <1>b, <1>c, <1>d DEF Change, Handlings
  <2>4. changes' \in 0..MaxChanges
    BY <1>a, <1>b, <1>c, <1>d DEF Change
  <2> QED
    BY <1>a, <1>b, <1>c, <1>d, <2>1, <2>2, <2>3, <2>4 DEF Change
<1>2. InTransit'
  BY <1>a, <1>b, <1>c, <1>d, <1>1 DEF Change, InTransit
<1>3. Versions'
  BY <1>a, <1>b, <1>c, <1>d, <1>1 DEF Change, Versions
<1>4. AtBind'
  BY <1>a, <1>b, <1>c, <1>d, <1>1 DEF Change, AtBind, Follows
<1>5. InLine'
  <2>1. ASSUME NEW j \in IPs, Handled(j)'
       PROVE  Agreed(j)'
    <3>1. CASE j # i
      <4>1. Handled(j)
        BY <1>a, <1>b, <1>c, <1>d, <1>1, <2>1, <3>1 DEF Change, Handled
      <4> QED
        BY <1>a, <1>b, <1>c, <1>d, <2>1, <3>1, <4>1 DEF Change, InLine, Agreed, Follows
    <3>2. CASE j = i
      BY <1>a, <1>b, <1>c, <1>d, <2>1, <3>2 DEF Change, Handled
    <3> QED
      BY <3>1, <3>2
  <2>2. ASSUME NEW j \in IPs
       PROVE  settled'[j] <= told'[j].n
    BY <1>a, <1>b, <1>c, <1>d, ReportFields DEF Change, InLine
  <2> QED
    BY <2>1, <2>2 DEF InLine
<1>6. Scanning' /\ Said'
  BY <1>a, <1>b, <1>c, <1>d DEF Change, Scanning, Said, Says
<1> QED
  BY <1>1, <1>2, <1>3, <1>4, <1>5, <1>6 DEF SyncInv

\* Rival writers store what the object has.
LEMMA RewriteKeepsInv ==
    ASSUME SyncInv, NEW i \in IPs, obj[i] # None, Store(i, obj[i]), faults' \in 0..MaxFaults,
           UNCHANGED <<dhcpVars, srvVars, chanVars, w, bound, cacheVars, changes, settled>>
    PROVE  SyncInv'
<1> USE SyncAssumption, NoneAssumption, SentStays
      DEF SyncInv, TypeOK, dhcpVars, srvVars, chanVars, apiVars, cacheVars, handlerFrame
<1>a. obj[i] \in Objects
  OBVIOUS
<1>b. /\ obj' \in [IPs -> Objects \cup {None}] /\ rev' \in [IPs -> Nat]
      /\ rev'[i] = rev[i] + 1 /\ obj'[i] \in Objects /\ obj'[i] # None
      /\ obj'[i].rv = rev[i] + 1 /\ obj'[i].uid = obj[i].uid /\ obj'[i].mac = obj[i].mac
      /\ obj'[i].expire = obj[i].expire /\ obj'[i].label = obj[i].label
      /\ \A j \in IPs \ {i} : obj'[j] = obj[j] /\ rev'[j] = rev[j]
  BY <1>a, StoreEffect
<1>c. w.pc # "idle" => w.ev.ip \in IPs
  BY AtWork
<1>1. TypeOK'
  <2>1. obj' \in [IPs -> Objects \cup {None}]
    BY <1>a, <1>b, <1>c
  <2>2. rev' \in [IPs -> Nat]
    BY <1>a, <1>b, <1>c
  <2> QED
    BY <1>a, <1>b, <1>c, <2>1, <2>2
<1>2. Versions'
  <2> QED
    BY <1>a, <1>b, <1>c, StoreKeepsVersions
<1>3. AtBind'
  BY <1>a, <1>b, <1>c, <1>1 DEF AtBind, Follows
<1>4. InLine'
  <2>1. ASSUME NEW j \in IPs, Handled(j)'
       PROVE  Agreed(j)'
    <3>1. CASE j # i
      <4>1. Handled(j)
        BY <1>a, <1>b, <1>c, <1>1, <2>1, <3>1 DEF Handled
      <4> QED
        BY <1>a, <1>b, <1>c, <2>1, <3>1, <4>1 DEF InLine, Agreed, Follows
    <3>2. CASE j = i
      BY <1>a, <1>b, <1>c, <2>1, <3>2 DEF Handled, Agreed, Follows, InLine
    <3> QED
      BY <3>1, <3>2
  <2>2. ASSUME NEW j \in IPs
       PROVE  settled'[j] <= told'[j].n
    BY <1>a, <1>b, <1>c, ReportFields DEF InLine
  <2> QED
    BY <2>1, <2>2 DEF InLine
<1>5. Scanning' /\ Said' /\ InTransit'
  BY <1>a, <1>b, <1>c DEF Scanning, Said, Says, InTransit
<1> QED
  BY <1>1, <1>2, <1>3, <1>4, <1>5 DEF SyncInv

\* Caches catch up, and the garbage collector removes what has no owner.
LEMMA CachesKeepInv ==
    ASSUME SyncInv, NEW i \in IPs, Observe(i) \/ ObserveBound(i) \/ CollectGarbage(i)
    PROVE  SyncInv'
<1> USE SyncAssumption, NoneAssumption, SentStays
      DEF SyncInv, TypeOK, dhcpVars, srvVars, chanVars, apiVars, cacheVars, handlerFrame
<1>1. CASE Observe(i)
  <2>1. TypeOK'
    BY <1>1 DEF Observe
  <2>2. Versions'
    BY <1>1, <2>1 DEF Observe, Versions
  <2>3. Scanning' /\ Said' /\ InTransit' /\ AtBind' /\ InLine'
    BY <1>1 DEF Observe, Scanning, Said, Says, InTransit, AtBind, Follows, InLine,
       Handled, Agreed
  <2> QED
    BY <2>1, <2>2, <2>3 DEF SyncInv
<1>2. CASE ObserveBound(i)
  <2>1. TypeOK'
    BY <1>2 DEF ObserveBound
  <2>2. Scanning' /\ Said' /\ InTransit' /\ Versions' /\ AtBind' /\ InLine'
    BY <1>2 DEF ObserveBound, Scanning, Said, Says, InTransit, Versions, AtBind,
       Follows, InLine, Handled, Agreed
  <2> QED
    BY <2>1, <2>2 DEF SyncInv
<1>3. CASE CollectGarbage(i)
  <2>1. TypeOK'
    BY <1>3 DEF CollectGarbage, Owned
  <2>2. InLine'
    BY <1>3, <2>1 DEF CollectGarbage, Owned, InLine, Handled, Agreed, Follows
  <2>3. Scanning' /\ Said' /\ InTransit' /\ Versions' /\ AtBind'
    BY <1>3 DEF CollectGarbage, Owned, Scanning, Said, Says, InTransit, Versions,
       AtBind, Follows
  <2> QED
    BY <2>1, <2>2, <2>3 DEF SyncInv
<1> QED
  BY <1>1, <1>2, <1>3

\* A restart loses the reports; a lease that is gone by then is a gap.
LEMMA RestartKeepsInv ==
    ASSUME SyncInv, AgentRestart
    PROVE  SyncInv'
<1> USE SyncAssumption, NoneAssumption, SentStays
      DEF SyncInv, TypeOK, dhcpVars, srvVars, chanVars, apiVars, cacheVars, handlerFrame
<1>a. /\ lease' = file /\ dirty' = TRUE /\ known' = Nothing /\ addChan' = <<>> /\ deleteChan' = <<>>
      /\ timers' = {} /\ seen' = obj /\ seenBound' = bound
      /\ gap' = gap \cup {i \in IPs : told[i].kind = "add" /\ file[i] = None}
      /\ settled' = [i \in IPs |-> IF w.pc # "idle" /\ w.ev.ip = i THEN 0 ELSE settled[i]]
      /\ faults' \in 0..MaxFaults
      /\ UNCHANGED <<file, feature, told, apiVars, changes>>
  BY DEF AgentRestart, Fault
<1>b. mon' = Boot /\ mon'.pc = "idle" /\ ~mon'.up /\ mon' \in Scans
  BY DEF AgentRestart, Boot, MonIdle, Scans, Nothing
<1>c. w' = Idle /\ w'.pc = "idle" /\ w' \in Handlings
  BY DEF AgentRestart, Idle, Handlings
<1>1. TypeOK'
  <2>1. lease' \in [IPs -> Leases \cup {None}]
    BY <1>a, <1>b, <1>c
  <2>2. dirty' \in BOOLEAN
    BY <1>a, <1>b, <1>c
  <2>3. known' \in [IPs -> Leases \cup {None}]
    BY <1>a, <1>b, <1>c DEF Nothing, Scans
  <2>4. mon' \in Scans
    BY <1>a, <1>b, <1>c DEF Scans, Nothing
  <2>5. addChan' \in Seq(Reports) /\ Len(addChan') <= Cap
    BY <1>a, <1>b, <1>c
  <2>6. deleteChan' \in Seq(Reports) /\ Len(deleteChan') <= Cap
    BY <1>a, <1>b, <1>c
  <2>7. timers' \in SUBSET Reports
    BY <1>a, <1>b, <1>c
  <2>8. w' \in Handlings
    BY <1>a, <1>b, <1>c DEF Handlings
  <2>9. seen' \in [IPs -> Objects \cup {None}]
    BY <1>a, <1>b, <1>c
  <2>10. seenBound' \in [IPs -> Bindings \cup {None}]
    BY <1>a, <1>b, <1>c
  <2>11. gap' \subseteq IPs
    BY <1>a, <1>b, <1>c
  <2>12. settled' \in [IPs -> Nat]
    BY <1>a, <1>b, <1>c
  <2>13. faults' \in 0..MaxFaults
    BY <1>a, <1>b, <1>c
  <2> QED
    BY <1>a, <1>b, <1>c, <2>1, <2>2, <2>3, <2>4, <2>5, <2>6, <2>7, <2>8, <2>9, <2>10,
       <2>11, <2>12, <2>13
<1>2. Scanning'
  BY <1>a, <1>b, <1>c, <1>1 DEF Scanning
<1>3. Said'
  BY <1>a, <1>b, <1>c, <1>1 DEF Said, Says
<1>4. InTransit'
  BY <1>a, <1>b, <1>c, <1>1 DEF InTransit
<1>5. Versions'
  BY <1>a, <1>b, <1>c, <1>1 DEF Versions
<1>6. AtBind'
  BY <1>a, <1>b, <1>c, <1>1 DEF AtBind, Follows
<1>7. InLine'
  <2>1. ASSUME NEW j \in IPs, Handled(j)'
       PROVE  Agreed(j)'
    <3>1. Handled(j)
      BY <1>a, <1>b, <1>c, <2>1 DEF Handled
    <3> QED
      BY <1>a, <1>b, <1>c, <3>1 DEF InLine, Agreed, Follows
  <2>2. ASSUME NEW j \in IPs
       PROVE  settled'[j] <= told'[j].n
    BY <1>a, <1>b, <1>c, ReportFields DEF InLine
  <2> QED
    BY <2>1, <2>2 DEF InLine
<1> QED
  BY <1>1, <1>2, <1>3, <1>4, <1>5, <1>6, <1>7 DEF SyncInv

\* A handler that returns an error leaves its report unsettled.
LEMMA ErrorKeepsInv ==
    ASSUME SyncInv, w.pc # "idle", NEW err \in {"retry", "other"}, ReturnError(err),
           UNCHANGED <<handlerFrame, bound>>, faults' \in 0..MaxFaults
    PROVE  SyncInv'
<1> USE SyncAssumption, NoneAssumption, SentStays
      DEF SyncInv, TypeOK, dhcpVars, srvVars, chanVars, apiVars, cacheVars, handlerFrame
<1>a. /\ w.ev \in Sent("add") \cup Sent("delete") /\ w.ev \in Reports /\ w.ev # None
      /\ w.ev.ip \in IPs /\ w.ev.n \in Nat /\ w.ev.n > 0 /\ w.ev.n <= told[w.ev.ip].n
      /\ w.ev.n = told[w.ev.ip].n => w.ev = told[w.ev.ip]
      /\ IF w.pc = "delete" THEN w.ev.kind = "delete" ELSE w.ev.kind = "add"
  BY AtWork
<1>b. w' = Idle /\ w'.pc = "idle" /\ w' \in Handlings
  BY DEF ReturnError, Idle, Handlings
<1>c. /\ settled' = [settled EXCEPT ![w.ev.ip] = 0] /\ timers' \subseteq timers \cup {w.ev}
      /\ UNCHANGED <<obj, rev>>
  BY DEF ReturnError
<1>1. TypeOK'
  <2>1. w' \in Handlings
    BY <1>a, <1>b, <1>c DEF Handlings
  <2>2. settled' \in [IPs -> Nat]
    BY <1>a, <1>b, <1>c
  <2>3. timers' \in SUBSET Reports
    BY <1>a, <1>b, <1>c
  <2> QED
    BY <1>a, <1>b, <1>c, <2>1, <2>2, <2>3
<1>2. InTransit'
  BY <1>a, <1>b, <1>c, <1>1 DEF InTransit
<1>3. Versions'
  BY <1>a, <1>b, <1>c, <1>1 DEF Versions
<1>4. AtBind'
  BY <1>a, <1>b, <1>c, <1>1 DEF AtBind, Follows
<1>5. InLine'
  <2>1. ASSUME NEW j \in IPs, Handled(j)'
       PROVE  Agreed(j)'
    <3>1. CASE j # w.ev.ip
      <4>1. Handled(j)
        BY <1>a, <1>b, <1>c, <1>1, <2>1, <3>1 DEF Handled
      <4> QED
        BY <1>a, <1>b, <1>c, <2>1, <3>1, <4>1 DEF InLine, Agreed, Follows
    <3>2. CASE j = w.ev.ip
      BY <1>a, <1>b, <1>c, <2>1, <3>2 DEF Handled
    <3> QED
      BY <3>1, <3>2
  <2>2. ASSUME NEW j \in IPs
       PROVE  settled'[j] <= told'[j].n
    BY <1>a, <1>b, <1>c, ReportFields DEF InLine
  <2> QED
    BY <2>1, <2>2 DEF InLine
<1>6. Scanning' /\ Said'
  BY <1>a, <1>b, <1>c DEF Scanning, Said, Says
<1> QED
  BY <1>1, <1>2, <1>3, <1>4, <1>5, <1>6 DEF SyncInv

\* A handler that returns nil settles its report only if the objects are in
\* line.
LEMMA ReturnKeepsInv ==
    ASSUME SyncInv, w.pc # "idle", NEW n \in {0, w.ev.n}, Return(n), UNCHANGED <<handlerFrame, faults>>,
           bound' \in [IPs -> Bindings \cup {None}],
           \A j \in IPs \ {w.ev.ip} : bound'[j] = bound[j],
           n # 0 /\ ~w.stale =>
               \/ /\ w.ev.kind = "add"
                  /\ Follows(w.ev.ip, w.ev)
                  /\ w.ev.bind => /\ bound'[w.ev.ip] # None
                                  /\ bound'[w.ev.ip].owner = obj[w.ev.ip].uid
               \/ /\ w.ev.kind = "delete"
                  /\ obj[w.ev.ip] # None => obj[w.ev.ip].label = "false"
    PROVE  SyncInv'
<1> USE SyncAssumption, NoneAssumption, SentStays
      DEF SyncInv, TypeOK, dhcpVars, srvVars, chanVars, apiVars, cacheVars, handlerFrame
<1>a. /\ w.ev \in Sent("add") \cup Sent("delete") /\ w.ev \in Reports /\ w.ev # None
      /\ w.ev.ip \in IPs /\ w.ev.n \in Nat /\ w.ev.n > 0 /\ w.ev.n <= told[w.ev.ip].n
      /\ w.ev.n = told[w.ev.ip].n => w.ev = told[w.ev.ip]
      /\ IF w.pc = "delete" THEN w.ev.kind = "delete" ELSE w.ev.kind = "add"
  BY AtWork
<1>b. w' = Idle /\ w'.pc = "idle" /\ w' \in Handlings
  BY DEF Return, Idle, Handlings
<1>c. /\ settled' = [settled EXCEPT ![w.ev.ip] = IF w.stale THEN 0 ELSE n]
      /\ UNCHANGED <<timers, obj, rev>>
  BY DEF Return
<1>1. TypeOK'
  <2>1. w' \in Handlings
    BY <1>a, <1>b, <1>c DEF Handlings
  <2>2. settled' \in [IPs -> Nat]
    BY <1>a, <1>b, <1>c
  <2>3. bound' \in [IPs -> Bindings \cup {None}]
    BY <1>a, <1>b, <1>c
  <2> QED
    BY <1>a, <1>b, <1>c, <2>1, <2>2, <2>3
<1>2. InTransit'
  BY <1>a, <1>b, <1>c, <1>1 DEF InTransit
<1>3. Versions'
  BY <1>a, <1>b, <1>c, <1>1 DEF Versions
<1>4. AtBind'
  BY <1>a, <1>b, <1>c, <1>1 DEF AtBind, Follows
<1>5. InLine'
  <2>1. ASSUME NEW j \in IPs, Handled(j)'
       PROVE  Agreed(j)'
    <3>1. CASE j # w.ev.ip
      <4>1. Handled(j)
        BY <1>a, <1>b, <1>c, <1>1, <2>1, <3>1 DEF Handled
      <4> QED
        BY <1>a, <1>b, <1>c, <2>1, <3>1, <4>1 DEF InLine, Agreed, Follows
    <3>2. CASE j = w.ev.ip
      BY <1>a, <1>b, <1>c, <2>1, <3>2 DEF Handled, Agreed, Follows
    <3> QED
      BY <3>1, <3>2
  <2>2. ASSUME NEW j \in IPs
       PROVE  settled'[j] <= told'[j].n
    BY <1>a, <1>b, <1>c, ReportFields DEF InLine
  <2> QED
    BY <2>1, <2>2 DEF InLine
<1>6. Scanning' /\ Said'
  BY <1>a, <1>b, <1>c DEF Scanning, Said, Says
<1> QED
  BY <1>1, <1>2, <1>3, <1>4, <1>5, <1>6 DEF SyncInv

\* A handler that goes on without writing.
LEMMA StepKeepsInv ==
    ASSUME SyncInv, w.pc = "add", w' \in Handlings, w'.pc \in {"create", "bind"}, w'.ev = w.ev,
           w'.pc = "bind" /\ ~w'.stale => /\ Follows(w.ev.ip, w.ev)
                                         /\ obj[w.ev.ip].uid = w'.uid,
           UNCHANGED <<handlerFrame, timers, apiVars, faults, settled>>
    PROVE  SyncInv'
<1> USE SyncAssumption, NoneAssumption, SentStays
      DEF SyncInv, TypeOK, dhcpVars, srvVars, chanVars, apiVars, cacheVars, handlerFrame
<1>a. /\ w.ev \in Sent("add") \cup Sent("delete") /\ w.ev \in Reports /\ w.ev # None
      /\ w.ev.ip \in IPs /\ w.ev.n \in Nat /\ w.ev.n > 0 /\ w.ev.n <= told[w.ev.ip].n
      /\ w.ev.n = told[w.ev.ip].n => w.ev = told[w.ev.ip]
      /\ IF w.pc = "delete" THEN w.ev.kind = "delete" ELSE w.ev.kind = "add"
  BY AtWork
<1>1. TypeOK'
  <2>1. w' \in Handlings
    BY <1>a DEF Handlings
  <2> QED
    BY <1>a, <2>1
<1>2. InTransit'
  BY <1>a, <1>1 DEF InTransit
<1>3. Versions'
  BY <1>a, <1>1 DEF Versions
<1>4. AtBind'
  BY <1>a, <1>1 DEF AtBind, Follows
<1>5. InLine'
  <2>1. ASSUME NEW j \in IPs, Handled(j)'
       PROVE  Agreed(j)'
    <3>1. CASE j # w.ev.ip
      <4>1. Handled(j)
        BY <1>a, <1>1, <2>1, <3>1 DEF Handled
      <4> QED
        BY <1>a, <2>1, <3>1, <4>1 DEF InLine, Agreed, Follows
    <3>2. CASE j = w.ev.ip
      BY <1>a, <2>1, <3>2 DEF Handled
    <3> QED
      BY <3>1, <3>2
  <2>2. ASSUME NEW j \in IPs
       PROVE  settled'[j] <= told'[j].n
    BY <1>a, ReportFields DEF InLine
  <2> QED
    BY <2>1, <2>2 DEF InLine
<1>6. Scanning' /\ Said'
  BY <1>a DEF Scanning, Said, Says
<1> QED
  BY <1>1, <1>2, <1>3, <1>4, <1>5, <1>6 DEF SyncInv

\* A handler that stores the RedfishStatus, to fill it or to bind it next.
LEMMA WriteKeepsInv ==
    ASSUME SyncInv, w.pc \in {"add", "create", "fill"}, NEW o \in Objects, Store(w.ev.ip, o),
           w' \in Handlings, w'.pc \in {"fill", "bind"}, w'.ev = w.ev, w'.uid = o.uid,
           w'.pc = "fill" => o.uid = rev[w.ev.ip] + 1,
           w'.pc = "bind" => o.mac = w.ev.lease.mac /\ o.expire = w.ev.lease.expire,
           UNCHANGED <<handlerFrame, timers, bound, faults, settled>>
    PROVE  SyncInv'
<1> USE SyncAssumption, NoneAssumption, SentStays
      DEF SyncInv, TypeOK, dhcpVars, srvVars, chanVars, apiVars, cacheVars, handlerFrame
<1>a. /\ w.ev \in Sent("add") \cup Sent("delete") /\ w.ev \in Reports /\ w.ev # None
      /\ w.ev.ip \in IPs /\ w.ev.n \in Nat /\ w.ev.n > 0 /\ w.ev.n <= told[w.ev.ip].n
      /\ w.ev.n = told[w.ev.ip].n => w.ev = told[w.ev.ip]
      /\ IF w.pc = "delete" THEN w.ev.kind = "delete" ELSE w.ev.kind = "add"
  BY AtWork
<1>b. /\ obj' \in [IPs -> Objects \cup {None}] /\ rev' \in [IPs -> Nat]
      /\ rev'[w.ev.ip] = rev[w.ev.ip] + 1 /\ obj'[w.ev.ip] \in Objects /\ obj'[w.ev.ip] # None
      /\ obj'[w.ev.ip].rv = rev[w.ev.ip] + 1 /\ obj'[w.ev.ip].uid = o.uid /\ obj'[w.ev.ip].mac = o.mac
      /\ obj'[w.ev.ip].expire = o.expire /\ obj'[w.ev.ip].label = o.label
      /\ \A j \in IPs \ {w.ev.ip} : obj'[j] = obj[j] /\ rev'[j] = rev[j]
  BY <1>a, StoreEffect
<1>1. TypeOK'
  <2>1. w' \in Handlings
    BY <1>a, <1>b DEF Handlings
  <2>2. obj' \in [IPs -> Objects \cup {None}]
    BY <1>a, <1>b
  <2>3. rev' \in [IPs -> Nat]
    BY <1>a, <1>b
  <2> QED
    BY <1>a, <1>b, <2>1, <2>2, <2>3
<1>2. InTransit'
  BY <1>a, <1>b, <1>1 DEF InTransit
<1>3. Versions'
  <2>1. ASSUME NEW j \in IPs
       PROVE  /\ obj'[j] # None => obj'[j].rv <= rev'[j]
              /\ seen'[j] # None => seen'[j].rv <= rev'[j]
              /\ obj'[j] # None /\ seen'[j] # None /\ obj'[j].rv = seen'[j].rv
                   => obj'[j] = seen'[j]
    <3>1. seen[j] # None => seen[j].rv \in Nat
      BY ObjectFields
    <3> QED
      BY SMTT(30), <1>a, <1>b, <3>1 DEF Versions
  <2>2. ASSUME w'.pc = "fill"
       PROVE  w'.uid = rev'[w'.ev.ip] /\ obj'[w'.ev.ip].uid = w'.uid
    BY <1>a, <1>b, <2>2
  <2> QED
    BY <1>a, <1>b, <2>1, <2>2 DEF Versions
<1>4. AtBind'
  BY <1>a, <1>b, <1>1 DEF AtBind, Follows
<1>5. InLine'
  <2>1. ASSUME NEW j \in IPs, Handled(j)'
       PROVE  Agreed(j)'
    <3>1. CASE j # w.ev.ip
      <4>1. Handled(j)
        BY <1>a, <1>b, <1>1, <2>1, <3>1 DEF Handled
      <4> QED
        BY <1>a, <1>b, <2>1, <3>1, <4>1 DEF InLine, Agreed, Follows
    <3>2. CASE j = w.ev.ip
      BY <1>a, <1>b, <2>1, <3>2 DEF Handled
    <3> QED
      BY <3>1, <3>2
  <2>2. ASSUME NEW j \in IPs
       PROVE  settled'[j] <= told'[j].n
    BY <1>a, <1>b, ReportFields DEF InLine
  <2> QED
    BY <2>1, <2>2 DEF InLine
<1>6. Scanning' /\ Said'
  BY <1>a, <1>b DEF Scanning, Said, Says
<1> QED
  BY <1>1, <1>2, <1>3, <1>4, <1>5, <1>6 DEF SyncInv

\* handleDHCPDelete labels the RedfishStatus.
LEMMA LabelKeepsInv ==
    ASSUME SyncInv, w.pc = "delete", NEW o \in Objects, o.label = "false", Store(w.ev.ip, o), w' = Idle,
           settled' = [settled EXCEPT ![w.ev.ip] = w.ev.n],
           UNCHANGED <<handlerFrame, timers, bound, faults>>
    PROVE  SyncInv'
<1> USE SyncAssumption, NoneAssumption, SentStays
      DEF SyncInv, TypeOK, dhcpVars, srvVars, chanVars, apiVars, cacheVars, handlerFrame
<1>a. /\ w.ev \in Sent("add") \cup Sent("delete") /\ w.ev \in Reports /\ w.ev # None
      /\ w.ev.ip \in IPs /\ w.ev.n \in Nat /\ w.ev.n > 0 /\ w.ev.n <= told[w.ev.ip].n
      /\ w.ev.n = told[w.ev.ip].n => w.ev = told[w.ev.ip]
      /\ IF w.pc = "delete" THEN w.ev.kind = "delete" ELSE w.ev.kind = "add"
  BY AtWork
<1>b. w' = Idle /\ w'.pc = "idle" /\ w' \in Handlings
  BY DEF Idle, Handlings
<1>c. /\ obj' \in [IPs -> Objects \cup {None}] /\ rev' \in [IPs -> Nat]
      /\ rev'[w.ev.ip] = rev[w.ev.ip] + 1 /\ obj'[w.ev.ip] \in Objects /\ obj'[w.ev.ip] # None
      /\ obj'[w.ev.ip].rv = rev[w.ev.ip] + 1 /\ obj'[w.ev.ip].uid = o.uid /\ obj'[w.ev.ip].mac = o.mac
      /\ obj'[w.ev.ip].expire = o.expire /\ obj'[w.ev.ip].label = o.label
      /\ \A j \in IPs \ {w.ev.ip} : obj'[j] = obj[j] /\ rev'[j] = rev[j]
  BY <1>a, StoreEffect
<1>1. TypeOK'
  <2>1. w' \in Handlings
    BY <1>a, <1>b, <1>c DEF Handlings
  <2>2. obj' \in [IPs -> Objects \cup {None}]
    BY <1>a, <1>b, <1>c
  <2>3. rev' \in [IPs -> Nat]
    BY <1>a, <1>b, <1>c
  <2>4. settled' \in [IPs -> Nat]
    BY <1>a, <1>b, <1>c
  <2> QED
    BY <1>a, <1>b, <1>c, <2>1, <2>2, <2>3, <2>4
<1>2. InTransit'
  BY <1>a, <1>b, <1>c, <1>1 DEF InTransit
<1>3. Versions'
  <2> QED
    BY <1>a, <1>b, <1>c, StoreKeepsVersions
<1>4. AtBind'
  BY <1>a, <1>b, <1>c, <1>1 DEF AtBind, Follows
<1>5. InLine'
  <2>1. ASSUME NEW j \in IPs, Handled(j)'
       PROVE  Agreed(j)'
    <3>1. CASE j # w.ev.ip
      <4>1. Handled(j)
        BY <1>a, <1>b, <1>c, <1>1, <2>1, <3>1 DEF Handled
      <4> QED
        BY <1>a, <1>b, <1>c, <2>1, <3>1, <4>1 DEF InLine, Agreed, Follows
    <3>2. CASE j = w.ev.ip
      BY <1>a, <1>b, <1>c, <2>1, <3>2 DEF Handled, Agreed
    <3> QED
      BY <3>1, <3>2
  <2>2. ASSUME NEW j \in IPs
       PROVE  settled'[j] <= told'[j].n
    BY <1>a, <1>b, <1>c, ReportFields DEF InLine
  <2> QED
    BY <2>1, <2>2 DEF InLine
<1>6. Scanning' /\ Said'
  BY <1>a, <1>b, <1>c DEF Scanning, Said, Says
<1> QED
  BY <1>1, <1>2, <1>3, <1>4, <1>5, <1>6 DEF SyncInv

\* handleDHCPAdd up to the BindingIp.
LEMMA AddKeepsInv ==
    ASSUME SyncInv, AddUnchanged \/ AddUpdate \/ AddConnect \/ AddCreate \/ AddFill
    PROVE  SyncInv'
<1>1. /\ w.pc \in {"add", "create", "fill"} /\ w.pc # "idle"
      /\ w.ev.ip \in IPs /\ w.ev.lease \in Leases
      /\ w.ev.lease.mac \in Macs /\ w.ev.lease.expire \in Expires
  <2>1. w.pc \in {"add", "create", "fill"}
    BY DEF AddUnchanged, AddUpdate, AddConnect, AddCreate, AddFill
  <2>2. w.ev.ip \in IPs /\ w.ev.lease \in Leases
    BY <2>1, AtWork
  <2> QED
    BY <2>1, <2>2 DEF Macs, Expires
<1> DEFINE i == w.ev.ip
<1>2. /\ w \in Handlings /\ rev[i] \in Nat
      /\ seen[i] # None => seen[i] \in Objects
      /\ obj[i] # None => obj[i] \in Objects
  BY <1>1 DEF SyncInv, TypeOK
<1>3. seen[i] # None =>
        /\ Updated(i) \in Objects /\ Updated(i).uid = seen[i].uid
        /\ Updated(i).mac = w.ev.lease.mac /\ Updated(i).expire = w.ev.lease.expire
  BY <1>1, <1>2 DEF Updated, Objects
<1>4. CASE AddUnchanged
  <2>1. /\ seen[i] # None /\ Updated(i) = seen[i] /\ w.pc = "add"
        /\ w' = [w EXCEPT !.pc = "bind", !.uid = seen[i].uid,
                          !.stale = @ \/ seen[i] # obj[i]]
        /\ UNCHANGED <<handlerFrame, timers, apiVars, faults, settled>>
    BY <1>4 DEF AddUnchanged
  <2>2. /\ w' \in Handlings /\ w'.pc = "bind" /\ w'.ev = w.ev /\ w'.uid = seen[i].uid
        /\ ~w'.stale => seen[i] = obj[i]
    BY <1>2, <2>1, ObjectFields DEF Handlings
  <2>3. ~w'.stale => Follows(w.ev.ip, w.ev) /\ obj[w.ev.ip].uid = w'.uid
    BY <1>3, <2>1, <2>2 DEF Follows
  <2> QED
    BY <2>1, <2>2, <2>3, StepKeepsInv
<1>5. CASE AddUpdate
  <2>1. w.pc = "add" /\ seen[i] # None /\ UNCHANGED <<handlerFrame, bound, faults>>
    BY <1>5 DEF AddUpdate
  <2>2. CASE /\ Store(i, Updated(i))
             /\ w' = [w EXCEPT !.pc = "bind", !.uid = seen[i].uid]
             /\ UNCHANGED <<timers, settled>>
    <3>1. w' \in Handlings /\ w'.pc = "bind" /\ w'.ev = w.ev /\ w'.uid = seen[i].uid
      BY <1>2, <2>1, <2>2, ObjectFields DEF Handlings
    <3> QED
      BY <1>3, <2>1, <2>2, <3>1, WriteKeepsInv
  <2>3. CASE ReturnError(Refusal(i))
    BY <1>1, <2>1, <2>3, ErrorKeepsInv DEF Refusal, SyncInv, TypeOK
  <2> QED
    BY <1>5, <2>2, <2>3 DEF AddUpdate
<1>6. CASE AddConnect
  <2>1. w.pc = "add" /\ UNCHANGED <<handlerFrame, bound, faults>>
    BY <1>6 DEF AddConnect
  <2>2. CASE w' = [w EXCEPT !.pc = "create"] /\ UNCHANGED <<timers, obj, rev, settled>>
    <3>1. w' \in Handlings /\ w'.pc = "create" /\ w'.ev = w.ev
      BY <1>2, <2>2 DEF Handlings
    <3> QED
      BY <2>1, <2>2, <3>1, StepKeepsInv DEF apiVars
  <2>3. CASE Return(0)
    BY <1>1, <2>1, <2>3, ReturnKeepsInv DEF SyncInv, TypeOK
  <2> QED
    BY <1>6, <2>2, <2>3 DEF AddConnect
<1>7. CASE AddCreate
  <2>1. w.pc = "create" /\ UNCHANGED <<handlerFrame, bound, faults>>
    BY <1>7 DEF AddCreate
  <2>2. CASE /\ Store(i, Created(i))
             /\ w' = [w EXCEPT !.pc = "fill", !.uid = rev[i] + 1]
             /\ UNCHANGED <<timers, settled>>
    <3>1. Created(i) \in Objects /\ Created(i).uid = rev[i] + 1
      BY <1>2 DEF Created, Objects, Macs, Expires
    <3>2. w' \in Handlings /\ w'.pc = "fill" /\ w'.ev = w.ev /\ w'.uid = rev[i] + 1
      <4> DEFINE n == rev[i] + 1
      <4>1. n \in Nat /\ w' = [w EXCEPT !.pc = "fill", !.uid = n]
        BY <1>2, <2>2
      <4> HIDE DEF n
      <4>2. w' \in Handlings /\ w'.pc = "fill" /\ w'.ev = w.ev /\ w'.uid = n
        BY <1>2, <4>1 DEF Handlings
      <4> QED
        BY <4>2 DEF n
    <3> QED
      BY <2>1, <2>2, <3>1, <3>2, WriteKeepsInv
  <2>3. CASE ReturnError("other")
    BY <1>1, <2>1, <2>3, ErrorKeepsInv DEF SyncInv, TypeOK
  <2> QED
    BY <1>7, <2>2, <2>3 DEF AddCreate
<1>8. CASE AddFill
  <2> DEFINE o == [obj[i] EXCEPT !.filled = TRUE, !.mac = w.ev.lease.mac,
                                 !.expire = w.ev.lease.expire, !.active = TRUE]
  <2>1. w.pc = "fill" /\ UNCHANGED <<handlerFrame, bound, faults>>
    BY <1>8 DEF AddFill
  <2>2. CASE /\ Writable(i, w.uid) /\ Store(i, o) /\ w' = [w EXCEPT !.pc = "bind"]
             /\ UNCHANGED <<timers, settled>>
    <3>1. obj[i] \in Objects /\ obj[i].uid = w.uid
      BY <1>2, <2>1, <2>2 DEF Writable, SyncInv, Versions
    <3>2. /\ o \in Objects /\ o.uid = w.uid
          /\ o.mac = w.ev.lease.mac /\ o.expire = w.ev.lease.expire
      BY <1>1, <3>1 DEF Objects
    <3>3. w' \in Handlings /\ w'.pc = "bind" /\ w'.ev = w.ev /\ w'.uid = w.uid
      BY <1>2, <2>2 DEF Handlings
    <3> HIDE DEF o
    <3> QED
      BY <2>1, <2>2, <3>2, <3>3, WriteKeepsInv
  <2>3. CASE ReturnError(Refusal(i))
    BY <1>1, <2>1, <2>3, ErrorKeepsInv DEF Refusal, SyncInv, TypeOK
  <2> QED
    BY <1>8, <2>2, <2>3 DEF AddFill
<1> QED
  BY <1>4, <1>5, <1>6, <1>7, <1>8

\* createBindingIpForredfishstatus.
LEMMA BindKeepsInv ==
    ASSUME SyncInv, BindNothing \/ BindCreate
    PROVE  SyncInv'
<1>1. /\ w.pc = "bind" /\ w.ev.ip \in IPs /\ w.ev.kind = "add" /\ w.ev.bind \in BOOLEAN
      /\ w.ev.lease.mac \in Macs /\ w.uid \in Nat
  <2>1. w.pc = "bind"
    BY DEF BindNothing, BindCreate
  <2>2. w.ev.ip \in IPs /\ w.ev.kind = "add" /\ w.ev.lease \in Leases /\
     w.ev \in Reports
    BY <2>1, AtWork
  <2> QED
    BY <2>1, <2>2, ReportFields DEF Macs, SyncInv, TypeOK, Handlings
<1>2. ~w.stale => Follows(w.ev.ip, w.ev) /\ obj[w.ev.ip].uid = w.uid
  BY <1>1 DEF SyncInv, AtBind
<1>3. bound \in [IPs -> Bindings \cup {None}]
  BY DEF SyncInv, TypeOK
<1>4. CASE BindNothing
  <2>1. UNCHANGED <<handlerFrame, bound, faults>>
    BY <1>4 DEF BindNothing
  <2>2. CASE ~w.ev.bind /\ Return(w.ev.n)
    BY <1>1, <1>2, <1>3, <2>1, <2>2, ReturnKeepsInv
  <2>3. CASE bound[w.ev.ip] # None /\ Owned(w.ev.ip) /\ Return(w.ev.n)
    BY <1>1, <1>2, <1>3, <2>1, <2>3, ReturnKeepsInv DEF Owned
  <2>4. CASE Return(0)
    BY <1>1, <1>3, <2>1, <2>4, ReturnKeepsInv
  <2> QED
    BY <1>4, <2>2, <2>3, <2>4 DEF BindNothing
<1>5. CASE BindCreate
  <2>1. UNCHANGED <<handlerFrame, faults>>
    BY <1>5 DEF BindCreate
  <2> DEFINE b == [mac |-> w.ev.lease.mac, owner |-> w.uid]
  <2>2. CASE bound' = [bound EXCEPT ![w.ev.ip] = b] /\ Return(w.ev.n)
    <3>1. b \in Bindings /\ b.owner = w.uid /\ b # None
      BY <1>1, NoneAssumption DEF Bindings
    <3>2. bound' = [bound EXCEPT ![w.ev.ip] = b]
      BY <2>2
    <3> HIDE DEF b
    <3>3. /\ bound' \in [IPs -> Bindings \cup {None}] /\ bound'[w.ev.ip] = b
          /\ \A j \in IPs \ {w.ev.ip} : bound'[j] = bound[j]
      BY <1>1, <1>3, <3>1, <3>2
    <3> QED
      BY <1>1, <1>2, <2>1, <2>2, <3>1, <3>3, ReturnKeepsInv
  <2>3. CASE ReturnError("other") /\ UNCHANGED bound
    BY <1>1, <2>1, <2>3, ErrorKeepsInv DEF SyncInv, TypeOK
  <2> QED
    BY <1>5, <2>2, <2>3 DEF BindCreate
<1> QED
  BY <1>4, <1>5

\* handleDHCPDelete: with the version of the object, the copy that was looked
\* at is the object.
LEMMA DeleteKeepsInv ==
    ASSUME SyncInv, DeleteSkip \/ DeleteLabel
    PROVE  SyncInv'
<1>1. /\ w.pc = "delete" /\ w.ev.ip \in IPs /\ w.ev.kind = "delete"
      /\ UNCHANGED <<handlerFrame, bound, faults>>
  <2>1. w.pc = "delete" /\ UNCHANGED <<handlerFrame, bound, faults>>
    BY DEF DeleteSkip, DeleteLabel
  <2> QED
    BY <2>1, AtWork
<1>2. bound \in [IPs -> Bindings \cup {None}] /\ faults \in 0..MaxFaults
  BY DEF SyncInv, TypeOK
<1>3. CASE DeleteSkip
  BY <1>1, <1>2, <1>3, ReturnKeepsInv DEF DeleteSkip
<1>4. CASE DeleteLabel
  <2>1. ASSUME Writable(w.ev.ip, seen[w.ev.ip].rv), seen[w.ev.ip] # None
        PROVE  obj[w.ev.ip] = seen[w.ev.ip] /\ obj[w.ev.ip] \in Objects
    BY <1>1, <2>1 DEF Writable, SyncInv, Versions, TypeOK
  <2>2. CASE /\ Writable(w.ev.ip, seen[w.ev.ip].rv) /\ seen[w.ev.ip] # None
             /\ seen[w.ev.ip].label = "false" /\ Return(w.ev.n)
    BY <1>1, <1>2, <2>1, <2>2, ReturnKeepsInv
  <2>3. CASE /\ Writable(w.ev.ip, seen[w.ev.ip].rv) /\ seen[w.ev.ip] # None
             /\ Store(w.ev.ip, [obj[w.ev.ip] EXCEPT !.label = "false"]) /\ w' = Idle
             /\ settled' = [settled EXCEPT ![w.ev.ip] = w.ev.n] /\ UNCHANGED timers
    <3> DEFINE o == [obj[w.ev.ip] EXCEPT !.label = "false"]
    <3>1. o \in Objects /\ o.label = "false"
      BY <2>1, <2>3 DEF Objects
    <3>2. Store(w.ev.ip, o)
      BY <2>3
    <3> HIDE DEF o
    <3> QED
      BY <1>1, <2>3, <3>1, <3>2, LabelKeepsInv
  <2>4. CASE ReturnError(Refusal(w.ev.ip))
    BY <1>1, <1>2, <2>4, ErrorKeepsInv DEF Refusal
  <2> QED
    BY <1>4, <2>2, <2>3, <2>4 DEF DeleteLabel
<1> QED
  BY <1>3, <1>4

\* A failed call is an error of the handler.
LEMMA CallFailsKeepsInv ==
    ASSUME SyncInv, CallFails
    PROVE  SyncInv'
<1>1. w.pc # "idle" /\ UNCHANGED <<handlerFrame, bound>> /\ faults' \in 0..MaxFaults
  BY SyncAssumption DEF CallFails, Fault, SyncInv, TypeOK
<1>2. PICK err \in {"retry", "other"} : ReturnError(err)
  BY DEF CallFails
<1> QED
  BY <1>1, <1>2, ErrorKeepsInv

\* Touch and UpdateRedfishStatusInfo store what the object has.
LEMMA RivalsKeepInv ==
    ASSUME SyncInv, NEW i \in IPs, Touch(i) \/ UpdateRedfishStatusInfo(i)
    PROVE  SyncInv'
<1>1. obj[i] # None /\ Store(i, obj[i])
  BY DEF Touch, UpdateRedfishStatusInfo, Writable, SyncInv, Versions
<1>2. faults' \in 0..MaxFaults
  BY SyncAssumption DEF Touch, UpdateRedfishStatusInfo, Fault, SyncInv, TypeOK
<1>3. UNCHANGED <<dhcpVars, srvVars, chanVars, w, bound, cacheVars, changes, settled>>
  BY DEF Touch, UpdateRedfishStatusInfo
<1> QED
  BY <1>1, <1>2, <1>3, RewriteKeepsInv

\* The agent has just started: no lease, no report and no object.
LEMMA InitEstablishesInv == Init => SyncInv
<1> SUFFICES ASSUME Init PROVE SyncInv
  OBVIOUS
<1> USE SyncAssumption DEF Init
<1>1. /\ Nothing \in [IPs -> Leases \cup {None}] /\ Nothing \in [IPs -> Objects \cup {None}]
      /\ Nothing \in [IPs -> Bindings \cup {None}] /\ \A i \in IPs : Nothing[i] = None
  BY DEF Nothing
<1>2. Boot \in Scans /\ Boot.pc = "idle" /\ ~Boot.up
  BY <1>1 DEF Boot, MonIdle, Scans
<1>3. Idle \in Handlings /\ Idle.pc = "idle"
  BY DEF Idle, Handlings
<1>4. NoReport \in Reports /\ NoReport.n = 0 /\ NoReport.kind = "none"
  BY DEF NoReport, Reports
<1>5. TypeOK
  BY <1>1, <1>2, <1>3, <1>4 DEF TypeOK
<1>6. Scanning /\ Said
  BY <1>1, <1>2, <1>4 DEF Scanning, Said, Says
<1>7. InTransit /\ AtBind
  BY <1>3 DEF InTransit, AtBind
<1>8. Versions /\ InLine
  BY <1>1, <1>3, <1>4 DEF Versions, InLine, Handled
<1> QED
  BY <1>5, <1>6, <1>7, <1>8 DEF SyncInv

\* SyncInv is inductive.
LEMMA NextKeepsInv == SyncInv /\ [Next]_vars => SyncInv'
<1> SUFFICES ASSUME SyncInv, [Next]_vars PROVE SyncInv'
  OBVIOUS
<1>1. CASE UNCHANGED vars
  <2>1. TypeOK' /\ Scanning' /\ Said'
    BY <1>1 DEF vars, dhcpVars, srvVars, chanVars, apiVars, cacheVars, SyncInv, TypeOK,
       Scanning, Said, Says
  <2>2. InTransit'
    BY <1>1, SentStays DEF vars, srvVars, chanVars, SyncInv, InTransit
  <2>3. Versions' /\ AtBind' /\ InLine'
    BY <1>1 DEF vars, srvVars, apiVars, cacheVars, SyncInv, Versions, AtBind, Follows,
       InLine,
       Handled, Agreed
  <2> QED
    BY <2>1, <2>2, <2>3 DEF SyncInv
<1>2. CASE Environment
  BY <1>2, LeasesKeepInv, DeleteObjectKeepsInv, RivalsKeepInv, ScanFailsKeepsInv,
     CallFailsKeepsInv, RestartKeepsInv DEF Environment
<1>3. CASE LeaseFlush
  BY <1>3, LeasesKeepInv
<1>4. CASE Monitor
  BY <1>4, ScanLeasesKeepsInv, ScanDoneKeepsInv, SendAddKeepsInv, SendDeleteKeepsInv
     DEF Monitor
<1>5. CASE TakeAdd \/ TakeDelete
  BY <1>5, TakeAddKeepsInv, TakeDeleteKeepsInv
<1>6. CASE Handler
  BY <1>6, AddKeepsInv, BindKeepsInv, DeleteKeepsInv DEF Handler
<1>7. ASSUME NEW e \in timers, RetryFires(e)
      PROVE  SyncInv'
  BY <1>7, RetryAddKeepsInv, RetryDeleteKeepsInv DEF RetryFires
<1>8. ASSUME NEW i \in IPs, Observe(i) \/ ObserveBound(i) \/ CollectGarbage(i)
      PROVE  SyncInv'
  BY <1>8, CachesKeepInv
<1> QED
  BY <1>1, <1>2, <1>3, <1>4, <1>5, <1>6, <1>7, <1>8 DEF Next

-----------------------------------------------------------------------------
(* The theorems                                                              *)

\* SyncInv holds in every reachable state.
THEOREM SyncInvariant == Spec => []SyncInv
  BY InitEstablishesInv, NextKeepsInv, PTL DEF Spec

\* Type correctness; in particular neither channel exceeds its capacity.
THEOREM SyncTypeCorrect == Spec => []TypeOK
<1>1. SyncInv => TypeOK
  BY DEF SyncInv
<1> QED
  BY <1>1, SyncInvariant, PTL

\* Once the monitor is idle and has seen the last write of the lease file, its
\* last report about an address without a gap is what the lease says.
THEOREM ReportsFollowLeaseAlways == Spec => []ReportsFollowLease
<1>1. SyncInv => ReportsFollowLease
  <2> SUFFICES ASSUME SyncInv, mon = MonIdle, ~dirty, file = lease, NEW i \in IPs \ gap
               PROVE  Says(i, lease[i])
    BY DEF ReportsFollowLease, Says
  <2>1. mon.pc = "idle" /\ mon.up
    BY DEF MonIdle
  <2> QED
    BY <2>1 DEF SyncInv, Said
<1> QED
  BY <1>1, SyncInvariant, PTL

\* The objects of an address are in line with the last report about it, once it
\* has been handled with a current copy and after all others; no rival writer,
\* cache, retry, restart or garbage collection undoes it.
THEOREM ObjectsFollowReportsAlways == Spec => []ObjectsFollowReports
<1>1. SyncInv => ObjectsFollowReports
  <2> SUFFICES ASSUME SyncInv, NEW i \in IPs, Settled(i)
               PROVE  Agrees(i)
    BY DEF ObjectsFollowReports
  <2>1. w.pc # "idle" => w.ev # None
    BY AtWork
  <2>2. Handled(i)
    BY <2>1 DEF Settled, Pending, Handled
  <2> QED
    BY <2>2 DEF SyncInv, InLine, Agreed, Follows, Agrees
<1> QED
  BY <1>1, SyncInvariant, PTL
=============================================================================
