----------------------- MODULE EndpointInventoryProofs -----------------------
(***************************************************************************)
(* Theorems about EndpointInventory, for any names, addresses, requests,   *)
(* secrets, creations and mishaps. The inductive invariant is              *)
(* InventoryInv.                                                           *)
(***************************************************************************)
EXTENDS EndpointInventory, TLAPS

\* The specs the webhook completes and lets through.
Specs == {s \in {Default(r) : r \in Requests} : CompleteSpec(s)}
Endpoints == [uid : Uids, ip : Addresses, spec : Specs]

\* Where the workers are.
Fillings == [stage : {"status"}, name : Names, endpoint : Endpoints]
Collections == [stage : {"collect"}, entry : Entries]
Polls == [stage : {"collect"}, name : Names, entry : Entries]

\* The type of every variable the proofs look at. It says of the endpoints
\* what TypeOK says of them.
Typed ==
    /\ ep \in [Names -> Endpoints \cup {NoEndpoint}]
    /\ epSeen \in [Names -> Endpoints \cup {NoEndpoint}]
    /\ inv \in [Names -> Statuses \cup {NoStatus}]
    /\ invSeen \in [Names -> Statuses \cup {NoStatus}]
    /\ current \in [Names -> SUBSET {"view", "endpoint"}]
    /\ epDue \subseteq Names
    /\ sshDue \subseteq {n \in Names : TypeOf[n] = "ssh"}
    /\ worker \in Fillings \cup {Idle}
    /\ ssh \in [Names -> Collections \cup {Idle}]
    /\ poll \in Polls \cup {Idle}
    /\ cache \in [Names -> Entries \cup {NoEntry}]
    /\ blind \subseteq Names
    /\ creates \in 0..MaxCreates

\* A copy that carries the version of the object is the object: what the
\* informer shows, or what Create answered.
UpToDate ==
    \A n \in Names :
        /\ "view" \in current[n] => invSeen[n] = inv[n]
        /\ "endpoint" \in current[n] => inv[n] # NoStatus

\* The SSHStatus workers and the cache are at SSH hosts only.
AtSSHHosts ==
    \A n \in Names : ssh[n] # Idle \/ cache[n] # NoEntry => TypeOf[n] = "ssh"

InventoryInv ==
    /\ Typed
    /\ UpToDate
    /\ AtSSHHosts
    /\ SharedOnlyIfUnseen

-----------------------------------------------------------------------------
(* Facts about the values                                                    *)

\* An absent object is not an object, and an idle worker is at nothing.
LEMMA Apart ==
    /\ NoStatus \notin Statuses /\ NoEndpoint \notin Endpoints /\ NoEntry \notin Entries
    /\ Idle \notin Fillings /\ Idle \notin Collections /\ Idle \notin Polls
<1>1. 0 \notin Uids
  BY InventoryAssumption DEF Uids
<1>2. NoStatus \notin Statuses
  BY <1>1 DEF NoStatus, Statuses
<1>3. NoEndpoint \notin Endpoints
  BY <1>1 DEF NoEndpoint, Endpoints
<1>4. NoEntry \notin Entries
  BY <1>1 DEF NoEntry, Entries
<1>5. Idle \notin Fillings /\ Idle \notin Collections /\ Idle \notin Polls
  BY DEF Idle, Fillings, Collections, Polls
<1> QED
  BY <1>2, <1>3, <1>4, <1>5

\* The fields of an endpoint.
LEMMA EndpointFields ==
    ASSUME NEW e \in Endpoints
    PROVE  e.uid \in Uids /\ e.ip \in Addresses /\ e.spec \in Specs
  BY DEF Endpoints

\* The webhook lets through only a spec with a port, https set or unset for
\* good, and a whole secret reference or none.
LEMMA ValidIsComplete ==
    ASSUME NEW n \in Names, NEW r \in Requests, validateHostEndpoint(n, r.ip, Default(r))
    PROVE  Default(r) \in Specs /\ r.ip \in Addresses
<1> DEFINE d == Default(r)
<1>1. r.https \in {Unset, "on", "off"}
  BY InventoryAssumption
<1>2. d.https \in {"on", "off"} /\ d.port # 0
  BY <1>1 DEF Default, Unset
<1>3. (d.secretName = Unset) = (d.secretNamespace = Unset)
  BY DEF validateHostEndpoint
<1>4. d.secretName # Unset => d.secretName \in Secrets
  BY DEF validateHostEndpoint
<1> HIDE DEF d
<1>5. CompleteSpec(d)
  BY <1>2, <1>3, <1>4 DEF CompleteSpec
<1>6. d \in {Default(q) : q \in Requests}
  BY DEF d
<1> QED
  BY <1>5, <1>6 DEF d, Specs, validateHostEndpoint

\* A status with an address, a type and what was collected is one of its owner.
LEMMA StatusTyped ==
    ASSUME NEW o \in Statuses, NEW a \in Addresses \cup {Unset},
           NEW t \in {Unset, "hostendpoint", "ssh"}, NEW c \in BOOLEAN
    PROVE  /\ [o EXCEPT !.ip = a, !.type = t] \in Statuses
           /\ [o EXCEPT !.collected = c, !.ip = a, !.type = t] \in Statuses
  BY DEF Statuses

\* The fields of a status.
LEMMA StatusFields ==
    ASSUME NEW o \in Statuses
    PROVE  /\ o.owner \in Uids /\ o.ip \in Addresses \cup {Unset}
           /\ o.type \in {Unset, "hostendpoint", "ssh"}
  BY DEF Statuses

\* A blank object is a status.
LEMMA BlankTyped ==
    ASSUME NEW u \in Uids
    PROVE  Blank(u) \in Statuses
  BY DEF Blank, Statuses, Unset

-----------------------------------------------------------------------------
(* Every step keeps the invariant                                            *)

\* An endpoint is admitted when nobody is seen to have its address; a
\* namesake of its address that is not seen makes it a blind one.
LEMMA CreateKeepsInv ==
    ASSUME InventoryInv, NEW n \in Names, NEW r \in Requests, CreateEndpoint(n, r)
    PROVE  InventoryInv'
<1> USE Apart DEF InventoryInv, Typed, api, views, queues
<1>a. /\ ep[n] = NoEndpoint /\ creates < MaxCreates /\ creates' = creates + 1
      /\ validateHostEndpoint(n, r.ip, Default(r))
      /\ ep' = [ep EXCEPT ![n] = [uid |-> creates', ip |-> r.ip, spec |-> Default(r)]]
      /\ blind' = (blind \ {n}) \cup
                  (IF \E m \in Names \ {n} : ep[m] # NoEndpoint /\ ep[m] # epSeen[m]
                   THEN {n} ELSE {})
      /\ UNCHANGED <<inv, views, current, queues, worker, ssh, poll, cache, excuse, mishaps>>
  BY DEF CreateEndpoint
<1>b. creates' \in 0..MaxCreates
  BY <1>a, InventoryAssumption
<1>c. [uid |-> creates', ip |-> r.ip, spec |-> Default(r)] \in Endpoints
  BY <1>a, ValidIsComplete, InventoryAssumption DEF Endpoints, Uids
<1>1. Typed'
  <2>1. ep' \in [Names -> Endpoints \cup {NoEndpoint}]
    BY <1>a, <1>b, <1>c
  <2>2. blind' \subseteq Names
    BY <1>a, <1>b, <1>c
  <2>3. creates' \in 0..MaxCreates
    BY <1>a, <1>b, <1>c
  <2> QED
    BY <1>a, <1>b, <1>c, <2>1, <2>2, <2>3
<1>2. SharedOnlyIfUnseen'
  <2>1. ep'[n].ip = r.ip /\ \A m \in Names \ {n} : ep'[m] = ep[m]
    BY <1>a, <1>b, <1>c
  <2>2. ASSUME NEW m \in Names \ {n}, ep[m] # NoEndpoint, ep[m].ip = r.ip
       PROVE  n \in blind'
    BY <1>a, <1>b, <1>c, <2>2 DEF validateHostEndpoint
  <2>3. SUFFICES ASSUME NEW m \in Names, NEW k \in Names, m # k, ep'[m] # NoEndpoint,
                       ep'[k] # NoEndpoint, ep'[m].ip = ep'[k].ip
                PROVE  m \in blind' \/ k \in blind'
    BY DEF SharedOnlyIfUnseen
  <2>4. CASE m = n
    BY <2>1, <2>2, <2>3, <2>4
  <2>5. CASE k = n
    BY <2>1, <2>2, <2>3, <2>5
  <2>6. CASE m # n /\ k # n
    BY <1>a, <1>b, <1>c, <2>1, <2>3, <2>6 DEF SharedOnlyIfUnseen
  <2> QED
    BY <2>4, <2>5, <2>6
<1>3. UpToDate' /\ AtSSHHosts'
  BY <1>a, <1>b, <1>c DEF UpToDate, AtSSHHosts
<1> QED
  BY <1>1, <1>2, <1>3 DEF InventoryInv

\* Endpoints and objects go, and the informers show what is there.
LEMMA ServerKeepsInv ==
    ASSUME InventoryInv, NEW n \in Names,
           DeleteEndpoint(n) \/ CollectGarbage(n) \/ ObserveEndpoint(n) \/ ObserveStatus(n)
    PROVE  InventoryInv'
<1> USE Apart DEF InventoryInv, Typed, api, views, queues
<1>1. CASE DeleteEndpoint(n)
  <2>1. Typed'
    BY <1>1 DEF DeleteEndpoint
  <2>2. SharedOnlyIfUnseen'
    BY <1>1, <2>1 DEF DeleteEndpoint, SharedOnlyIfUnseen
  <2>3. UpToDate' /\ AtSSHHosts'
    BY <1>1 DEF DeleteEndpoint, UpToDate, AtSSHHosts
  <2> QED
    BY <2>1, <2>2, <2>3 DEF InventoryInv
<1>2. CASE CollectGarbage(n)
  <2>1. Typed'
    BY <1>2 DEF CollectGarbage, Store
  <2>2. UpToDate'
    BY <1>2, <2>1 DEF CollectGarbage, Store, UpToDate
  <2>3. AtSSHHosts' /\ SharedOnlyIfUnseen'
    BY <1>2 DEF CollectGarbage, Store, AtSSHHosts, SharedOnlyIfUnseen
  <2> QED
    BY <2>1, <2>2, <2>3 DEF InventoryInv
<1>3. CASE ObserveEndpoint(n)
  <2>1. Typed'
    BY <1>3 DEF ObserveEndpoint
  <2>2. UpToDate' /\ AtSSHHosts' /\ SharedOnlyIfUnseen'
    BY <1>3 DEF ObserveEndpoint, UpToDate, AtSSHHosts, SharedOnlyIfUnseen
  <2> QED
    BY <2>1, <2>2 DEF InventoryInv
<1>4. CASE ObserveStatus(n)
  <2>1. Typed'
    BY <1>4 DEF ObserveStatus
  <2>2. UpToDate'
    BY <1>4, <2>1 DEF ObserveStatus, UpToDate
  <2>3. AtSSHHosts' /\ SharedOnlyIfUnseen'
    BY <1>4 DEF ObserveStatus, AtSSHHosts, SharedOnlyIfUnseen
  <2> QED
    BY <2>1, <2>2, <2>3 DEF InventoryInv
<1> QED
  BY <1>1, <1>2, <1>3, <1>4

\* A write of an object that is there makes every copy of it stale.
LEMMA WriteKeepsInv ==
    ASSUME InventoryInv, NEW n \in Names, NEW o \in Statuses, Store(n, o, {}),
           epDue' \subseteq Names, sshDue' \subseteq {m \in Names : TypeOf[m] = "ssh"},
           worker' \in {worker, Idle}, poll' \in {poll, Idle},
           ssh' \in {ssh, [ssh EXCEPT ![n] = Idle]},
           UNCHANGED <<ep, views, cache, blind, creates>>
    PROVE  InventoryInv'
<1> USE Apart DEF InventoryInv, Typed, api, views, queues
<1>a. inv' = [inv EXCEPT ![n] = o] /\ current' = [current EXCEPT ![n] = {}]
  BY DEF Store
<1>1. Typed'
  <2>1. inv' \in [Names -> Statuses \cup {NoStatus}]
    BY <1>a
  <2>2. current' \in [Names -> SUBSET {"view", "endpoint"}]
    BY <1>a
  <2>3. epDue' \subseteq Names
    BY <1>a
  <2>4. sshDue' \subseteq {m \in Names : TypeOf[m] = "ssh"}
    BY <1>a
  <2>5. worker' \in Fillings \cup {Idle}
    BY <1>a
  <2>6. poll' \in Polls \cup {Idle}
    BY <1>a
  <2>7. ssh' \in [Names -> Collections \cup {Idle}]
    BY <1>a
  <2> QED
    BY <1>a, <2>1, <2>2, <2>3, <2>4, <2>5, <2>6, <2>7
<1>2. UpToDate'
  BY <1>a, <1>1 DEF UpToDate
<1>3. AtSSHHosts'
  BY <1>a, <1>1 DEF AtSSHHosts
<1>4. SharedOnlyIfUnseen'
  BY <1>a DEF SharedOnlyIfUnseen
<1> QED
  BY <1>1, <1>2, <1>3, <1>4 DEF InventoryInv

\* A worker that ends without a write.
LEMMA NoWriteKeepsInv ==
    ASSUME InventoryInv, NEW n \in Names,
           epDue' \subseteq Names, sshDue' \subseteq {m \in Names : TypeOf[m] = "ssh"},
           worker' \in {worker, Idle}, poll' \in {poll, Idle},
           ssh' \in {ssh, [ssh EXCEPT ![n] = Idle]},
           UNCHANGED <<api, views, current, cache, blind, creates>>
    PROVE  InventoryInv'
<1> USE Apart DEF InventoryInv, Typed, api, views, queues
<1>1. Typed'
  <2>1. epDue' \subseteq Names
    OBVIOUS
  <2>2. sshDue' \subseteq {m \in Names : TypeOf[m] = "ssh"}
    OBVIOUS
  <2>3. worker' \in Fillings \cup {Idle}
    OBVIOUS
  <2>4. poll' \in Polls \cup {Idle}
    OBVIOUS
  <2>5. ssh' \in [Names -> Collections \cup {Idle}]
    OBVIOUS
  <2> QED
    BY <2>1, <2>2, <2>3, <2>4, <2>5
<1>2. AtSSHHosts'
  BY <1>1 DEF AtSSHHosts
<1>3. UpToDate' /\ SharedOnlyIfUnseen'
  BY DEF UpToDate, SharedOnlyIfUnseen
<1> QED
  BY <1>1, <1>2, <1>3 DEF InventoryInv

\* Create answers with a copy of the object.
LEMMA CreateInventoryKeepsInv ==
    ASSUME InventoryInv, NEW n \in Names, CreateInventory(n)
    PROVE  InventoryInv'
<1> USE Apart DEF InventoryInv, Typed, api, views, queues
<1>a. /\ epSeen[n] \in Endpoints /\ Blank(epSeen[n].uid) \in Statuses
  BY EndpointFields, BlankTyped DEF CreateInventory
<1>b. /\ inv' = [inv EXCEPT ![n] = Blank(epSeen[n].uid)]
      /\ current' = [current EXCEPT ![n] = {"endpoint"}] /\ epDue' = epDue \ {n}
      /\ UNCHANGED <<ep, views, sshDue, ssh, poll, cache, blind, creates, mishaps>>
  BY DEF CreateInventory, Store
<1>c. worker' \in {worker, [stage |-> "status", name |-> n, endpoint |-> epSeen[n]]}
  BY DEF CreateInventory
<1>d. [stage |-> "status", name |-> n, endpoint |-> epSeen[n]] \in Fillings
  BY <1>a DEF Fillings
<1>1. Typed'
  <2>1. inv' \in [Names -> Statuses \cup {NoStatus}]
    BY <1>a, <1>b, <1>c, <1>d
  <2>2. current' \in [Names -> SUBSET {"view", "endpoint"}]
    BY <1>a, <1>b, <1>c, <1>d
  <2>3. epDue' \subseteq Names
    BY <1>a, <1>b, <1>c, <1>d
  <2>4. worker' \in Fillings \cup {Idle}
    BY <1>a, <1>b, <1>c, <1>d
  <2> QED
    BY <1>a, <1>b, <1>c, <1>d, <2>1, <2>2, <2>3, <2>4
<1>2. UpToDate'
  BY <1>a, <1>b, <1>c, <1>d, <1>1 DEF UpToDate
<1>3. AtSSHHosts' /\ SharedOnlyIfUnseen'
  BY <1>a, <1>b, <1>c, <1>d DEF AtSSHHosts, SharedOnlyIfUnseen
<1> QED
  BY <1>1, <1>2, <1>3 DEF InventoryInv

\* A host that is gone leaves the cache; one with an address is left alone;
\* the ticker takes an entry of the cache.
LEMMA SSHQueueKeepsInv ==
    ASSUME InventoryInv, NEW n \in Names, SSHGone(n) \/ SSHSkip(n) \/ Tick(n)
    PROVE  InventoryInv'
<1> USE Apart DEF InventoryInv, Typed, api, views, queues
<1>1. CASE SSHGone(n)
  <2>1. Typed'
    BY <1>1 DEF SSHGone, TakeSSH
  <2>2. AtSSHHosts'
    BY <1>1, <2>1 DEF SSHGone, TakeSSH, AtSSHHosts
  <2>3. UpToDate' /\ SharedOnlyIfUnseen'
    BY <1>1 DEF SSHGone, TakeSSH, UpToDate, SharedOnlyIfUnseen
  <2> QED
    BY <2>1, <2>2, <2>3 DEF InventoryInv
<1>2. CASE SSHSkip(n)
  <2>1. Typed'
    BY <1>2 DEF SSHSkip, TakeSSH
  <2>2. UpToDate' /\ AtSSHHosts' /\ SharedOnlyIfUnseen'
    BY <1>2 DEF SSHSkip, TakeSSH, UpToDate, AtSSHHosts, SharedOnlyIfUnseen
  <2> QED
    BY <2>1, <2>2 DEF InventoryInv
<1>3. CASE Tick(n)
  <2>1. Typed'
    <3>1. cache[n] \in Entries /\ [stage |-> "collect", name |-> n,
       entry |-> cache[n]] \in Polls
      BY <1>3 DEF Tick, Polls
    <3>2. poll' \in Polls \cup {Idle}
      BY <1>3, <3>1 DEF Tick
    <3> QED
      BY <1>3, <3>1, <3>2 DEF Tick
  <2>2. UpToDate' /\ AtSSHHosts' /\ SharedOnlyIfUnseen'
    BY <1>3 DEF Tick, UpToDate, AtSSHHosts, SharedOnlyIfUnseen
  <2> QED
    BY <2>1, <2>2 DEF InventoryInv
<1> QED
  BY <1>1, <1>2, <1>3

\* processSSHStatus puts the address of the owner into the cache, and into
\* the object if a Subnet leases it.
LEMMA ProcessKeepsInv ==
    ASSUME InventoryInv, NEW n \in Names, processSSHStatus(n)
    PROVE  InventoryInv'
<1> USE Apart DEF InventoryInv, Typed, api, views, queues
<1>a. /\ epSeen[n] \in Endpoints /\ invSeen[n] \in Statuses /\ n \in sshDue /\ TypeOf[n] = "ssh"
  BY DEF processSSHStatus, TakeSSH
<1>b. PICK e \in Entries :
        /\ e.ip \in Addresses /\ ssh' = [ssh EXCEPT ![n] = [stage |-> "collect", entry |-> e]]
        /\ cache' = [cache EXCEPT ![n] = e] /\ updateSubnetName(n, e)
  <2> DEFINE e == [owner |-> invSeen[n].owner, ip |-> epSeen[n].ip]
  <2>1. e \in Entries /\ e.ip \in Addresses
    BY <1>a, EndpointFields, StatusFields DEF Entries
  <2>2. /\ ssh' = [ssh EXCEPT ![n] = [stage |-> "collect", entry |-> e]]
        /\ cache' = [cache EXCEPT ![n] = e] /\ updateSubnetName(n, e)
    BY DEF processSSHStatus
  <2> HIDE DEF e
  <2> QED
    BY <2>1, <2>2
<1>c. [stage |-> "collect", entry |-> e] \in Collections
  BY DEF Collections
<1>d. /\ inv' \in [Names -> Statuses \cup {NoStatus}]
      /\ \/ UNCHANGED <<inv, current>>
         \/ /\ current' = [current EXCEPT ![n] = {}]
            /\ \A m \in Names \ {n} : inv'[m] = inv[m]
  <2> DEFINE o == [inv[n] EXCEPT !.ip = e.ip, !.type = "hostendpoint"]
  <2>1. CASE "view" \in current[n] /\ Store(n, o, {})
    <3>1. inv[n] \in Statuses
      BY <1>a, <2>1 DEF UpToDate
    <3>2. o \in Statuses
      BY <1>b, <3>1, StatusTyped
    <3> HIDE DEF o
    <3> QED
      BY <2>1, <3>2 DEF Store
  <2>2. CASE UNCHANGED <<inv, current>>
    BY <2>2
  <2> QED
    BY <1>b, <2>1, <2>2 DEF updateSubnetName
<1>e. sshDue' = sshDue \ {n} /\ UNCHANGED <<ep, views, epDue, worker, poll, blind, creates>>
  BY DEF processSSHStatus
<1>1. Typed'
  <2>1. inv' \in [Names -> Statuses \cup {NoStatus}]
    BY <1>a, <1>b, <1>c, <1>d, <1>e
  <2>2. current' \in [Names -> SUBSET {"view", "endpoint"}]
    BY <1>a, <1>b, <1>c, <1>d, <1>e
  <2>3. ssh' \in [Names -> Collections \cup {Idle}]
    BY <1>a, <1>b, <1>c, <1>d, <1>e
  <2>4. cache' \in [Names -> Entries \cup {NoEntry}]
    BY <1>a, <1>b, <1>c, <1>d, <1>e
  <2>5. sshDue' \subseteq {m \in Names : TypeOf[m] = "ssh"}
    BY <1>a, <1>b, <1>c, <1>d, <1>e
  <2> QED
    BY <1>a, <1>b, <1>c, <1>d, <1>e, <2>1, <2>2, <2>3, <2>4, <2>5
<1>2. UpToDate'
  BY <1>a, <1>b, <1>c, <1>d, <1>e, <1>1 DEF UpToDate
<1>3. AtSSHHosts'
  BY <1>a, <1>b, <1>c, <1>d, <1>e, <1>1 DEF AtSSHHosts
<1>4. SharedOnlyIfUnseen'
  BY <1>a, <1>b, <1>c, <1>d, <1>e DEF SharedOnlyIfUnseen
<1> QED
  BY <1>1, <1>2, <1>3, <1>4 DEF InventoryInv

\* A restart forgets what was in memory and shows what is stored.
LEMMA RestartKeepsInv ==
    ASSUME InventoryInv, Restart
    PROVE  InventoryInv'
<1> USE Apart DEF InventoryInv, Typed, api, views, queues
<1>a. /\ epSeen' = ep /\ invSeen' = inv /\ current' = [n \in Names |-> {"view"}]
      /\ epDue' = {n \in Names : ep[n] # NoEndpoint}
      /\ sshDue' = {n \in Names : TypeOf[n] = "ssh" /\ inv[n] # NoStatus}
      /\ worker' = Idle /\ ssh' = [n \in Names |-> Idle] /\ poll' = Idle
      /\ cache' = [n \in Names |-> NoEntry] /\ UNCHANGED <<api, blind, creates>>
  BY DEF Restart
<1>1. Typed'
  <2>1. epSeen' \in [Names -> Endpoints \cup {NoEndpoint}]
    BY <1>a
  <2>2. invSeen' \in [Names -> Statuses \cup {NoStatus}]
    BY <1>a
  <2>3. current' \in [Names -> SUBSET {"view", "endpoint"}]
    BY <1>a
  <2>4. epDue' \subseteq Names
    BY <1>a
  <2>5. sshDue' \subseteq {m \in Names : TypeOf[m] = "ssh"}
    BY <1>a
  <2>6. worker' \in Fillings \cup {Idle}
    BY <1>a
  <2>7. ssh' \in [Names -> Collections \cup {Idle}]
    BY <1>a
  <2>8. poll' \in Polls \cup {Idle}
    BY <1>a
  <2>9. cache' \in [Names -> Entries \cup {NoEntry}]
    BY <1>a
  <2> QED
    BY <1>a, <2>1, <2>2, <2>3, <2>4, <2>5, <2>6, <2>7, <2>8, <2>9
<1>2. UpToDate'
  BY <1>a, <1>1 DEF UpToDate
<1>3. AtSSHHosts'
  BY <1>a, <1>1 DEF AtSSHHosts
<1>4. SharedOnlyIfUnseen'
  BY <1>a DEF SharedOnlyIfUnseen
<1> QED
  BY <1>1, <1>2, <1>3, <1>4 DEF InventoryInv

\* UpdateRedfish and UpdateSSH write, if at all, an object that is there.
LEMMA UpdateKeepsInv ==
    ASSUME InventoryInv, NEW n \in Names, UpdateRedfish(n) \/ UpdateSSH(n)
    PROVE  InventoryInv'
<1>1. /\ epSeen[n] \in Endpoints /\ invSeen[n] \in Statuses
      /\ epDue' \subseteq Names /\ sshDue' = sshDue
      /\ sshDue \subseteq {m \in Names : TypeOf[m] = "ssh"}
      /\ UNCHANGED <<ep, views, sshDue, worker, ssh, poll, cache, blind, creates>>
  BY DEF UpdateRedfish, UpdateSSH, InventoryInv, Typed
<1>2. ~Conflicts(n) => inv[n] \in Statuses
  BY <1>1 DEF Conflicts, InventoryInv, UpToDate
<1>3. CASE UNCHANGED <<inv, current>>
  BY <1>1, <1>3, NoWriteKeepsInv DEF api
<1>4. CASE ~Conflicts(n) /\ Store(n, inv[n], {})
  BY <1>1, <1>2, <1>4, WriteKeepsInv
<1> DEFINE o == [inv[n] EXCEPT !.ip = epSeen[n].ip, !.type = "ssh"]
<1>5. CASE ~Conflicts(n) /\ Store(n, o, {})
  <2>1. o \in Statuses
    BY <1>1, <1>2, <1>5, EndpointFields, StatusTyped
  <2> HIDE DEF o
  <2> QED
    BY <1>1, <1>5, <2>1, WriteKeepsInv
<1> QED
  BY <1>3, <1>4, <1>5 DEF UpdateRedfish, UpdateSSH

\* FillStatus writes with the copy that Create answered with.
LEMMA FillStatusKeepsInv ==
    ASSUME InventoryInv, FillStatus
    PROVE  InventoryInv'
<1>1. /\ worker \in Fillings /\ worker' = Idle
      /\ UNCHANGED <<ep, views, sshDue, ssh, poll, cache, blind, creates>>
      /\ epDue \subseteq Names /\ sshDue \subseteq {m \in Names : TypeOf[m] = "ssh"}
  BY DEF FillStatus, InventoryInv, Typed, Idle
<1>2. worker.name \in Names /\ worker.endpoint.ip \in Addresses
  BY <1>1, EndpointFields DEF Fillings
<1> DEFINE o == [inv[worker.name] EXCEPT !.ip = worker.endpoint.ip, !.type = "hostendpoint"]
<1>3. CASE /\ "endpoint" \in current[worker.name] /\ Store(worker.name, o, {})
           /\ UNCHANGED epDue
  <2>1. inv[worker.name] \in Statuses
    BY <1>2, <1>3 DEF InventoryInv, Typed, UpToDate
  <2>2. o \in Statuses
    BY <1>2, <2>1, StatusTyped
  <2> HIDE DEF o
  <2> QED
    BY <1>1, <1>2, <1>3, <2>2, WriteKeepsInv
<1>4. CASE epDue' = epDue \cup {worker.name} /\ UNCHANGED <<inv, current>>
  BY <1>1, <1>2, <1>4, NoWriteKeepsInv DEF api
<1> QED
  BY <1>3, <1>4 DEF FillStatus

\* UpdateSSHStatusInfo writes with the copy the informer shows.
LEMMA InfoStored ==
    ASSUME InventoryInv, NEW n \in Names, NEW e \in Entries, UpdateSSHStatusInfo(n, e)
    PROVE  \E o \in Statuses : Store(n, o, {})
<1>1. inv[n] \in Statuses
  BY DEF UpdateSSHStatusInfo, InventoryInv, Typed, UpToDate
<1>2. e.ip \in Addresses
  BY DEF Entries
<1> DEFINE a == IF inv[n].ip = Unset THEN e.ip ELSE inv[n].ip
<1> DEFINE t == IF inv[n].ip = Unset THEN "hostendpoint" ELSE inv[n].type
<1>3. a \in Addresses \cup {Unset} /\ t \in {Unset, "hostendpoint", "ssh"}
  BY <1>1, <1>2, StatusFields
<1> DEFINE o == [inv[n] EXCEPT !.collected = TRUE, !.ip = a, !.type = t]
<1>4. Store(n, o, {})
  BY <1>1 DEF UpdateSSHStatusInfo, Statuses
<1> HIDE DEF a, t
<1>5. o \in Statuses
  BY <1>1, <1>3, StatusTyped
<1> QED
  BY <1>4, <1>5

\* A collection ends with a write or without.
LEMMA CollectKeepsInv ==
    ASSUME InventoryInv,
           CollectAgain \/ \E n \in Names : CollectFirst(n)
    PROVE  InventoryInv'
<1>1. /\ epDue \subseteq Names /\ sshDue \subseteq {m \in Names : TypeOf[m] = "ssh"}
      /\ worker \in {worker, Idle} /\ poll \in {poll, Idle}
  BY DEF InventoryInv, Typed
<1>2. ASSUME NEW n \in Names, CollectFirst(n)
      PROVE  InventoryInv'
  <2>1. /\ ssh' = [ssh EXCEPT ![n] = Idle]
        /\ UNCHANGED <<ep, views, epDue, worker, poll, cache, blind, creates>>
    BY <1>2 DEF CollectFirst
  <2>2. ssh[n] \in Collections /\ ssh[n].entry \in Entries /\ TypeOf[n] = "ssh"
    BY <1>2, Apart DEF CollectFirst, InventoryInv, Typed, AtSSHHosts, Collections, Idle
  <2>3. sshDue' \subseteq {m \in Names : TypeOf[m] = "ssh"}
    BY <1>1, <1>2, <2>2 DEF CollectFirst
  <2>4. CASE UpdateSSHStatusInfo(n, ssh[n].entry)
    <3>1. PICK o \in Statuses : Store(n, o, {})
      BY <2>2, <2>4, InfoStored
    <3> QED
      BY <1>1, <2>1, <2>3, <3>1, WriteKeepsInv
  <2>5. CASE UpdateSSHStatusInfoFails(n)
    BY <1>1, <2>1, <2>3, <2>5, NoWriteKeepsInv DEF UpdateSSHStatusInfoFails, api
  <2> QED
    BY <1>2, <2>4, <2>5 DEF CollectFirst
<1>3. CASE CollectAgain
  <2>1. poll' = Idle /\ UNCHANGED <<ep, views, queues, worker, ssh, cache, blind,
     creates>>
    BY <1>3 DEF CollectAgain
  <2>2. poll \in Polls
    BY <1>3 DEF CollectAgain, InventoryInv, Typed, Idle
  <2>3. poll.name \in Names /\ poll.entry \in Entries
    BY <2>2 DEF Polls
  <2>4. CASE UpdateSSHStatusInfo(poll.name, poll.entry)
    <3>1. PICK o \in Statuses : Store(poll.name, o, {})
      BY <2>3, <2>4, InfoStored
    <3> QED
      BY <1>1, <2>1, <2>3, <3>1, WriteKeepsInv DEF queues
  <2>5. CASE UpdateSSHStatusInfoFails(poll.name)
    BY <1>1, <2>1, <2>3, <2>5, NoWriteKeepsInv DEF UpdateSSHStatusInfoFails, api, queues
  <2> QED
    BY <1>3, <2>4, <2>5 DEF CollectAgain
<1> QED
  BY <1>2, <1>3

\* There is nothing yet.
LEMMA InitEstablishesInv == Init => InventoryInv
<1> SUFFICES ASSUME Init PROVE InventoryInv
  OBVIOUS
<1>1. Typed
  BY InventoryAssumption DEF Init, Typed
<1>2. UpToDate /\ AtSSHHosts /\ SharedOnlyIfUnseen
  BY DEF Init, UpToDate, AtSSHHosts, SharedOnlyIfUnseen
<1> QED
  BY <1>1, <1>2 DEF InventoryInv

\* What does not change keeps the invariant.
LEMMA StutterKeepsInv == InventoryInv /\ UNCHANGED vars => InventoryInv'
  BY DEF vars, api, views, queues, InventoryInv, Typed, UpToDate, AtSSHHosts,
     SharedOnlyIfUnseen

\* InventoryInv is inductive.
LEMMA NextKeepsInv == InventoryInv /\ [Next]_vars => InventoryInv'
<1> SUFFICES ASSUME InventoryInv, [Next]_vars PROVE InventoryInv'
  OBVIOUS
<1>1. CASE UNCHANGED vars
  BY <1>1, StutterKeepsInv
<1>2. ASSUME NEW n \in Names, EndpointStep(n)
      PROVE  InventoryInv'
  <2>1. CASE EndpointGone(n)
    <3>1. /\ epDue' \subseteq Names /\ sshDue' \subseteq {m \in Names : TypeOf[m] = "ssh"}
          /\ UNCHANGED <<api, views, current, worker, ssh, poll, cache, blind, creates>>
      BY <2>1 DEF EndpointGone, InventoryInv, Typed
    <3> QED
      BY <3>1, NoWriteKeepsInv
  <2>2. CASE CreateFails(n)
    BY <2>2, StutterKeepsInv DEF CreateFails
  <2> QED
    BY <1>2, <2>1, <2>2, UpdateKeepsInv, CreateInventoryKeepsInv DEF EndpointStep
<1>3. ASSUME NEW n \in Names, SSHStep(n)
      PROVE  InventoryInv'
  <2>1. CASE processSSHStatusFails(n)
    BY <2>1, StutterKeepsInv DEF processSSHStatusFails
  <2> QED
    BY <1>3, <2>1, SSHQueueKeepsInv, ProcessKeepsInv, CollectKeepsInv DEF SSHStep
<1> QED
  BY <1>1, <1>2, <1>3, CreateKeepsInv, ServerKeepsInv, SSHQueueKeepsInv,
     FillStatusKeepsInv, CollectKeepsInv, RestartKeepsInv DEF Next

-----------------------------------------------------------------------------
(* The theorems                                                              *)

\* InventoryInv holds in every reachable state.
THEOREM InventoryInvariant == Spec => []InventoryInv
  BY InitEstablishesInv, NextKeepsInv, PTL DEF Spec

\* Type correctness; in particular every stored endpoint has a port and a whole
\* secret reference or none, and what is filled or collected is there.
THEOREM InventoryTypeCorrect == Spec => []TypeOK
<1>1. InventoryInv => TypeOK
  <2> SUFFICES ASSUME InventoryInv PROVE TypeOK
    OBVIOUS
  <2> USE DEF InventoryInv, Typed
  <2>1. ASSUME NEW n \in Names, NEW e \in {ep[n], epSeen[n]}, e # NoEndpoint
        PROVE  e.uid \in Uids /\ e.ip \in Addresses /\ CompleteSpec(e.spec)
    BY <2>1, EndpointFields DEF Specs
  <2>2. worker.stage \in {"idle", "status"} /\ poll.stage \in {"idle", "collect"}
    BY DEF Fillings, Polls, Idle
  <2>3. \A n \in Names : ssh[n].stage \in {"idle", "collect"}
    BY DEF Collections, Idle
  <2> QED
    BY <2>1, <2>2, <2>3 DEF TypeOK
<1> QED
  BY <1>1, InventoryInvariant, PTL

\* Of two endpoints with one address, one was admitted before the informer
\* showed the other.
THEOREM SharedOnlyIfUnseenAlways == Spec => []SharedOnlyIfUnseen
<1>1. InventoryInv => SharedOnlyIfUnseen
  BY DEF InventoryInv
<1> QED
  BY <1>1, InventoryInvariant, PTL
=============================================================================
