--------------------------- MODULE EndpointInventory ---------------------------
(***************************************************************************)
(* HostEndpoints and the inventory objects made from them.                  *)
(*                                                                          *)
(* A user creates and deletes HostEndpoints; the webhook completes and      *)
(* checks them.  The HostEndpoint worker makes one RedfishStatus or         *)
(* SSHStatus of the same name, owned by the endpoint, which the garbage     *)
(* collector deletes after its owner.  The SSHStatus controller fills a     *)
(* blank SSHStatus from its owner, puts its address into the SSH cache and  *)
(* collects once; the ticker collects for every entry of the cache.  (What  *)
(* happens to a filled RedfishStatus is in RedfishCollection.)              *)
(*                                                                          *)
(* Everybody reads through informers and writes with the version read:      *)
(* current[n] is the set of copies of object n that are up to date.         *)
(***************************************************************************)
EXTENDS Integers, FiniteSets

CONSTANTS
    Names,          \* names of HostEndpoints
    TypeOf,         \* TypeOf[n]: the type a user gives to the endpoints named n
    Addresses,      \* well-formed addresses
    Requests,       \* the HostEndpoints users send
    Secrets,        \* names of the secrets that hold a username and a password
    Leased,         \* addresses some Subnet lists in its dhcpClientDetails
    MaxCreates,     \* how many HostEndpoints are created
    MaxMishaps      \* failed status writes and restarts

Unset == "unset"    \* the empty string, an absent boolean

ASSUME InventoryAssumption ==
    /\ TypeOf \in [Names -> {"redfish", "ssh"}]
    /\ Leased \subseteq Addresses /\ Unset \notin Addresses
    /\ {MaxCreates, MaxMishaps} \subseteq Nat
    /\ "default" \in Secrets /\ Unset \notin Secrets
    /\ \A r \in Requests :
          /\ DOMAIN r = {"name", "ip", "https", "port", "secretName", "secretNamespace"}
          /\ r.https \in {Unset, "on", "off"}

VARIABLES
    ep, epSeen,         \* HostEndpoints: stored, and as the informer shows them
    inv, invSeen,       \* RedfishStatus and SSHStatus objects, likewise
    current,            \* up-to-date copies of each inventory object
    epDue, sshDue,      \* names in the work queues
    worker,             \* the HostEndpoint worker, between its two requests
    ssh,                \* the SSHStatus worker of each name
    poll,               \* the ticker's goroutine
    cache,              \* SSHCacheDatabase: the address of each host, with the
                        \* object it was taken from
    blind,              \* endpoints checked while a namesake's address was unseen
    excuse,             \* what went wrong for each name
    creates, mishaps    \* how often something happened

api == <<ep, inv>>
views == <<epSeen, invSeen>>
queues == <<epDue, sshDue>>
vars == <<api, views, current, queues, worker, ssh, poll, cache, blind, excuse,
          creates, mishaps>>

NoEndpoint == [uid |-> 0]
NoStatus == [owner |-> 0]
NoEntry == [owner |-> 0]
Idle == [stage |-> "idle"]

\* Objects: the address is empty until status.basic is set.
Blank(uid) == [owner |-> uid, ip |-> Unset, type |-> Unset, collected |-> FALSE]

Init ==
    /\ ep = [n \in Names |-> NoEndpoint] /\ epSeen = ep
    /\ inv = [n \in Names |-> NoStatus] /\ invSeen = inv
    /\ current = [n \in Names |-> {"view"}]
    /\ epDue = {} /\ sshDue = {}
    /\ worker = Idle /\ ssh = [n \in Names |-> Idle] /\ poll = Idle
    /\ cache = [n \in Names |-> NoEntry]
    /\ blind = {} /\ excuse = [n \in Names |-> {}]
    /\ creates = 0 /\ mishaps = 0

Mishap == mishaps < MaxMishaps /\ mishaps' = mishaps + 1
Excuse(n, what) == excuse' = [excuse EXCEPT ![n] = @ \cup {what}]

-----------------------------------------------------------------------------
(* The HostEndpoint webhook                                                 *)

Default(r) ==
    LET https == IF r.https = Unset THEN "on" ELSE r.https
        none == r.secretName = Unset /\ r.secretNamespace = Unset
    IN  [https |-> https,
         port |-> IF r.port = 0 THEN 443 ELSE r.port,
         secretName |-> IF none /\ https = "on" THEN "default" ELSE r.secretName,
         secretNamespace |-> IF none /\ https = "on" THEN "topohub" ELSE r.secretNamespace]

\* Mutant: the comparison with the other endpoints left out.
validateStatusOnly(n, ip, spec) ==
    /\ ip \in Addresses
    /\ \A m \in Names : invSeen[m] # NoStatus /\ TypeOf[m] = "redfish" => invSeen[m].ip # ip
    /\ (spec.secretName = Unset) = (spec.secretNamespace = Unset)
    /\ spec.secretName # Unset => spec.secretName \in Secrets

\* Mutant: a secret name without its namespace goes through.
validateHalfSecret(n, ip, spec) ==
    /\ ip \in Addresses
    /\ \A m \in Names \ {n} : epSeen[m] # NoEndpoint => epSeen[m].ip # ip

\* The address is well-formed and nobody is seen to have it; the secret is
\* named with its namespace or not at all, and it is complete.
validateHostEndpoint(n, ip, spec) ==
    /\ ip \in Addresses
    /\ \A m \in Names \ {n} : epSeen[m] # NoEndpoint => epSeen[m].ip # ip
    /\ \A m \in Names : invSeen[m] # NoStatus /\ TypeOf[m] = "redfish" => invSeen[m].ip # ip
    /\ (spec.secretName = Unset) = (spec.secretNamespace = Unset)
    /\ spec.secretName # Unset => spec.secretName \in Secrets

CreateEndpoint(n, r) ==
    /\ r.name = n /\ ep[n] = NoEndpoint /\ creates < MaxCreates
    /\ validateHostEndpoint(n, r.ip, Default(r))
    /\ creates' = creates + 1
    /\ ep' = [ep EXCEPT ![n] = [uid |-> creates', ip |-> r.ip, spec |-> Default(r)]]
    /\ blind' = (blind \ {n}) \cup
                (IF \E m \in Names \ {n} : ep[m] # NoEndpoint /\ ep[m] # epSeen[m]
                 THEN {n} ELSE {})
    /\ UNCHANGED <<inv, views, current, queues, worker, ssh, poll, cache, excuse, mishaps>>

DeleteEndpoint(n) ==
    /\ ep[n] # NoEndpoint
    /\ ep' = [ep EXCEPT ![n] = NoEndpoint]
    /\ UNCHANGED <<inv, views, current, queues, worker, ssh, poll, cache, blind,
                   excuse, creates, mishaps>>

-----------------------------------------------------------------------------
(* The API server and the informers                                         *)

\* A successful write: every copy made before is out of date.
Store(n, o, copies) ==
    inv' = [inv EXCEPT ![n] = o] /\ current' = [current EXCEPT ![n] = copies]

\* The garbage collector deletes an object whose owner is gone.
CollectGarbage(n) ==
    /\ inv[n] # NoStatus /\ inv[n].owner # ep[n].uid /\ Store(n, NoStatus, {})
    /\ UNCHANGED <<ep, views, queues, worker, ssh, poll, cache, blind, excuse,
                   creates, mishaps>>

ObserveEndpoint(n) ==
    /\ epSeen[n] # ep[n]
    /\ epSeen' = [epSeen EXCEPT ![n] = ep[n]] /\ epDue' = epDue \cup {n}
    /\ UNCHANGED <<api, invSeen, current, sshDue, worker, ssh, poll, cache, blind,
                   excuse, creates, mishaps>>

ObserveStatus(n) ==
    /\ "view" \notin current[n]
    /\ invSeen' = [invSeen EXCEPT ![n] = inv[n]]
    /\ current' = [current EXCEPT ![n] = @ \cup {"view"}]
    /\ sshDue' = IF TypeOf[n] = "ssh" THEN sshDue \cup {n} ELSE sshDue
    /\ UNCHANGED <<api, epSeen, epDue, worker, ssh, poll, cache, blind, excuse,
                   creates, mishaps>>

-----------------------------------------------------------------------------
(* The HostEndpoint worker                                                  *)

Take(n) == worker = Idle /\ n \in epDue

\* The type of a filled RedfishStatus is never the type of an endpoint.
specEqual(o, e, type) == o.ip = e.ip /\ o.type = type
specEqualSSH(o, e) == o.ip = e.ip

\* Found out of date or by somebody else, the write fails; the worker tries
\* again.
Conflicts(n) == "view" \notin current[n]

EndpointGone(n) ==
    /\ Take(n) /\ epSeen[n] = NoEndpoint /\ epDue' = epDue \ {n}
    /\ UNCHANGED <<api, views, current, sshDue, worker, ssh, poll, cache, blind,
                   excuse, creates, mishaps>>

\* The RedfishStatus exists.  One that differs is written with Update, which
\* does not store a status: at most its labels and its version change.
UpdateRedfish(n) ==
    /\ TypeOf[n] = "redfish" /\ Take(n) /\ epSeen[n] # NoEndpoint /\ invSeen[n] # NoStatus
    /\ IF specEqual(invSeen[n], epSeen[n], TypeOf[n])
       THEN epDue' = epDue \ {n} /\ UNCHANGED <<inv, current>>
       ELSE IF Conflicts(n) THEN UNCHANGED <<epDue, inv, current>>
       ELSE epDue' = epDue \ {n} /\ (Store(n, inv[n], {}) \/ UNCHANGED <<inv, current>>)
    /\ IF invSeen[n].owner # epSeen[n].uid THEN Excuse(n, "adopted") ELSE UNCHANGED excuse
    /\ UNCHANGED <<ep, views, sshDue, worker, ssh, poll, cache, blind, creates, mishaps>>

\* The SSHStatus exists.  One with another address gets the endpoint's.
UpdateSSH(n) ==
    /\ TypeOf[n] = "ssh" /\ Take(n) /\ epSeen[n] # NoEndpoint /\ invSeen[n] # NoStatus
    /\ IF specEqualSSH(invSeen[n], epSeen[n])
       THEN epDue' = epDue \ {n} /\ UNCHANGED <<inv, current>>
       ELSE IF Conflicts(n) THEN UNCHANGED <<epDue, inv, current>>
       ELSE /\ epDue' = epDue \ {n}
            /\ Store(n, [inv[n] EXCEPT !.ip = epSeen[n].ip, !.type = "ssh"], {})
    /\ IF invSeen[n].owner # epSeen[n].uid THEN Excuse(n, "adopted")
       ELSE IF invSeen[n].ip = Unset THEN Excuse(n, "prefilled") ELSE UNCHANGED excuse
    /\ UNCHANGED <<ep, views, sshDue, worker, ssh, poll, cache, blind, creates, mishaps>>

\* Mutant: Create without the second request.
CreateOnly(n) ==
    /\ Take(n) /\ epSeen[n] # NoEndpoint /\ invSeen[n] = NoStatus
    /\ inv[n] = NoStatus
    /\ Store(n, Blank(epSeen[n].uid), {"endpoint"}) /\ epDue' = epDue \ {n}
    /\ excuse' = [excuse EXCEPT ![n] = {}]
    /\ UNCHANGED <<ep, views, sshDue, worker, ssh, poll, cache, blind, creates, mishaps>>

\* The object does not exist: Create, and for a RedfishStatus a second request
\* for the status.
CreateInventory(n) ==
    /\ Take(n) /\ epSeen[n] # NoEndpoint /\ invSeen[n] = NoStatus
    /\ inv[n] = NoStatus
    /\ Store(n, Blank(epSeen[n].uid), {"endpoint"}) /\ epDue' = epDue \ {n}
    /\ IF TypeOf[n] = "redfish"
       THEN worker' = [stage |-> "status", name |-> n, endpoint |-> epSeen[n]]
       ELSE UNCHANGED worker
    /\ excuse' = [excuse EXCEPT ![n] = {}]
    /\ UNCHANGED <<ep, views, sshDue, ssh, poll, cache, blind, creates, mishaps>>

\* Create fails, for one because the object is there already: the name stays
\* in the queue, and nothing changes.
CreateFails(n) ==
    /\ Take(n) /\ epSeen[n] # NoEndpoint /\ invSeen[n] = NoStatus
    /\ UNCHANGED vars

FillStatus ==
    /\ worker.stage = "status" /\ worker' = Idle
    /\ LET n == worker.name IN
       \/ /\ "endpoint" \in current[n]
          /\ Store(n, [inv[n] EXCEPT !.ip = worker.endpoint.ip, !.type = "hostendpoint"], {})
          /\ UNCHANGED <<epDue, excuse, mishaps>>
       \/ /\ IF "endpoint" \in current[n] THEN Mishap ELSE UNCHANGED mishaps
          /\ epDue' = epDue \cup {n} /\ Excuse(n, "half") /\ UNCHANGED <<inv, current>>
    /\ UNCHANGED <<ep, views, sshDue, ssh, poll, cache, blind, creates>>

-----------------------------------------------------------------------------
(* The SSHStatus controller                                                 *)

TakeSSH(n) == ssh[n] = Idle /\ n \in sshDue

SSHGone(n) ==
    /\ TakeSSH(n) /\ invSeen[n] = NoStatus
    /\ sshDue' = sshDue \ {n} /\ cache' = [cache EXCEPT ![n] = NoEntry]
    /\ UNCHANGED <<api, views, current, epDue, worker, ssh, poll, blind, excuse,
                   creates, mishaps>>

\* An object that has an address is not processed.
SSHSkip(n) ==
    /\ TakeSSH(n) /\ invSeen[n] # NoStatus /\ invSeen[n].ip # Unset
    /\ sshDue' = sshDue \ {n}
    /\ UNCHANGED <<api, views, current, epDue, worker, ssh, poll, cache, blind, excuse,
                   creates, mishaps>>

\* A leased address brings the name of its Subnet into the object, with the
\* copy that processSSHStatus was handed; a failure is only logged.
updateSubnetName(n, entry) ==
    IF entry.ip \in Leased /\ "view" \in current[n]
    THEN Store(n, [inv[n] EXCEPT !.ip = entry.ip, !.type = "hostendpoint"], {})
    ELSE UNCHANGED <<inv, current>>

\* Mutant: the host is not added to the cache.
processSSHStatusNoAdd(n) ==
    /\ TakeSSH(n) /\ invSeen[n] # NoStatus /\ invSeen[n].ip = Unset
    /\ epSeen[n] # NoEndpoint
    /\ LET entry == [owner |-> invSeen[n].owner, ip |-> epSeen[n].ip] IN
          /\ ssh' = [ssh EXCEPT ![n] = [stage |-> "collect", entry |-> entry]]
          /\ updateSubnetName(n, entry)
    /\ sshDue' = sshDue \ {n}
    /\ UNCHANGED <<ep, views, epDue, worker, poll, cache, blind, excuse, creates, mishaps>>

\* processSSHStatus takes the address from the owner, reads the secret and
\* adds the host to the cache; the first collection follows.
processSSHStatus(n) ==
    /\ TakeSSH(n) /\ invSeen[n] # NoStatus /\ invSeen[n].ip = Unset
    /\ epSeen[n] # NoEndpoint
    /\ LET entry == [owner |-> invSeen[n].owner, ip |-> epSeen[n].ip] IN
          /\ ssh' = [ssh EXCEPT ![n] = [stage |-> "collect", entry |-> entry]]
          /\ cache' = [cache EXCEPT ![n] = entry]
          /\ updateSubnetName(n, entry)
    /\ sshDue' = sshDue \ {n}
    /\ UNCHANGED <<ep, views, epDue, worker, poll, blind, excuse, creates, mishaps>>

\* The owner is not found or the secret cannot be read: again in five seconds.
processSSHStatusFails(n) ==
    /\ TakeSSH(n) /\ invSeen[n] # NoStatus /\ invSeen[n].ip = Unset
    /\ UNCHANGED vars

\* UpdateSSHStatusInfo: the object as the informer shows it is written back
\* with what was collected; one without an address gets the entry's.
UpdateSSHStatusInfo(n, entry) ==
    /\ invSeen[n] # NoStatus /\ "view" \in current[n]
    /\ IF inv[n].ip = Unset /\ entry.owner # inv[n].owner
       THEN Excuse(n, "older") ELSE UNCHANGED excuse
    /\ Store(n, [inv[n] EXCEPT !.collected = TRUE,
                               !.ip = IF @ = Unset THEN entry.ip ELSE @,
                               !.type = IF inv[n].ip = Unset THEN "hostendpoint" ELSE @], {})
    /\ UNCHANGED mishaps

UpdateSSHStatusInfoFails(n) ==
    /\ IF invSeen[n] = NoStatus \/ "view" \notin current[n] THEN UNCHANGED mishaps ELSE Mishap
    /\ UNCHANGED <<inv, current, excuse>>

\* The collection that ends processSSHStatus; a failure is tried again in
\* five seconds.
CollectFirst(n) ==
    /\ ssh[n].stage = "collect" /\ ssh' = [ssh EXCEPT ![n] = Idle]
    /\ \/ UpdateSSHStatusInfo(n, ssh[n].entry) /\ UNCHANGED sshDue
       \/ UpdateSSHStatusInfoFails(n) /\ sshDue' = sshDue \cup {n}
    /\ UNCHANGED <<ep, views, epDue, worker, poll, cache, blind, creates>>

\* The ticker's goroutine goes through a copy of the cache.
Tick(n) ==
    /\ poll = Idle /\ cache[n] # NoEntry
    /\ poll' = [stage |-> "collect", name |-> n, entry |-> cache[n]]
    /\ UNCHANGED <<api, views, current, queues, worker, ssh, cache, blind, excuse,
                   creates, mishaps>>

CollectAgain ==
    /\ poll.stage = "collect" /\ poll' = Idle
    /\ \/ UpdateSSHStatusInfo(poll.name, poll.entry)
       \/ UpdateSSHStatusInfoFails(poll.name)
    /\ UNCHANGED <<ep, views, queues, worker, ssh, cache, blind, creates>>

-----------------------------------------------------------------------------
\* The process starts again with an empty memory; every object is queued.
Restart ==
    /\ Mishap
    /\ epSeen' = ep /\ invSeen' = inv /\ current' = [n \in Names |-> {"view"}]
    /\ epDue' = {n \in Names : ep[n] # NoEndpoint}
    /\ sshDue' = {n \in Names : TypeOf[n] = "ssh" /\ inv[n] # NoStatus}
    /\ worker' = Idle /\ ssh' = [n \in Names |-> Idle] /\ poll' = Idle
    /\ cache' = [n \in Names |-> NoEntry]
    /\ excuse' = [n \in Names |-> excuse[n]
                    \cup (IF worker # Idle /\ worker.name = n THEN {"half"} ELSE {})
                    \cup (IF TypeOf[n] = "ssh" /\ inv[n] # NoStatus /\ inv[n].ip # Unset
                          THEN {"restarted"} ELSE {})]
    /\ UNCHANGED <<api, blind, creates>>

EndpointStep(n) ==
    \/ EndpointGone(n) \/ UpdateRedfish(n) \/ UpdateSSH(n) \/ CreateInventory(n)
    \/ CreateFails(n)

SSHStep(n) ==
    \/ SSHGone(n) \/ SSHSkip(n) \/ processSSHStatus(n) \/ processSSHStatusFails(n)
    \/ CollectFirst(n)

Next ==
    \/ \E n \in Names :
          \/ \E r \in Requests : CreateEndpoint(n, r)
          \/ DeleteEndpoint(n) \/ CollectGarbage(n)
          \/ ObserveEndpoint(n) \/ ObserveStatus(n)
          \/ EndpointStep(n) \/ SSHStep(n) \/ Tick(n)
    \/ FillStatus \/ CollectAgain \/ Restart

Spec == Init /\ [][Next]_vars

\* The cluster's controllers and informers go on, the workers take what is
\* queued, and every round of the ticker goes through the whole cache.
Fairness ==
    /\ \A n \in Names :
          /\ WF_vars(CollectGarbage(n))
          /\ WF_vars(ObserveEndpoint(n)) /\ WF_vars(ObserveStatus(n))
          /\ WF_vars(EndpointStep(n))
          /\ TypeOf[n] = "ssh" => WF_vars(SSHStep(n)) /\ SF_vars(Tick(n))
    /\ WF_vars(FillStatus) /\ WF_vars(CollectAgain)

FairSpec == Spec /\ Fairness

-----------------------------------------------------------------------------
(* Properties                                                               *)

CompleteSpec(spec) ==
    /\ spec.https \in {"on", "off"} /\ spec.port # 0
    /\ spec.secretName \in Secrets \/ spec.secretName = spec.secretNamespace

Uids == 1..MaxCreates
Statuses ==
    [owner : Uids, ip : Addresses \cup {Unset}, type : {Unset, "hostendpoint", "ssh"},
     collected : BOOLEAN]
Entries == [owner : Uids, ip : Addresses]

\* Every variable holds what its declaration says.  A stored endpoint has a
\* port, which the controllers dereference, and a whole secret reference or
\* none (hostendpoint/controller.go:308, webhook.go:171-181).
TypeOK ==
    /\ \A n \in Names : \A e \in {ep[n], epSeen[n]} :
          e # NoEndpoint => e.uid \in Uids /\ e.ip \in Addresses /\ CompleteSpec(e.spec)
    /\ inv \in [Names -> Statuses \cup {NoStatus}]
    /\ invSeen \in [Names -> Statuses \cup {NoStatus}]
    /\ current \in [Names -> SUBSET {"view", "endpoint"}]
    /\ epDue \subseteq Names /\ sshDue \subseteq {n \in Names : TypeOf[n] = "ssh"}
    /\ worker.stage \in {"idle", "status"} /\ poll.stage \in {"idle", "collect"}
    /\ \A n \in Names : ssh[n].stage \in {"idle", "collect"}
    /\ cache \in [Names -> Entries \cup {NoEntry}]

\* Two endpoints have the same address only when one of them was admitted
\* before the informer showed the other (webhook/hostendpoint/webhook.go:131).
SharedOnlyIfUnseen ==
    \A n, m \in Names :
        n # m /\ ep[n] # NoEndpoint /\ ep[m] # NoEndpoint /\ ep[n].ip = ep[m].ip
            => n \in blind \/ m \in blind

\* Once nothing changes every endpoint has an inventory object of its own with
\* its address, unless the request for the status failed after the one that
\* created the object ("half"), the worker took the object of an earlier
\* endpoint of this name for its own ("adopted"), or a collection for the
\* earlier one filled the new object ("older").
AddressFollows ==
    <>[](\A n \in Names :
            ep[n] # NoEndpoint /\ excuse[n] \cap {"half", "adopted", "older"} = {}
                => inv[n] # NoStatus /\ inv[n].owner = ep[n].uid /\ inv[n].ip = ep[n].ip)

\* The cache that the ticker goes through settles to the SSH hosts there are:
\* each is in it with its address and its data was collected, unless the agent
\* restarted since the address was known or the HostEndpoint worker wrote it
\* first; and a host that is gone is not polled for ever.
PolledFollows ==
    <>[](\A n \in Names :
            /\ ep[n] # NoEndpoint /\ excuse[n] = {} /\ TypeOf[n] = "ssh"
                => /\ inv[n] # NoStatus /\ inv[n].collected
                   /\ cache[n] # NoEntry /\ cache[n].ip = ep[n].ip
            /\ inv[n] = NoStatus => cache[n] = NoEntry)

\* "Subsequent updates are handled by UpdateSSHStatusAtInterval"
\* (ssh_status_reconcile.go:303): a host with an address is in its cache again
\* and again.
UpdatedAtInterval ==
    \A n \in Names : []<>(TypeOf[n] = "ssh" /\ inv[n] # NoStatus /\ inv[n].ip # Unset
                            => cache[n] # NoEntry)
================================================================================
