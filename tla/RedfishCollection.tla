--------------------------- MODULE RedfishCollection ---------------------------
(***************************************************************************)
(* How the agent learns what a BMC says, for one RedfishStatus object.      *)
(*                                                                          *)
(* Three goroutines run UpdateRedfishStatusInfo for the object: the worker  *)
(* of the RedfishStatus controller, the ticker of                           *)
(* UpdateRedfishStatusAtInterval, and the worker of the secret controller   *)
(* through UpdateSecret.  They share the credentials cache                  *)
(* (redfishstatus/data), the lock of the object (pkg/lock) and the object    *)
(* itself, which each of them reads from the informer and writes back with  *)
(* the version it read.                                                     *)
(*                                                                          *)
(* A session with the BMC lasts as long as the account it was opened with,  *)
(* so reusing one of CacheClient and opening a new one show the same.       *)
(* The credentials are versions: version v of the secret holds user v and   *)
(* password v, so a cache entry whose two fields differ is torn.  Creating, *)
(* filling and deleting the object is the work of the HostEndpoint worker   *)
(* and of the DHCP events, modelled in EndpointInventory and                *)
(* DhcpClientSync; here they are steps of the environment.                  *)
(***************************************************************************)
EXTENDS Integers, Sequences, FiniteSets

CONSTANTS
    MaxSecret,      \* how often the secret, and the BMC's account, change
    Created,        \* Created[e]: the time stamp of the BMC's e-th log entry
    MaxObjects,     \* how often the object is created
    MaxMishaps      \* how often a request fails, the BMC goes away or the
                    \* agent restarts

ASSUME BoundsAssumption ==
    /\ {MaxSecret, MaxObjects, MaxMishaps} \subseteq Nat
    /\ Created \in Seq(Nat \ {0})
    /\ \A e, f \in DOMAIN Created : e <= f => Created[e] <= Created[f]

Entries == DOMAIN Created
Times == {0} \cup {Created[e] : e \in Entries}
Actors == {"reconcile", "interval", "secret"}

Nothing == [user |-> -1, pass |-> -1]
Creds(v) == [user |-> v, pass |-> v]

\* A status: filled says whether status.basic is set, info whether the
\* status.info map has entries, last is the time of status.log.lastestLog.
Blank == [filled |-> FALSE, healthy |-> FALSE, info |-> FALSE, last |-> 0]
NoObject == [Blank EXCEPT !.last = -1]

VARIABLES
    \* the API server and the BMC
    secret,         \* the version the secret holds
    obj,            \* the stored object
    accepts,        \* the version the BMC accepts
    up,             \* whether the BMC answers
    log,            \* the number of entries in the BMC's log
    \* what the informers show, and the work queues
    secretSeen, secretDue,
    view, due,
    current,        \* the copies that carry the stored object's version
    \* the agent's memory
    cache,          \* RedfishCacheDatabase's entry for the object
    mutex,          \* LockManagerInstance.locks' entry: 0, or a mutex
    holder,         \* who holds each mutex
    pc, creds, mx, new,     \* of each goroutine: place and local variables
    \* observers
    events,         \* how often each log entry was recorded, 2 for more
    overtaken,      \* Add stored a secret older than the one last spread
    raced,          \* two goroutines were making the object's mutex
    budget          \* what is left of the bounds

env == <<secret, obj, accepts, up, log>>
seen == <<secretSeen, secretDue, view, due, current>>
lock == <<mutex, holder>>
local == <<pc, creds, mx, new>>
ghosts == <<events, overtaken, raced>>
vars == <<env, seen, cache, lock, local, ghosts, budget>>

Init ==
    /\ secret = 0 /\ obj = NoObject /\ accepts \in {0, MaxSecret}
    /\ up = TRUE /\ log = 0
    /\ secretSeen = 0 /\ secretDue = TRUE /\ view = NoObject /\ due = FALSE /\ current = {"view"}
    /\ cache = Nothing /\ mutex = 0
    /\ holder = [m \in 1..Cardinality(Actors) |-> "none"]
    /\ pc = [a \in Actors |-> "idle"] /\ creds = [a \in Actors |-> Nothing]
    /\ mx = [a \in Actors |-> 0] /\ new = [a \in Actors |-> NoObject]
    /\ events = [e \in Entries |-> 0] /\ overtaken = FALSE /\ raced = FALSE
    /\ budget = [objects |-> MaxObjects, mishaps |-> MaxMishaps]

Spend(b) == budget[b] > 0 /\ budget' = [budget EXCEPT ![b] = @ - 1]
Mishap == Spend("mishaps")

-----------------------------------------------------------------------------
(* The environment                                                          *)

\* A write of the object: nobody else's copy is up to date any more.
Store(o) == obj' = o /\ current' = {}

CreateObject ==
    /\ obj = NoObject /\ Spend("objects") /\ Store(Blank)
    /\ UNCHANGED <<secret, accepts, up, log, secretSeen, secretDue, view, due,
                   cache, lock, local, ghosts>>

FillObject ==
    /\ obj # NoObject /\ ~obj.filled /\ Store([obj EXCEPT !.filled = TRUE])
    /\ UNCHANGED <<secret, accepts, up, log, secretSeen, secretDue, view, due,
                   cache, lock, local, ghosts, budget>>

DeleteObject ==
    /\ obj # NoObject /\ Store(NoObject)
    /\ UNCHANGED <<secret, accepts, up, log, secretSeen, secretDue, view, due,
                   cache, lock, local, ghosts, budget>>

ChangeSecret ==
    /\ secret < MaxSecret /\ secret' = secret + 1
    /\ UNCHANGED <<obj, accepts, up, log, seen, cache, lock, local, ghosts, budget>>

\* The BMC's account changes, which ends the sessions it has.
ChangeAccount ==
    /\ accepts < MaxSecret /\ accepts' = accepts + 1
    /\ UNCHANGED <<secret, obj, up, log, seen, cache, lock, local, ghosts, budget>>

GoDown ==
    /\ up /\ Mishap /\ up' = FALSE
    /\ UNCHANGED <<secret, obj, accepts, log, seen, cache, lock, local, ghosts>>

ComeUp ==
    /\ ~up /\ up' = TRUE
    /\ UNCHANGED <<secret, obj, accepts, log, seen, cache, lock, local, ghosts, budget>>

WriteLog ==
    /\ log < Len(Created) /\ log' = log + 1
    /\ UNCHANGED <<secret, obj, accepts, up, seen, cache, lock, local, ghosts, budget>>

ObserveObject ==
    /\ "view" \notin current
    /\ view' = obj /\ due' = TRUE /\ current' = current \cup {"view"}
    /\ UNCHANGED <<env, secretSeen, secretDue, cache, lock, local, ghosts, budget>>

\* The secret controller's predicate lets labelled secrets through; the
\* secret modelled here carries the label.
ObserveSecret ==
    /\ secretSeen # secret
    /\ secretSeen' = secret /\ secretDue' = TRUE
    /\ UNCHANGED <<env, view, due, current, cache, lock, local, ghosts, budget>>

-----------------------------------------------------------------------------
(* Moves of one goroutine                                                   *)

Goto(a, place) == pc' = [pc EXCEPT ![a] = place]

Leave(a) ==
    /\ Goto(a, "idle") /\ creds' = [creds EXCEPT ![a] = Nothing]
    /\ mx' = [mx EXCEPT ![a] = 0] /\ new' = [new EXCEPT ![a] = NoObject]

\* Only the RedfishStatus controller tries again, after two seconds.
Fail(a) == Leave(a) /\ due' = (due \/ a = "reconcile")

\* The write lock of the cache is free unless UpdateSecet is under way.
CacheFree == pc["secret"] # "pass"

\* Get or GetAll copies the cache entry, then GetLock looks for the mutex.
Begin(a) ==
    /\ creds' = [creds EXCEPT ![a] = cache]
    /\ mx' = [mx EXCEPT ![a] = mutex]
    /\ Goto(a, IF mutex = 0 THEN "make" ELSE "wait")

-----------------------------------------------------------------------------
(* The RedfishStatus controller                                             *)

\* The object is gone, or it has no status yet.
ReconcileNothing ==
    /\ pc["reconcile"] = "idle" /\ due /\ due' = FALSE
    /\ \/ view = NoObject /\ CacheFree /\ cache' = Nothing
       \/ view # NoObject /\ ~view.filled /\ UNCHANGED cache
    /\ UNCHANGED <<env, secretSeen, secretDue, view, current, lock, local, ghosts, budget>>

\* processRedfishStatus begins with getSecretData, which asks the API server.
Reconcile ==
    /\ pc["reconcile"] = "idle" /\ due /\ view # NoObject /\ view.filled
    /\ \/ /\ due' = FALSE /\ Goto("reconcile", "add")
          /\ new' = [new EXCEPT !["reconcile"] = view]
          /\ creds' = [creds EXCEPT !["reconcile"] = Creds(secret)]
          /\ UNCHANGED <<mx, budget>>
       \/ Mishap /\ UNCHANGED <<due, local>>
    /\ UNCHANGED <<env, secretSeen, secretDue, view, current, cache, lock, ghosts>>

\* Mutant: Add without the write lock of the cache.
AddUnlocked ==
    /\ pc["reconcile"] = "add"
    /\ cache' = creds["reconcile"]
    /\ overtaken' = (cache'.user < secretSeen)
    /\ IF new["reconcile"].info THEN Leave("reconcile")
       ELSE Goto("reconcile", "get") /\ UNCHANGED <<creds, mx, new>>
    /\ UNCHANGED <<env, seen, lock, events, raced, budget>>

\* processRedfishStatus stores what it read; the first collection follows
\* when the object it was handed has no info yet.
Add ==
    /\ pc["reconcile"] = "add" /\ CacheFree
    /\ cache' = creds["reconcile"]
    /\ overtaken' = (cache'.user < secretSeen)
    /\ IF new["reconcile"].info THEN Leave("reconcile")
       ELSE Goto("reconcile", "get") /\ UNCHANGED <<creds, mx, new>>
    /\ UNCHANGED <<env, seen, lock, events, raced, budget>>

-----------------------------------------------------------------------------
(* The ticker and the secret controller                                     *)

Tick ==
    /\ pc["interval"] = "idle" /\ cache # Nothing /\ Begin("interval")
    /\ UNCHANGED <<env, seen, cache, lock, new, ghosts, budget>>

\* Mutant: the comparison is turned round.
UpdateSecetWhenEqual ==
    /\ pc["secret"] = "idle" /\ secretDue /\ secretDue' = FALSE
    /\ IF cache # Creds(secretSeen)
       THEN UNCHANGED <<cache, pc, creds>>
       ELSE /\ Goto("secret", "pass") /\ UNCHANGED cache
            /\ creds' = [creds EXCEPT !["secret"] = Creds(secretSeen)]
    /\ UNCHANGED <<env, secretSeen, view, due, current, lock, mx, new, ghosts, budget>>

\* Mutant: an entry is made for a host the cache does not have.
UpdateSecetOrAdd ==
    /\ pc["secret"] = "idle" /\ secretDue /\ secretDue' = FALSE
    /\ cache' = [cache EXCEPT !.user = secretSeen]
    /\ Goto("secret", "pass")
    /\ creds' = [creds EXCEPT !["secret"] = Creds(secretSeen)]
    /\ UNCHANGED <<env, secretSeen, view, due, current, lock, mx, new, ghosts, budget>>

\* UpdateSecet sets the user and then the password of the entry, under the
\* read lock of the cache: readers of the entry may run in between.
UpdateSecetUser ==
    /\ pc["secret"] = "idle" /\ secretDue /\ secretDue' = FALSE
    /\ IF cache = Nothing \/ cache = Creds(secretSeen)
       THEN UNCHANGED <<cache, pc, creds>>
       ELSE /\ cache' = [cache EXCEPT !.user = secretSeen]
            /\ Goto("secret", "pass")
            /\ creds' = [creds EXCEPT !["secret"] = Creds(secretSeen)]
    /\ UNCHANGED <<env, secretSeen, view, due, current, lock, mx, new, ghosts, budget>>

UpdateSecetPass ==
    /\ pc["secret"] = "pass"
    /\ cache' = [cache EXCEPT !.pass = creds["secret"].pass]
    /\ overtaken' = (overtaken /\ cache'.user < secretSeen)
    /\ Goto("secret", "get")
    /\ UNCHANGED <<env, seen, lock, creds, mx, new, events, raced, budget>>

-----------------------------------------------------------------------------
(* UpdateRedfishStatusInfoWrapper and UpdateRedfishStatusInfo               *)

\* UpdateRedfishStatusInfoWrapper for one name.
Get(a) ==
    /\ pc[a] = "get"
    /\ \/ /\ cache = Nothing /\ Fail(a)
       \/ cache # Nothing /\ Begin(a) /\ UNCHANGED <<new, due>>
    /\ UNCHANGED <<env, secretSeen, secretDue, view, current, cache, lock, ghosts, budget>>

\* Mutant: GetLock without the map: a new mutex for every caller.
GetLockOwn(a) ==
    /\ pc[a] = "make"
    /\ mutex' = 0
    /\ mx' = [mx EXCEPT ![a] = CHOOSE m \in DOMAIN holder : \A b \in Actors : mx[b] # m]
    /\ UNCHANGED raced
    /\ Goto(a, "wait")
    /\ UNCHANGED <<env, seen, cache, holder, creds, new, events, overtaken, budget>>

\* GetLock writes the map it only holds a read lock on: another goroutine
\* may have found the name missing too, and the later mutex replaces the
\* earlier one in the map.
GetLock(a) ==
    /\ pc[a] = "make"
    /\ mutex' = mutex + 1 /\ mx' = [mx EXCEPT ![a] = mutex']
    /\ raced' = (raced \/ \E b \in Actors \ {a} : pc[b] = "make")
    /\ Goto(a, "wait")
    /\ UNCHANGED <<env, seen, cache, holder, creds, new, events, overtaken, budget>>

Unlock(a) == holder' = [holder EXCEPT ![mx[a]] = "none"]

\* Mutant: only the first entry of the log is looked at.
GenerateEventOfFirst(last) ==
    events' = [e \in Entries |->
                  IF e = log /\ Created[e] # last /\ events[e] < 2
                  THEN events[e] + 1 ELSE events[e]]

\* GenerateEvents records every entry but those with the time of the latest
\* one known.
GenerateEvents(last) ==
    events' = [e \in Entries |->
                  IF e <= log /\ Created[e] # last /\ events[e] < 2
                  THEN events[e] + 1 ELSE events[e]]

compareRedfishStatus(s, t) == s.healthy = t.healthy /\ s.info = t.info

\* The lock is free for the goroutine: it goes on with NewClient.
Locked(a) == pc[a] = "wait" /\ holder[mx[a]] = "none"

\* NewClient reaches the BMC with these credentials.
Connects(a) == up /\ creds[a] = Creds(accepts)

\* The object is gone: Get from the informer fails.
CollectGone(a) ==
    /\ Locked(a) /\ view = NoObject /\ Fail(a)
    /\ UNCHANGED <<env, secretSeen, secretDue, view, current, cache, lock, ghosts, budget>>

\* What UpdateRedfishStatusInfo makes of the copy it read.  When GetInfo
\* fails the info is emptied, and the healthy flag stays as NewClient set it.
Updated(a, gotInfo, gotLog) ==
    [view EXCEPT !.healthy = Connects(a), !.info = gotInfo,
                 !.last = IF gotLog /\ log > 0 THEN Created[log] ELSE @]

\* NewClient, Get from the informer, GetInfo, GetLog with its events, and the
\* comparison; the requests to a BMC that was reached may still fail.
Collect(a) ==
    /\ Locked(a) /\ view # NoObject
    /\ \E gotInfo, gotLog \in BOOLEAN :
          /\ gotInfo => Connects(a)
          /\ gotLog => gotInfo
          /\ IF Connects(a) /\ ~gotLog THEN Mishap ELSE UNCHANGED budget
          /\ IF gotLog THEN GenerateEvents(view.last) ELSE UNCHANGED events
          /\ IF compareRedfishStatus(Updated(a, gotInfo, gotLog), view)
             THEN Leave(a) /\ UNCHANGED <<holder, current>>
             ELSE /\ Goto(a, "write")
                  /\ new' = [new EXCEPT ![a] = Updated(a, gotInfo, gotLog)]
                  /\ holder' = [holder EXCEPT ![mx[a]] = a]
                  /\ current' = IF "view" \in current THEN current \cup {a} ELSE current
                  /\ creds' = [creds EXCEPT ![a] = Nothing] /\ UNCHANGED mx
    /\ UNCHANGED <<env, secretSeen, secretDue, view, due, cache, mutex, overtaken, raced>>

\* Mutant: a write that does not compare versions.
WriteAnyVersion(a) ==
    /\ pc[a] = "write" /\ obj # NoObject
    /\ Store(new[a]) /\ Unlock(a) /\ Leave(a)
    /\ UNCHANGED <<secret, accepts, up, log, secretSeen, secretDue, view, due,
                   cache, mutex, ghosts, budget>>

\* Status().Update succeeds only on the version that was read.
Write(a) ==
    /\ pc[a] = "write" /\ a \in current
    /\ Store(new[a]) /\ Unlock(a) /\ Leave(a)
    /\ UNCHANGED <<secret, accepts, up, log, secretSeen, secretDue, view, due,
                   cache, mutex, ghosts, budget>>

WriteFails(a) ==
    /\ pc[a] = "write"
    /\ \/ a \notin current /\ UNCHANGED budget
       \/ a \in current /\ Mishap
    /\ current' = current \ {a} /\ Unlock(a) /\ Fail(a)
    /\ UNCHANGED <<env, secretSeen, secretDue, view, cache, mutex, ghosts>>

-----------------------------------------------------------------------------
\* The process ends and starts again, here or as the new leader elsewhere:
\* its cache is empty and every object is reconciled.
Restart ==
    /\ Mishap
    /\ cache' = Nothing /\ mutex' = 0
    /\ holder' = [m \in DOMAIN holder |-> "none"]
    /\ pc' = [a \in Actors |-> "idle"] /\ creds' = [a \in Actors |-> Nothing]
    /\ mx' = [a \in Actors |-> 0] /\ new' = [a \in Actors |-> NoObject]
    /\ view' = obj /\ current' = {"view"} /\ due' = (obj # NoObject)
    /\ secretSeen' = secret /\ secretDue' = TRUE
    /\ UNCHANGED <<env, ghosts>>

Unblocked(a) == Get(a) \/ GetLock(a) \/ Write(a) \/ WriteFails(a)
Blocking(a) == CollectGone(a) \/ Collect(a)

Next ==
    \/ CreateObject \/ FillObject \/ DeleteObject \/ ChangeSecret \/ ChangeAccount
    \/ GoDown \/ ComeUp \/ WriteLog \/ ObserveObject \/ ObserveSecret
    \/ ReconcileNothing \/ Reconcile \/ Add \/ Tick \/ UpdateSecetUser \/ UpdateSecetPass
    \/ \E a \in Actors : Unblocked(a) \/ Blocking(a)
    \/ Restart

Spec == Init /\ [][Next]_vars

\* Informers deliver, queued work is taken, the ticker fires, a goroutine
\* goes on; a waiting goroutine gets its mutex in the end (Go's mutexes do
\* not starve a waiter).
Fairness ==
    /\ WF_vars(ObserveObject) /\ WF_vars(ObserveSecret)
    /\ WF_vars(ReconcileNothing) /\ WF_vars(Reconcile) /\ WF_vars(Add)
    /\ WF_vars(Tick) /\ WF_vars(UpdateSecetUser) /\ WF_vars(UpdateSecetPass)
    /\ \A a \in Actors : WF_vars(Unblocked(a)) /\ SF_vars(Blocking(a))

FairSpec == Spec /\ Fairness

-----------------------------------------------------------------------------
(* Properties                                                               *)

Status == [filled : BOOLEAN, healthy : BOOLEAN, info : BOOLEAN, last : Times]
Pairs == [user : 0..MaxSecret, pass : 0..MaxSecret] \cup {Nothing}
Places == {"idle", "add", "pass", "get", "make", "wait", "write"}

\* Every variable holds what its declaration says.
TypeOK ==
    /\ {secret, accepts, secretSeen} \subseteq 0..MaxSecret
    /\ {obj, view} \subseteq Status \cup {NoObject}
    /\ {up, secretDue, due, overtaken, raced} \subseteq BOOLEAN
    /\ log \in 0..Len(Created)
    /\ current \subseteq {"view"} \cup Actors
    /\ {cache} \subseteq Pairs
    /\ mutex \in 0..Cardinality(Actors)
    /\ holder \in [1..Cardinality(Actors) -> Actors \cup {"none"}]
    /\ pc \in [Actors -> Places] /\ creds \in [Actors -> Pairs]
    /\ mx \in [Actors -> 0..Cardinality(Actors)]
    /\ new \in [Actors -> Status \cup {NoObject}]
    /\ events \in [Entries -> 0..2]

\* A user and a password of different versions are together in the cache only
\* while UpdateSecet is between its two assignments (data/cache.go:112-119).
NeverTorn == cache # Nothing /\ cache.user # cache.pass => pc["secret"] = "pass"

\* Two goroutines are inside UpdateRedfishStatusInfo's locked part at once
\* only after both had found the lock table without the object
\* (lock/lockByID.go:20-26).
OneCollector ==
    Cardinality({a \in Actors : pc[a] = "write"}) > 1 => raced

\* The newest log entry the object names never goes back in time while the
\* object lives: a slower collection does not undo a later one.
LogForward ==
    [][obj # NoObject /\ obj' # NoObject => obj'.last >= obj.last]_vars

\* The BMC can be reached with what the labelled secret holds.
Reachable == obj.filled /\ up /\ secret = accepts

\* Once nothing changes, a BMC that accepts the secret is shown healthy and
\* with its info, unless a reconciliation overtaken by the secret's last
\* change has put the old credentials back into the cache
\* (redfish_status_reconcile.go:254-268); and the credentials of a deleted
\* object have left the cache.
HealthFollows ==
    <>[](/\ Reachable /\ ~overtaken => obj.healthy /\ obj.info
         /\ obj = NoObject => cache = Nothing)

\* Every entry of the log of such a BMC has been recorded as an event, except
\* one that carries the same time stamp as an earlier one.
LogReported ==
    <>[](Reachable /\ ~overtaken =>
            \A e \in 1..log : events[e] > 0 \/ \E f \in 1..(e - 1) : Created[f] = Created[e])

================================================================================
