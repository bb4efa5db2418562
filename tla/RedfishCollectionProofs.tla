----------------------- MODULE RedfishCollectionProofs -----------------------
(***************************************************************************)
(* Theorems about RedfishCollection, for any number of changes, mishaps    *)
(* and log entries. The inductive invariant is CollectionInv.              *)
(***************************************************************************)
EXTENDS RedfishCollection, FiniteSetTheorems, TLAPS

\* The time of the newest entry in the BMC's log.
Newest == IF log = 0 THEN 0 ELSE Created[log]

\* What UpdateSecet and Add are going to store are credentials of one version:
\* the user UpdateSecet has stored is of the version of the password to come,
\* and nobody replaces the entry meanwhile.
OneVersion ==
    /\ pc["secret"] = "pass" =>
          /\ cache # Nothing /\ creds["secret"] # Nothing
          /\ cache.user = creds["secret"].pass
    /\ pc["reconcile"] = "add" =>
          /\ creds["reconcile"] # Nothing
          /\ creds["reconcile"].user = creds["reconcile"].pass

\* 1 while a is about to make a mutex.
Making(a) == IF pc[a] = "make" THEN 1 ELSE 0

\* A goroutine goes to make a mutex only as long as there is none, so that
\* there are never more mutexes than goroutines; one that writes holds the
\* mutex it took.
Mutexes ==
    /\ mutex + Making("reconcile") + Making("interval") + Making("secret") <= 3
    /\ \A a \in Actors :
          /\ pc[a] \in {"wait", "write"} => mx[a] # 0
          /\ pc[a] = "write" => holder[mx[a]] = a

\* Unless two goroutines raced in GetLock there is one mutex, and everybody
\* uses it.
OneMutex ==
    ~raced =>
        \A a \in Actors :
            /\ mutex # 0 => pc[a] # "make"
            /\ pc[a] \in {"wait", "write"} => mx[a] = mutex

\* A copy that carries the version of the stored object is not behind it.
Copies ==
    /\ "view" \in current => view = obj
    /\ \A a \in Actors \cap current :
          pc[a] = "write" /\ obj # NoObject /\ new[a].last >= obj.last

\* No copy of the object names an entry the log does not have yet.
NotAhead ==
    /\ obj.last <= Newest /\ view.last <= Newest
    /\ \A a \in Actors : new[a].last <= Newest

CollectionInv ==
    /\ TypeOK
    /\ OneVersion
    /\ Mutexes
    /\ OneMutex
    /\ Copies
    /\ NotAhead
    /\ NeverTorn

-----------------------------------------------------------------------------
(* Facts about the goroutines and the statuses                               *)

\* There are three goroutines that collect.
LEMMA ActorsCount == Cardinality(Actors) = 3
<1>1. IsFiniteSet({}) /\ Cardinality({}) = 0
  BY FS_EmptySet
<1>2. IsFiniteSet({"secret"}) /\ Cardinality({"secret"}) = 1
  BY FS_Singleton
<1>3. {"interval", "secret"} = {"secret"} \cup {"interval"}
  OBVIOUS
<1>4. IsFiniteSet({"interval", "secret"}) /\ Cardinality({"interval", "secret"}) = 2
  <2>1. "interval" \notin {"secret"}
    OBVIOUS
  <2> QED
    BY <1>2, <1>3, <2>1, FS_AddElement
<1>5. Actors = {"interval", "secret"} \cup {"reconcile"}
  BY DEF Actors
<1> QED
  <2>1. "reconcile" \notin {"interval", "secret"}
    OBVIOUS
  <2> QED
    BY <1>4, <1>5, <2>1, FS_AddElement

\* The time of the newest entry is a time, and not one before the times of
\* earlier states.
LEMMA NewestGrows ==
    ASSUME log \in 0..Len(Created), log' \in 0..Len(Created), log <= log'
    PROVE  Newest \in Nat /\ Newest' \in Nat /\ Newest <= Newest'
<1>1. ASSUME NEW e \in 1..Len(Created)
      PROVE  e \in DOMAIN Created /\ Created[e] \in Nat
  BY <1>1, BoundsAssumption
<1>2. Newest \in Nat /\ Newest' \in Nat
  BY <1>1 DEF Newest
<1>3. CASE log = 0
  BY <1>2, <1>3 DEF Newest
<1>4. CASE log # 0
  <2>1. log \in DOMAIN Created /\ log' \in DOMAIN Created
    BY <1>1, <1>4
  <2>2. Created[log] <= Created[log']
    BY <2>1, BoundsAssumption
  <2>3. log' # 0
    BY <1>4
  <2> QED
    BY <1>2, <1>4, <2>2, <2>3 DEF Newest
<1> QED
  BY <1>2, <1>3, <1>4

\* The time a copy of the object names is a number; no object is before all.
LEMMA LastIsInt ==
    ASSUME NEW x \in Status \cup {NoObject}
    PROVE  x.last \in Int
<1>1. Times \subseteq Int
  BY BoundsAssumption DEF Times, Entries
<1>2. NoObject.last = -1
  BY DEF NoObject, Blank
<1>3. CASE x \in Status
  BY <1>1, <1>3 DEF Status
<1>4. CASE x = NoObject
  BY <1>2, <1>4
<1> QED
  BY <1>3, <1>4

\* An object that does not exist names no entry of the log.
LEMMA NoObjectIsFirst == NoObject.last = -1
  BY DEF NoObject, Blank

-----------------------------------------------------------------------------
(* Every step keeps the invariant                                            *)

\* Whoever writes the object makes every copy of it stale.
LEMMA ObjectKeepsInv ==
    ASSUME CollectionInv, CreateObject \/ FillObject \/ DeleteObject
    PROVE  CollectionInv'
<1> USE BoundsAssumption, ActorsCount DEF CollectionInv, TypeOK
<1>1. ASSUME CreateObject
      PROVE  CollectionInv'
  <2>1. TypeOK'
    <3>1. obj' \in Status \cup {NoObject}
      BY <1>1 DEF CreateObject, Spend, Store, lock, local, ghosts, Status, NoObject,
         Blank, Times
    <3>2. current' \subseteq {"view"} \cup Actors
      BY <1>1 DEF CreateObject, Spend, Store, lock, local, ghosts
    <3> QED
      BY <1>1, <3>1, <3>2 DEF CreateObject, Spend, Store, lock, local, ghosts
  <2>2. Copies'
    BY <1>1, <2>1 DEF CreateObject, Spend, Store, lock, local, ghosts, Copies
  <2>3. NotAhead'
    BY <1>1, <2>1 DEF CreateObject, Spend, Store, lock, local, ghosts, NotAhead, Newest,
       Blank
  <2>4. OneVersion' /\ Mutexes' /\ OneMutex' /\ NeverTorn'
    BY <1>1 DEF CreateObject, Spend, Store, lock, local, ghosts, OneVersion, Mutexes,
       Making, OneMutex, NeverTorn
  <2> QED
    BY <2>1, <2>2, <2>3, <2>4 DEF CollectionInv
<1>2. ASSUME FillObject
      PROVE  CollectionInv'
  <2>1. TypeOK'
    <3>1. obj' \in Status \cup {NoObject}
      BY <1>2 DEF FillObject, Store, lock, local, ghosts, Status, NoObject, Blank, Times
    <3>2. current' \subseteq {"view"} \cup Actors
      BY <1>2 DEF FillObject, Store, lock, local, ghosts
    <3> QED
      BY <1>2, <3>1, <3>2 DEF FillObject, Store, lock, local, ghosts
  <2>2. Copies'
    BY <1>2, <2>1 DEF FillObject, Store, lock, local, ghosts, Copies
  <2>3. NotAhead'
    BY <1>2, <2>1 DEF FillObject, Store, lock, local, ghosts, NotAhead, Newest
  <2>4. OneVersion' /\ Mutexes' /\ OneMutex' /\ NeverTorn'
    BY <1>2 DEF FillObject, Store, lock, local, ghosts, OneVersion, Mutexes, Making,
       OneMutex, NeverTorn
  <2> QED
    BY <2>1, <2>2, <2>3, <2>4 DEF CollectionInv
<1>3. ASSUME DeleteObject
      PROVE  CollectionInv'
  <2>1. TypeOK'
    BY <1>3 DEF DeleteObject, Store, lock, local, ghosts
  <2>2. Copies'
    BY <1>3, <2>1 DEF DeleteObject, Store, lock, local, ghosts, Copies
  <2>3. NotAhead'
    BY <1>3, <2>1 DEF DeleteObject, Store, lock, local, ghosts, NotAhead, Newest,
       NoObject
  <2>4. OneVersion' /\ Mutexes' /\ OneMutex' /\ NeverTorn'
    BY <1>3 DEF DeleteObject, Store, lock, local, ghosts, OneVersion, Mutexes, Making,
       OneMutex, NeverTorn
  <2> QED
    BY <2>1, <2>2, <2>3, <2>4 DEF CollectionInv
<1> QED
  BY <1>1, <1>2, <1>3

\* The secret, the BMC and the informers.
LEMMA EnvironmentKeepsInv ==
    ASSUME CollectionInv, ChangeSecret \/ ChangeAccount \/ GoDown \/ ComeUp \/ WriteLog
           \/ ObserveObject \/ ObserveSecret
    PROVE  CollectionInv'
<1> USE BoundsAssumption, ActorsCount DEF CollectionInv, TypeOK
<1>1. ASSUME ChangeSecret
      PROVE  CollectionInv'
  <2>1. TypeOK'
    BY <1>1 DEF ChangeSecret, seen, lock, local, ghosts
  <2>2. OneVersion' /\ Mutexes' /\ OneMutex' /\ Copies' /\ NotAhead' /\ NeverTorn'
    BY <1>1 DEF ChangeSecret, seen, lock, local, ghosts, OneVersion, Mutexes, Making,
       OneMutex, Copies, NotAhead, Newest, NeverTorn
  <2> QED
    BY <2>1, <2>2 DEF CollectionInv
<1>2. ASSUME ChangeAccount
      PROVE  CollectionInv'
  <2>1. TypeOK'
    BY <1>2 DEF ChangeAccount, seen, lock, local, ghosts
  <2>2. OneVersion' /\ Mutexes' /\ OneMutex' /\ Copies' /\ NotAhead' /\ NeverTorn'
    BY <1>2 DEF ChangeAccount, seen, lock, local, ghosts, OneVersion, Mutexes, Making,
       OneMutex, Copies, NotAhead, Newest, NeverTorn
  <2> QED
    BY <2>1, <2>2 DEF CollectionInv
<1>3. ASSUME GoDown
      PROVE  CollectionInv'
  <2>1. TypeOK'
    BY <1>3 DEF GoDown, Mishap, Spend, seen, lock, local, ghosts
  <2>2. OneVersion' /\ Mutexes' /\ OneMutex' /\ Copies' /\ NotAhead' /\ NeverTorn'
    BY <1>3 DEF GoDown, Mishap, Spend, seen, lock, local, ghosts, OneVersion, Mutexes,
       Making, OneMutex, Copies, NotAhead, Newest, NeverTorn
  <2> QED
    BY <2>1, <2>2 DEF CollectionInv
<1>4. ASSUME ComeUp
      PROVE  CollectionInv'
  <2>1. TypeOK'
    BY <1>4 DEF ComeUp, seen, lock, local, ghosts
  <2>2. OneVersion' /\ Mutexes' /\ OneMutex' /\ Copies' /\ NotAhead' /\ NeverTorn'
    BY <1>4 DEF ComeUp, seen, lock, local, ghosts, OneVersion, Mutexes, Making,
       OneMutex, Copies, NotAhead, Newest, NeverTorn
  <2> QED
    BY <2>1, <2>2 DEF CollectionInv
<1>5. ASSUME WriteLog
      PROVE  CollectionInv'
  <2>1. TypeOK'
    BY <1>5 DEF WriteLog, seen, lock, local, ghosts
  <2>2. NotAhead'
    <3>1. Newest \in Nat /\ Newest' \in Nat /\ Newest <= Newest'
      BY <1>5, <2>1, NewestGrows DEF WriteLog
    <3>2. obj.last \in Int /\ view.last \in Int /\ \A a \in Actors : new[a].last \in Int
      BY LastIsInt
    <3>3. UNCHANGED <<obj, view, new>>
      BY <1>5 DEF WriteLog, seen, local
    <3> QED
      BY SMTT(30), <3>1, <3>2, <3>3 DEF NotAhead
  <2>3. OneVersion' /\ Mutexes' /\ OneMutex' /\ Copies' /\ NeverTorn'
    BY <1>5 DEF WriteLog, seen, lock, local, ghosts, OneVersion, Mutexes, Making,
       OneMutex, Copies, NeverTorn
  <2> QED
    BY <2>1, <2>2, <2>3 DEF CollectionInv
<1>6. ASSUME ObserveObject
      PROVE  CollectionInv'
  <2>1. TypeOK'
    BY <1>6 DEF ObserveObject, env, lock, local, ghosts
  <2>2. Copies'
    BY <1>6, <2>1 DEF ObserveObject, env, lock, local, ghosts, Copies, Actors
  <2>3. NotAhead'
    BY <1>6, <2>1 DEF ObserveObject, env, lock, local, ghosts, NotAhead, Newest
  <2>4. OneVersion' /\ Mutexes' /\ OneMutex' /\ NeverTorn'
    BY <1>6 DEF ObserveObject, env, lock, local, ghosts, OneVersion, Mutexes, Making,
       OneMutex, NeverTorn
  <2> QED
    BY <2>1, <2>2, <2>3, <2>4 DEF CollectionInv
<1>7. ASSUME ObserveSecret
      PROVE  CollectionInv'
  <2>1. TypeOK'
    BY <1>7 DEF ObserveSecret, env, lock, local, ghosts
  <2>2. OneVersion' /\ Mutexes' /\ OneMutex' /\ Copies' /\ NotAhead' /\ NeverTorn'
    BY <1>7 DEF ObserveSecret, env, lock, local, ghosts, OneVersion, Mutexes, Making,
       OneMutex, Copies, NotAhead, Newest, NeverTorn
  <2> QED
    BY <2>1, <2>2 DEF CollectionInv
<1> QED
  BY <1>1, <1>2, <1>3, <1>4, <1>5, <1>6, <1>7

\* The cache is changed by one goroutine at a time.
LEMMA CacheKeepsInv ==
    ASSUME CollectionInv, ReconcileNothing \/ Reconcile \/ Add \/ Tick \/ UpdateSecetUser \/ UpdateSecetPass
    PROVE  CollectionInv'
<1> USE BoundsAssumption, ActorsCount DEF CollectionInv, TypeOK
<1>1. ASSUME ReconcileNothing
      PROVE  CollectionInv'
  <2>1. TypeOK'
    <3>1. cache' \in Pairs
      BY <1>1 DEF ReconcileNothing, CacheFree, env, lock, local, ghosts, Pairs, Nothing,
         Actors, Creds
    <3> QED
      BY <1>1, <3>1 DEF ReconcileNothing, CacheFree, env, lock, local, ghosts
  <2>2. OneVersion'
    BY <1>1, <2>1 DEF ReconcileNothing, CacheFree, env, lock, local, ghosts, OneVersion
  <2>3. NeverTorn'
    BY <1>1, <2>1 DEF ReconcileNothing, CacheFree, env, lock, local, ghosts, NeverTorn
  <2>4. Mutexes' /\ OneMutex' /\ Copies' /\ NotAhead'
    BY <1>1 DEF ReconcileNothing, CacheFree, env, lock, local, ghosts, Mutexes, Making,
       OneMutex, Copies, NotAhead, Newest
  <2> QED
    BY <2>1, <2>2, <2>3, <2>4 DEF CollectionInv
<1>2. ASSUME Reconcile
      PROVE  CollectionInv'
  <2>0. pc["reconcile"] = "idle" /\ UNCHANGED <<env, secretSeen, secretDue, view,
     current, cache, lock, ghosts>>
    BY <1>2 DEF Reconcile
  <2>1. CASE /\ due' = FALSE /\ Goto("reconcile", "add")
             /\ new' = [new EXCEPT !["reconcile"] = view]
             /\ creds' = [creds EXCEPT !["reconcile"] = Creds(secret)]
             /\ UNCHANGED mx
    <3>1. TypeOK'
      <4>1. pc' \in [Actors -> Places]
        BY <2>0, <2>1 DEF Goto, Creds, env, lock, ghosts, Places
      <4>2. new' \in [Actors -> Status \cup {NoObject}]
        BY <2>0, <2>1 DEF Goto, Creds, env, lock, ghosts, Status, NoObject, Blank,
           Times, Entries
      <4>3. creds' \in [Actors -> Pairs]
        BY <2>0, <2>1 DEF Goto, Creds, env, lock, ghosts, Pairs, Nothing, Actors
      <4> QED
        BY <2>0, <2>1, <4>1, <4>2, <4>3 DEF Goto, Creds, env, lock, ghosts
    <3>2. OneVersion'
      BY <2>0, <2>1, <3>1 DEF Goto, Creds, env, lock, ghosts, OneVersion, Nothing
    <3>3. Mutexes'
      BY <2>0, <2>1, <3>1 DEF Goto, Creds, env, lock, ghosts, Mutexes, Making
    <3>4. OneMutex'
      BY <2>0, <2>1, <3>1 DEF Goto, Creds, env, lock, ghosts, OneMutex
    <3>5. Copies'
      BY <2>0, <2>1, <3>1 DEF Goto, Creds, env, lock, ghosts, Copies
    <3>6. NotAhead'
      BY <2>0, <2>1, <3>1 DEF Goto, Creds, env, lock, ghosts, NotAhead, Newest
    <3>7. NeverTorn'
      BY <2>0, <2>1, <3>1 DEF Goto, Creds, env, lock, ghosts, NeverTorn
    <3> QED
      BY <3>1, <3>2, <3>3, <3>4, <3>5, <3>6, <3>7 DEF CollectionInv
  <2>2. CASE UNCHANGED <<due, local>>
    <3>1. TypeOK'
      BY <2>0, <2>2 DEF env, lock, local, ghosts
    <3>2. OneVersion' /\ Mutexes' /\ OneMutex' /\ Copies' /\ NotAhead' /\ NeverTorn'
      BY <2>0, <2>2 DEF env, lock, local, ghosts, OneVersion, Mutexes, Making, OneMutex,
         Copies, NotAhead, Newest, NeverTorn
    <3> QED
      BY <3>1, <3>2 DEF CollectionInv
  <2> QED
    BY <1>2, <2>1, <2>2 DEF Reconcile, local
<1>3. ASSUME Add
      PROVE  CollectionInv'
  <2>0. /\ pc["reconcile"] = "add" /\ pc["secret"] # "pass" /\ cache' = creds["reconcile"]
        /\ overtaken' \in BOOLEAN /\ UNCHANGED <<env, seen, lock, events, raced, budget>>
    BY <1>3 DEF Add, CacheFree
  <2>1. CASE Leave("reconcile")
    <3>1. TypeOK'
      <4>1. mx \in [Actors -> 0..3] /\ 0 \in 0..3
        BY <2>0, <2>1
      <4>2. mx' \in [Actors -> 0..3]
        BY <2>0, <2>1, <4>1 DEF Leave
      <4>3. pc' \in [Actors -> Places]
        BY <2>0, <2>1 DEF Leave, Goto, Places
      <4>4. cache' \in Pairs
        BY <2>0, <2>1 DEF Actors
      <4>5. creds' \in [Actors -> Pairs]
        BY <2>0, <2>1 DEF Leave, Pairs
      <4>6. new' \in [Actors -> Status \cup {NoObject}]
        BY <2>0, <2>1 DEF Leave
      <4> QED
        BY <2>0, <2>1, <4>1, <4>2, <4>3, <4>4, <4>5, <4>6 DEF Leave, Goto, env, seen,
           lock
    <3>2. OneVersion'
      BY <2>0, <2>1, <3>1 DEF Leave, Goto, env, seen, lock, OneVersion
    <3>3. Mutexes'
      BY <2>0, <2>1, <3>1 DEF Leave, Goto, env, seen, lock, Mutexes, Making
    <3>4. OneMutex'
      BY <2>0, <2>1, <3>1 DEF Leave, Goto, env, seen, lock, OneMutex
    <3>5. Copies'
      BY <2>0, <2>1, <3>1 DEF Leave, Goto, env, seen, lock, Copies
    <3>6. NotAhead'
      <4>1. Newest \in Nat /\ Newest' = Newest
        BY <2>0, <2>1, NewestGrows DEF Newest, env
      <4> QED
        BY <2>0, <2>1, <4>1, NoObjectIsFirst DEF Leave, Goto, env, seen, lock, NotAhead
    <3>7. NeverTorn'
      BY <2>0, <2>1, <3>1 DEF Leave, Goto, env, seen, lock, NeverTorn, OneVersion
    <3> QED
      BY <3>1, <3>2, <3>3, <3>4, <3>5, <3>6, <3>7 DEF CollectionInv
  <2>2. CASE Goto("reconcile", "get") /\ UNCHANGED <<creds, mx, new>>
    <3>1. TypeOK'
      <4>1. cache' \in Pairs
        BY <2>0, <2>2 DEF Goto, env, seen, lock, Pairs, Nothing, Actors, Creds
      <4>2. pc' \in [Actors -> Places]
        BY <2>0, <2>2 DEF Goto, env, seen, lock, Places
      <4> QED
        BY <2>0, <2>2, <4>1, <4>2 DEF Goto, env, seen, lock
    <3>2. OneVersion'
      BY <2>0, <2>2, <3>1 DEF Goto, env, seen, lock, OneVersion
    <3>3. Mutexes'
      BY <2>0, <2>2, <3>1 DEF Goto, env, seen, lock, Mutexes, Making
    <3>4. OneMutex'
      BY <2>0, <2>2, <3>1 DEF Goto, env, seen, lock, OneMutex
    <3>5. Copies'
      BY <2>0, <2>2, <3>1 DEF Goto, env, seen, lock, Copies
    <3>6. NeverTorn'
      BY <2>0, <2>2, <3>1 DEF Goto, env, seen, lock, NeverTorn, OneVersion
    <3>7. NotAhead'
      BY <2>0, <2>2 DEF Goto, env, seen, lock, NotAhead, Newest
    <3> QED
      BY <3>1, <3>2, <3>3, <3>4, <3>5, <3>6, <3>7 DEF CollectionInv
  <2> QED
    BY <1>3, <2>1, <2>2 DEF Add
<1>4. ASSUME Tick
      PROVE  CollectionInv'
  <2>1. TypeOK'
    <3>1. pc' \in [Actors -> Places]
      BY <1>4 DEF Tick, Begin, Goto, env, seen, lock, ghosts, Places
    <3>2. creds' \in [Actors -> Pairs]
      BY <1>4 DEF Tick, Begin, Goto, env, seen, lock, ghosts, Pairs, Nothing, Actors
    <3>3. mx' \in [Actors -> 0..3]
      BY <1>4 DEF Tick, Begin, Goto, env, seen, lock, ghosts
    <3> QED
      BY <1>4, <3>1, <3>2, <3>3 DEF Tick, Begin, Goto, env, seen, lock, ghosts
  <2>2. OneVersion'
    BY <1>4, <2>1 DEF Tick, Begin, Goto, env, seen, lock, ghosts, OneVersion
  <2>3. Mutexes'
    BY <1>4, <2>1 DEF Tick, Begin, Goto, env, seen, lock, ghosts, Mutexes, Making
  <2>4. OneMutex'
    BY <1>4, <2>1 DEF Tick, Begin, Goto, env, seen, lock, ghosts, OneMutex
  <2>5. Copies'
    BY <1>4, <2>1 DEF Tick, Begin, Goto, env, seen, lock, ghosts, Copies
  <2>6. NeverTorn'
    BY <1>4, <2>1 DEF Tick, Begin, Goto, env, seen, lock, ghosts, NeverTorn
  <2>7. NotAhead'
    BY <1>4 DEF Tick, Begin, Goto, env, seen, lock, ghosts, NotAhead, Newest
  <2> QED
    BY <2>1, <2>2, <2>3, <2>4, <2>5, <2>6, <2>7 DEF CollectionInv
<1>5. ASSUME UpdateSecetUser
      PROVE  CollectionInv'
  <2>0. /\ pc["secret"] = "idle" /\ secretDue' = FALSE
        /\ UNCHANGED <<env, secretSeen, view, due, current, lock, mx, new, ghosts, budget>>
    BY <1>5 DEF UpdateSecetUser
  <2>1. CASE UNCHANGED <<cache, pc, creds>>
    <3>1. TypeOK'
      BY <2>0, <2>1 DEF env, lock, ghosts
    <3>2. OneVersion' /\ Mutexes' /\ OneMutex' /\ Copies' /\ NotAhead' /\ NeverTorn'
      BY <2>0, <2>1 DEF env, lock, ghosts, OneVersion, Mutexes, Making, OneMutex,
         Copies, NotAhead, Newest, NeverTorn
    <3> QED
      BY <3>1, <3>2 DEF CollectionInv
  <2>2. CASE /\ cache # Nothing
             /\ cache' = [cache EXCEPT !.user = secretSeen] /\ Goto("secret", "pass")
             /\ creds' = [creds EXCEPT !["secret"] = Creds(secretSeen)]
    <3>1. TypeOK'
      <4>1. cache' \in Pairs
        BY <2>0, <2>2 DEF Creds, Goto, env, lock, ghosts, Pairs, Nothing, Actors, Creds
      <4>2. pc' \in [Actors -> Places]
        BY <2>0, <2>2 DEF Creds, Goto, env, lock, ghosts, Places
      <4>3. creds' \in [Actors -> Pairs]
        BY <2>0, <2>2 DEF Creds, Goto, env, lock, ghosts, Pairs, Nothing, Actors
      <4> QED
        BY <2>0, <2>2, <4>1, <4>2, <4>3 DEF Creds, Goto, env, lock, ghosts
    <3>2. OneVersion'
      BY <2>0, <2>2, <3>1 DEF Creds, Goto, env, lock, ghosts, OneVersion, Nothing
    <3>3. Mutexes'
      BY <2>0, <2>2, <3>1 DEF Creds, Goto, env, lock, ghosts, Mutexes, Making
    <3>4. OneMutex'
      BY <2>0, <2>2, <3>1 DEF Creds, Goto, env, lock, ghosts, OneMutex
    <3>5. Copies'
      BY <2>0, <2>2, <3>1 DEF Creds, Goto, env, lock, ghosts, Copies
    <3>6. NeverTorn'
      BY <2>0, <2>2, <3>1 DEF Creds, Goto, env, lock, ghosts, NeverTorn
    <3>7. NotAhead'
      BY <2>0, <2>2 DEF Creds, Goto, env, lock, ghosts, NotAhead, Newest
    <3> QED
      BY <3>1, <3>2, <3>3, <3>4, <3>5, <3>6, <3>7 DEF CollectionInv
  <2> QED
    BY <1>5, <2>1, <2>2 DEF UpdateSecetUser
<1>6. ASSUME UpdateSecetPass
      PROVE  CollectionInv'
  <2>1. TypeOK'
    <3>1. cache' \in Pairs
      BY <1>6 DEF UpdateSecetPass, Goto, env, seen, lock, Pairs, Nothing, Actors, Creds,
         OneVersion
    <3>2. pc' \in [Actors -> Places]
      BY <1>6 DEF UpdateSecetPass, Goto, env, seen, lock, Places
    <3> QED
      BY <1>6, <3>1, <3>2 DEF UpdateSecetPass, Goto, env, seen, lock
  <2>2. OneVersion'
    BY <1>6, <2>1 DEF UpdateSecetPass, Goto, env, seen, lock, OneVersion
  <2>3. Mutexes'
    BY <1>6, <2>1 DEF UpdateSecetPass, Goto, env, seen, lock, Mutexes, Making
  <2>4. OneMutex'
    BY <1>6, <2>1 DEF UpdateSecetPass, Goto, env, seen, lock, OneMutex
  <2>5. Copies'
    BY <1>6, <2>1 DEF UpdateSecetPass, Goto, env, seen, lock, Copies
  <2>6. NeverTorn'
    BY <1>6, <2>1 DEF UpdateSecetPass, Goto, env, seen, lock, NeverTorn, OneVersion
  <2>7. NotAhead'
    BY <1>6 DEF UpdateSecetPass, Goto, env, seen, lock, NotAhead, Newest
  <2> QED
    BY <2>1, <2>2, <2>3, <2>4, <2>5, <2>6, <2>7 DEF CollectionInv
<1> QED
  BY <1>1, <1>2, <1>3, <1>4, <1>5, <1>6

\* A goroutine gets the credentials and a mutex, and writes with the mutex.
LEMMA UnblockedKeepsInv ==
    ASSUME CollectionInv, NEW a \in Actors, Unblocked(a)
    PROVE  CollectionInv'
<1> USE BoundsAssumption, ActorsCount DEF CollectionInv, TypeOK
<1>1. CASE Get(a)
  <2>0. pc[a] = "get" /\ UNCHANGED <<env, secretSeen, secretDue, view, current, cache,
     lock, ghosts>>
    BY <1>1 DEF Get
  <2>1. CASE Fail(a)
    <3>1. TypeOK'
      <4>1. pc' \in [Actors -> Places]
        BY <2>0, <2>1 DEF Fail, Leave, Goto, env, lock, ghosts, Places
      <4>2. creds' \in [Actors -> Pairs]
        BY <2>0, <2>1 DEF Fail, Leave, Goto, env, lock, ghosts, Pairs, Nothing, Actors
      <4>3. mx' \in [Actors -> 0..3]
        BY <2>0, <2>1 DEF Fail, Leave, Goto, env, lock, ghosts
      <4>4. new' \in [Actors -> Status \cup {NoObject}]
        BY <2>0, <2>1 DEF Fail, Leave, Goto, env, lock, ghosts, Status, NoObject, Blank,
           Times, Entries
      <4> QED
        BY <2>0, <2>1, <4>1, <4>2, <4>3, <4>4 DEF Fail, Leave, Goto, env, lock, ghosts
    <3>2. OneVersion'
      BY <2>0, <2>1, <3>1 DEF Fail, Leave, Goto, env, lock, ghosts, OneVersion
    <3>3. Mutexes'
      BY <2>0, <2>1, <3>1 DEF Fail, Leave, Goto, env, lock, ghosts, Mutexes, Making
    <3>4. OneMutex'
      BY <2>0, <2>1, <3>1 DEF Fail, Leave, Goto, env, lock, ghosts, OneMutex
    <3>5. Copies'
      BY <2>0, <2>1, <3>1 DEF Fail, Leave, Goto, env, lock, ghosts, Copies
    <3>6. NotAhead'
      <4>1. Newest \in Nat /\ Newest' = Newest
        BY <2>0, <2>1, NewestGrows DEF Newest, env
      <4> QED
        BY <2>0, <2>1, <4>1, NoObjectIsFirst DEF Fail, Leave, Goto, env, lock, ghosts,
           NotAhead
    <3>7. NeverTorn'
      BY <2>0, <2>1, <3>1 DEF Fail, Leave, Goto, env, lock, ghosts, NeverTorn
    <3> QED
      BY <3>1, <3>2, <3>3, <3>4, <3>5, <3>6, <3>7 DEF CollectionInv
  <2>2. CASE Begin(a) /\ UNCHANGED <<new, due>>
    <3>1. TypeOK'
      <4>1. pc' \in [Actors -> Places]
        BY <2>0, <2>2 DEF Begin, Goto, env, lock, ghosts, Places
      <4>2. creds' \in [Actors -> Pairs]
        BY <2>0, <2>2 DEF Begin, Goto, env, lock, ghosts, Pairs, Nothing, Actors
      <4>3. mx' \in [Actors -> 0..3]
        BY <2>0, <2>2 DEF Begin, Goto, env, lock, ghosts
      <4> QED
        BY <2>0, <2>2, <4>1, <4>2, <4>3 DEF Begin, Goto, env, lock, ghosts
    <3>2. OneVersion'
      BY <2>0, <2>2, <3>1 DEF Begin, Goto, env, lock, ghosts, OneVersion
    <3>3. Mutexes'
      BY <2>0, <2>2, <3>1 DEF Begin, Goto, env, lock, ghosts, Mutexes, Making
    <3>4. OneMutex'
      BY <2>0, <2>2, <3>1 DEF Begin, Goto, env, lock, ghosts, OneMutex
    <3>5. Copies'
      BY <2>0, <2>2, <3>1 DEF Begin, Goto, env, lock, ghosts, Copies
    <3>6. NeverTorn'
      BY <2>0, <2>2, <3>1 DEF Begin, Goto, env, lock, ghosts, NeverTorn
    <3>7. NotAhead'
      BY <2>0, <2>2 DEF Begin, Goto, env, lock, ghosts, NotAhead, Newest
    <3> QED
      BY <3>1, <3>2, <3>3, <3>4, <3>5, <3>6, <3>7 DEF CollectionInv
  <2> QED
    BY <1>1, <2>1, <2>2 DEF Get
<1>2. CASE GetLock(a)
  <2>1. TypeOK'
    <3>1. pc[a] = "make" /\ a \in {"reconcile", "interval", "secret"}
      BY <1>2 DEF GetLock, Actors
    <3>2. mutex + 1 <= 3
      BY <1>2, <3>1 DEF Mutexes, Making
    <3>3. mutex' \in 0..3
      BY <1>2, <3>1, <3>2 DEF GetLock
    <3>4. mx' \in [Actors -> 0..3]
      BY <1>2, <3>1, <3>2, <3>3 DEF GetLock
    <3>5. pc' \in [Actors -> Places]
      BY <1>2 DEF GetLock, Goto, Places
    <3> QED
      BY <1>2, <3>1, <3>2, <3>3, <3>4, <3>5 DEF GetLock, Goto, env, seen
  <2>2. OneVersion'
    BY <1>2, <2>1 DEF GetLock, Goto, env, seen, OneVersion
  <2>3. Mutexes'
    BY SMTT(30), <1>2, <2>1 DEF GetLock, Goto, env, seen, Mutexes, Making, OneVersion, OneMutex,
       Actors
  <2>4. OneMutex'
    BY <1>2, <2>1 DEF GetLock, Goto, env, seen, OneMutex, Mutexes
  <2>5. Copies'
    BY <1>2, <2>1 DEF GetLock, Goto, env, seen, Copies
  <2>6. NeverTorn'
    BY <1>2, <2>1 DEF GetLock, Goto, env, seen, NeverTorn
  <2>7. NotAhead'
    BY <1>2 DEF GetLock, Goto, env, seen, NotAhead, Newest
  <2> QED
    BY <2>1, <2>2, <2>3, <2>4, <2>5, <2>6, <2>7 DEF CollectionInv
<1>3. CASE Write(a)
  <2>1. TypeOK'
    <3>1. obj' \in Status \cup {NoObject}
      BY <1>3 DEF Write, Store, Unlock, Leave, Goto, lock, ghosts, Status, NoObject,
         Blank, Times
    <3>2. current' \subseteq {"view"} \cup Actors
      BY <1>3 DEF Write, Store, Unlock, Leave, Goto, lock, ghosts
    <3>3. holder' \in [1..3 -> Actors \cup {"none"}]
      BY <1>3 DEF Write, Store, Unlock, Leave, Goto, lock, ghosts
    <3>4. pc' \in [Actors -> Places]
      BY <1>3 DEF Write, Store, Unlock, Leave, Goto, lock, ghosts, Places
    <3>5. creds' \in [Actors -> Pairs]
      BY <1>3 DEF Write, Store, Unlock, Leave, Goto, lock, ghosts, Pairs, Nothing,
         Actors
    <3>6. mx' \in [Actors -> 0..3]
      BY <1>3 DEF Write, Store, Unlock, Leave, Goto, lock, ghosts
    <3>7. new' \in [Actors -> Status \cup {NoObject}]
      BY <1>3 DEF Write, Store, Unlock, Leave, Goto, lock, ghosts, Status, NoObject,
         Blank, Times, Entries
    <3> QED
      BY <1>3, <3>1, <3>2, <3>3, <3>4, <3>5, <3>6, <3>7 DEF Write, Store, Unlock, Leave,
         Goto, lock, ghosts
  <2>2. OneVersion'
    BY <1>3, <2>1 DEF Write, Store, Unlock, Leave, Goto, lock, ghosts, OneVersion
  <2>3. Mutexes'
    BY <1>3, <2>1 DEF Write, Store, Unlock, Leave, Goto, lock, ghosts, Mutexes, Making
  <2>4. OneMutex'
    BY <1>3, <2>1 DEF Write, Store, Unlock, Leave, Goto, lock, ghosts, OneMutex
  <2>5. Copies'
    BY <1>3, <2>1 DEF Write, Store, Unlock, Leave, Goto, lock, ghosts, Copies
  <2>6. NotAhead'
    <3>1. Newest \in Nat /\ Newest' = Newest
      BY <1>3, NewestGrows DEF Newest, Write
    <3> QED
      BY <1>3, <3>1, NoObjectIsFirst DEF Write, Store, Unlock, Leave, Goto, lock,
         ghosts, NotAhead
  <2>7. NeverTorn'
    BY <1>3, <2>1 DEF Write, Store, Unlock, Leave, Goto, lock, ghosts, NeverTorn
  <2> QED
    BY <2>1, <2>2, <2>3, <2>4, <2>5, <2>6, <2>7 DEF CollectionInv
<1>4. CASE WriteFails(a)
  <2>1. TypeOK'
    <3>1. current' \subseteq {"view"} \cup Actors
      BY <1>4 DEF WriteFails, Mishap, Spend, Unlock, Fail, Leave, Goto, env, ghosts
    <3>2. holder' \in [1..3 -> Actors \cup {"none"}]
      BY <1>4 DEF WriteFails, Mishap, Spend, Unlock, Fail, Leave, Goto, env, ghosts
    <3>3. pc' \in [Actors -> Places]
      BY <1>4 DEF WriteFails, Mishap, Spend, Unlock, Fail, Leave, Goto, env, ghosts,
         Places
    <3>4. creds' \in [Actors -> Pairs]
      BY <1>4 DEF WriteFails, Mishap, Spend, Unlock, Fail, Leave, Goto, env, ghosts,
         Pairs, Nothing, Actors
    <3>5. mx' \in [Actors -> 0..3]
      BY <1>4 DEF WriteFails, Mishap, Spend, Unlock, Fail, Leave, Goto, env, ghosts
    <3>6. new' \in [Actors -> Status \cup {NoObject}]
      BY <1>4 DEF WriteFails, Mishap, Spend, Unlock, Fail, Leave, Goto, env, ghosts,
         Status, NoObject, Blank, Times, Entries
    <3> QED
      BY <1>4, <3>1, <3>2, <3>3, <3>4, <3>5, <3>6 DEF WriteFails, Mishap, Spend, Unlock,
         Fail, Leave, Goto, env, ghosts
  <2>2. OneVersion'
    BY <1>4, <2>1 DEF WriteFails, Mishap, Spend, Unlock, Fail, Leave, Goto, env, ghosts,
       OneVersion
  <2>3. Mutexes'
    BY <1>4, <2>1 DEF WriteFails, Mishap, Spend, Unlock, Fail, Leave, Goto, env, ghosts,
       Mutexes, Making
  <2>4. OneMutex'
    BY <1>4, <2>1 DEF WriteFails, Mishap, Spend, Unlock, Fail, Leave, Goto, env, ghosts,
       OneMutex
  <2>5. Copies'
    BY <1>4, <2>1 DEF WriteFails, Mishap, Spend, Unlock, Fail, Leave, Goto, env, ghosts,
       Copies
  <2>6. NotAhead'
    <3>1. Newest \in Nat /\ Newest' = Newest
      BY <1>4, NewestGrows DEF Newest, WriteFails, env
    <3> QED
      BY <1>4, <3>1, NoObjectIsFirst DEF WriteFails, Mishap, Spend, Unlock, Fail, Leave,
         Goto, env, ghosts, NotAhead
  <2>7. NeverTorn'
    BY <1>4, <2>1 DEF WriteFails, Mishap, Spend, Unlock, Fail, Leave, Goto, env, ghosts,
       NeverTorn
  <2> QED
    BY <2>1, <2>2, <2>3, <2>4, <2>5, <2>6, <2>7 DEF CollectionInv
<1> QED
  BY <1>1, <1>2, <1>3, <1>4 DEF Unblocked

\* A collection that finds nothing new leaves the object alone.
LEMMA UnchangedKeepsInv ==
    ASSUME CollectionInv, NEW a \in Actors, Locked(a), Leave(a),
           events' \in [Entries -> 0..2], due' \in BOOLEAN,
           UNCHANGED <<env, secretSeen, secretDue, view, cache, mutex, overtaken, raced,
                       holder, current>>
    PROVE  CollectionInv'
<1> USE BoundsAssumption, ActorsCount DEF CollectionInv, TypeOK
<1>1. TypeOK'
  <2>1. pc' \in [Actors -> Places]
    BY DEF Locked, Leave, Goto, env, Places
  <2>2. creds' \in [Actors -> Pairs]
    BY DEF Locked, Leave, Goto, env, Pairs, Nothing, Actors
  <2>3. mx' \in [Actors -> 0..3]
    BY DEF Locked, Leave, Goto, env
  <2>4. new' \in [Actors -> Status \cup {NoObject}]
    BY DEF Locked, Leave, Goto, env, Status, NoObject, Blank, Times, Entries
  <2> QED
    BY <2>1, <2>2, <2>3, <2>4 DEF Locked, Leave, Goto, env
<1>2. OneVersion'
  BY <1>1 DEF Locked, Leave, Goto, env, OneVersion
<1>3. Mutexes'
  BY <1>1 DEF Locked, Leave, Goto, env, Mutexes, Making
<1>4. OneMutex'
  BY <1>1 DEF Locked, Leave, Goto, env, OneMutex
<1>5. Copies'
  BY <1>1 DEF Locked, Leave, Goto, env, Copies
<1>6. NotAhead'
  <2>1. Newest \in Nat /\ Newest' = Newest
    BY NewestGrows DEF Newest, env
  <2> QED
    BY <2>1, NoObjectIsFirst DEF Locked, Leave, Goto, env, NotAhead
<1>7. NeverTorn'
  BY <1>1 DEF Locked, Leave, Goto, env, NeverTorn
<1> QED
  BY <1>1, <1>2, <1>3, <1>4, <1>5, <1>6, <1>7 DEF CollectionInv

\* A collection that finds something new takes the mutex and makes a copy to
\* write, which names the newest entry of the log or the one its source names.
LEMMA ChangedKeepsInv ==
    ASSUME CollectionInv, NEW a \in Actors, Locked(a), view # NoObject,
           events' \in [Entries -> 0..2],
           new' \in [Actors -> Status \cup {NoObject}],
           \A b \in Actors \ {a} : new'[b] = new[b],
           new'[a].last \in {view.last, Newest}, Goto(a, "write"),
           holder' = [holder EXCEPT ![mx[a]] = a],
           current' = IF "view" \in current THEN current \cup {a} ELSE current,
           creds' = [creds EXCEPT ![a] = Nothing],
           UNCHANGED <<env, secretSeen, secretDue, view, due, cache, mutex, overtaken, raced, mx>>
    PROVE  CollectionInv'
<1> USE BoundsAssumption, ActorsCount DEF CollectionInv, TypeOK
<1>1. TypeOK'
  <2>1. pc' \in [Actors -> Places]
    BY DEF Locked, Goto, env, Places
  <2>2. new' \in [Actors -> Status \cup {NoObject}]
    BY DEF Locked, Goto, env, Status, NoObject, Blank, Times, Entries
  <2>3. holder' \in [1..3 -> Actors \cup {"none"}]
    BY DEF Locked, Goto, env
  <2>4. current' \subseteq {"view"} \cup Actors
    BY DEF Locked, Goto, env
  <2>5. creds' \in [Actors -> Pairs]
    BY DEF Locked, Goto, env, Pairs, Nothing, Actors
  <2> QED
    BY <2>1, <2>2, <2>3, <2>4, <2>5 DEF Locked, Goto, env
<1>2. OneVersion'
  BY <1>1 DEF Locked, Goto, env, OneVersion
<1>3. Mutexes'
  <2>1. mx[a] \in 1..3 /\ holder[mx[a]] = "none"
    BY DEF Mutexes, Locked
  <2>2. mutex' + Making("reconcile")' + Making("interval")' + Making("secret")' <= 3
    BY <1>1 DEF Locked, Goto, env, Mutexes, Making, Actors
  <2>3. ASSUME NEW b \in Actors
       PROVE  /\ pc'[b] \in {"wait", "write"} => mx'[b] # 0
              /\ pc'[b] = "write" => holder'[mx'[b]] = b
    <3>1. CASE b = a
      BY <2>1, <3>1 DEF Goto
    <3>2. CASE b # a
      <4>1. pc'[b] = pc[b] /\ mx'[b] = mx[b] /\ b # "none"
        BY <3>2 DEF Goto, Actors
      <4> QED
        BY <2>1, <3>2, <4>1 DEF Mutexes
    <3> QED
      BY <3>1, <3>2
  <2> QED
    BY <2>2, <2>3 DEF Mutexes
<1>4. OneMutex'
  BY <1>1 DEF Locked, Goto, env, OneMutex
<1>5. Copies'
  <2>1. Newest \in Nat /\ view.last \in Int /\ new'[a].last \in Int /\
     view.last <= Newest
    BY NewestGrows, LastIsInt DEF NotAhead, env
  <2>2. new'[a].last >= view.last
    BY <2>1
  <2> QED
    BY <1>1, <2>2 DEF Locked, Goto, env, Copies, Actors
<1>6. NotAhead'
  BY SMTT(30), <1>1 DEF Locked, Goto, env, NotAhead, Newest
<1>7. NeverTorn'
  BY <1>1 DEF Locked, Goto, env, NeverTorn
<1> QED
  BY <1>1, <1>2, <1>3, <1>4, <1>5, <1>6, <1>7 DEF CollectionInv

\* What a goroutine collects under the mutex.
LEMMA BlockingKeepsInv ==
    ASSUME CollectionInv, NEW a \in Actors, Blocking(a)
    PROVE  CollectionInv'
<1>1. CASE CollectGone(a)
  <2>1. events' \in [Entries -> 0..2] /\ due' \in BOOLEAN
    BY <1>1 DEF CollectGone, Fail, ghosts, CollectionInv, TypeOK
  <2>2. /\ Locked(a) /\ Leave(a)
        /\ UNCHANGED <<env, secretSeen, secretDue, view, cache, mutex, overtaken, raced,
                       holder, current>>
    BY <1>1 DEF CollectGone, Fail, lock, ghosts
  <2> QED
    BY <2>1, <2>2, UnchangedKeepsInv
<1>2. CASE Collect(a)
  <2>1. PICK gotInfo \in BOOLEAN, gotLog \in BOOLEAN :
           /\ IF gotLog THEN GenerateEvents(view.last) ELSE UNCHANGED events
           /\ IF compareRedfishStatus(Updated(a, gotInfo, gotLog), view)
              THEN Leave(a) /\ UNCHANGED <<holder, current>>
              ELSE /\ Goto(a, "write")
                   /\ new' = [new EXCEPT ![a] = Updated(a, gotInfo, gotLog)]
                   /\ holder' = [holder EXCEPT ![mx[a]] = a]
                   /\ current' = IF "view" \in current THEN current \cup {a} ELSE current
                   /\ creds' = [creds EXCEPT ![a] = Nothing] /\ UNCHANGED mx
    BY <1>2 DEF Collect
  <2>2. /\ Locked(a) /\ view # NoObject
        /\ UNCHANGED <<env, secretSeen, secretDue, view, due, cache, mutex, overtaken, raced>>
    BY <1>2 DEF Collect
  <2>3. events' \in [Entries -> 0..2]
    BY SMTT(30), <2>1 DEF GenerateEvents, CollectionInv, TypeOK
  <2>4. CASE compareRedfishStatus(Updated(a, gotInfo, gotLog), view)
    <3>1. due' \in BOOLEAN
      BY <2>2 DEF CollectionInv, TypeOK
    <3>2. /\ Leave(a)
          /\ UNCHANGED <<env, secretSeen, secretDue, view, cache, mutex, overtaken, raced,
                         holder, current>>
      BY <2>1, <2>2, <2>4
    <3> QED
      BY <2>2, <2>3, <3>1, <3>2, UnchangedKeepsInv
  <2>5. CASE ~compareRedfishStatus(Updated(a, gotInfo, gotLog), view)
    <3>1. view \in Status
      BY <2>2 DEF CollectionInv, TypeOK
    <3>2. log > 0 => Created[log] \in Times
      BY BoundsAssumption DEF CollectionInv, TypeOK, Times, Entries
    <3>3. /\ Updated(a, gotInfo, gotLog) \in Status
          /\ Updated(a, gotInfo, gotLog).last \in {view.last, Newest}
      <4>1. Connects(a) \in BOOLEAN
        BY DEF Connects, CollectionInv, TypeOK
      <4>2. (IF gotLog /\ log > 0 THEN Created[log] ELSE view.last) \in Times
        BY <3>1, <3>2 DEF Status
      <4>3. Updated(a, gotInfo, gotLog) \in Status
        BY <3>1, <4>1, <4>2 DEF Updated, Status
      <4>4. Updated(a, gotInfo, gotLog).last
               = IF gotLog /\ log > 0 THEN Created[log] ELSE view.last
        BY <3>1 DEF Updated, Status
      <4>5. log > 0 => Newest = Created[log]
        BY DEF Newest, CollectionInv, TypeOK
      <4> QED
        BY <4>3, <4>4, <4>5
    <3>4. /\ new' \in [Actors -> Status \cup {NoObject}]
          /\ new'[a] = Updated(a, gotInfo, gotLog)
          /\ \A b \in Actors \ {a} : new'[b] = new[b]
      <4>1. new' = [new EXCEPT ![a] = Updated(a, gotInfo, gotLog)]
        BY <2>1, <2>5
      <4>2. new \in [Actors -> Status \cup {NoObject}]
        BY DEF CollectionInv, TypeOK
      <4> QED
        BY <3>3, <4>1, <4>2
    <3> QED
      BY <2>1, <2>2, <2>3, <2>5, <3>3, <3>4, ChangedKeepsInv
  <2> QED
    BY <2>4, <2>5
<1> QED
  BY <1>1, <1>2 DEF Blocking

\* A restart forgets what was in memory.
LEMMA RestartKeepsInv ==
    ASSUME CollectionInv, Restart
    PROVE  CollectionInv'
<1> USE BoundsAssumption, ActorsCount DEF CollectionInv, TypeOK
<1>1. ASSUME Restart
      PROVE  CollectionInv'
  <2>1. TypeOK'
    <3>1. cache' \in Pairs
      BY <1>1 DEF Restart, Mishap, Spend, env, ghosts, Pairs, Nothing, Actors, Creds
    <3>2. mutex' \in 0..3
      BY <1>1 DEF Restart, Mishap, Spend, env, ghosts
    <3>3. holder' \in [1..3 -> Actors \cup {"none"}]
      BY <1>1 DEF Restart, Mishap, Spend, env, ghosts
    <3>4. pc' \in [Actors -> Places]
      BY <1>1 DEF Restart, Mishap, Spend, env, ghosts, Places
    <3>5. creds' \in [Actors -> Pairs]
      BY <1>1 DEF Restart, Mishap, Spend, env, ghosts, Pairs, Nothing, Actors
    <3>6. mx' \in [Actors -> 0..3]
      BY <1>1 DEF Restart, Mishap, Spend, env, ghosts
    <3>7. new' \in [Actors -> Status \cup {NoObject}]
      BY <1>1 DEF Restart, Mishap, Spend, env, ghosts, Status, NoObject, Blank, Times,
         Entries
    <3>8. view' \in Status \cup {NoObject}
      BY <1>1 DEF Restart, Mishap, Spend, env, ghosts
    <3>9. current' \subseteq {"view"} \cup Actors
      BY <1>1 DEF Restart, Mishap, Spend, env, ghosts
    <3>10. secretSeen' \in 0..MaxSecret
      BY <1>1 DEF Restart, Mishap, Spend, env, ghosts
    <3> QED
      BY <1>1, <3>1, <3>2, <3>3, <3>4, <3>5, <3>6, <3>7, <3>8, <3>9, <3>10 DEF Restart,
         Mishap, Spend, env, ghosts
  <2>2. OneVersion'
    BY <1>1, <2>1 DEF Restart, Mishap, Spend, env, ghosts, OneVersion, Actors
  <2>3. Mutexes'
    BY <1>1, <2>1 DEF Restart, Mishap, Spend, env, ghosts, Mutexes, Making
  <2>4. OneMutex'
    BY <1>1, <2>1 DEF Restart, Mishap, Spend, env, ghosts, OneMutex
  <2>5. Copies'
    BY <1>1, <2>1 DEF Restart, Mishap, Spend, env, ghosts, Copies, Actors
  <2>6. NotAhead'
    BY <1>1, <2>1 DEF Restart, Mishap, Spend, env, ghosts, NotAhead, Newest, OneVersion,
       NoObject, Blank
  <2>7. NeverTorn'
    BY <1>1, <2>1 DEF Restart, Mishap, Spend, env, ghosts, NeverTorn
  <2> QED
    BY <2>1, <2>2, <2>3, <2>4, <2>5, <2>6, <2>7 DEF CollectionInv
<1> QED
  BY <1>1

\* The agent has just started and there is no object.
LEMMA InitEstablishesInv == Init => CollectionInv
<1> SUFFICES ASSUME Init PROVE CollectionInv
  OBVIOUS
<1> USE BoundsAssumption, ActorsCount DEF Init
<1>1. TypeOK
  <2>1. log \in 0..Len(Created) /\ {secret, accepts, secretSeen} \subseteq 0..MaxSecret
    OBVIOUS
  <2>2. cache \in Pairs /\ creds \in [Actors -> Pairs] /\ pc \in [Actors -> Places]
    BY DEF Pairs, Places
  <2>3. {up, secretDue, due, overtaken, raced} \subseteq BOOLEAN
    OBVIOUS
  <2> QED
    BY <2>1, <2>2, <2>3 DEF TypeOK
<1>2. OneVersion /\ Mutexes /\ OneMutex /\ Copies /\ NeverTorn
  BY DEF OneVersion, Mutexes, Making, OneMutex, Copies, NeverTorn, Actors
<1>3. NotAhead
  BY NoObjectIsFirst DEF NotAhead, Newest
<1> QED
  BY <1>1, <1>2, <1>3 DEF CollectionInv

\* CollectionInv is inductive.
LEMMA NextKeepsInv == CollectionInv /\ [Next]_vars => CollectionInv'
<1> SUFFICES ASSUME CollectionInv, [Next]_vars PROVE CollectionInv'
  OBVIOUS
<1>1. CASE UNCHANGED vars
  BY <1>1 DEF vars, env, seen, lock, local, ghosts, CollectionInv, TypeOK, OneVersion,
     Mutexes, Making, OneMutex, Copies, NotAhead, Newest, NeverTorn
<1>2. ASSUME NEW a \in Actors, Unblocked(a) \/ Blocking(a)
      PROVE  CollectionInv'
  BY <1>2, UnblockedKeepsInv, BlockingKeepsInv
<1> QED
  BY <1>1, <1>2, ObjectKeepsInv, EnvironmentKeepsInv, CacheKeepsInv, RestartKeepsInv
     DEF Next

-----------------------------------------------------------------------------
(* The theorems                                                              *)

\* CollectionInv holds in every reachable state.
THEOREM CollectionInvariant == Spec => []CollectionInv
  BY InitEstablishesInv, NextKeepsInv, PTL DEF Spec

\* Type correctness; in particular GetLock makes no more mutexes than there
\* are goroutines.
THEOREM CollectionTypeCorrect == Spec => []TypeOK
<1>1. CollectionInv => TypeOK
  BY DEF CollectionInv
<1> QED
  BY <1>1, CollectionInvariant, PTL

\* The cache holds a user and a password of different versions only between
\* the two assignments of UpdateSecet.
THEOREM NeverTornAlways == Spec => []NeverTorn
<1>1. CollectionInv => NeverTorn
  BY DEF CollectionInv
<1> QED
  BY <1>1, CollectionInvariant, PTL

\* Two goroutines collect at once only if they raced for the mutex: with one
\* mutex, held by whoever writes, there is one writer.
THEOREM OneCollectorAlways == Spec => []OneCollector
<1>1. CollectionInv => OneCollector
  <2> SUFFICES ASSUME CollectionInv, ~raced
               PROVE  ~(Cardinality({a \in Actors : pc[a] = "write"}) > 1)
    BY DEF OneCollector
  <2> DEFINE W == {a \in Actors : pc[a] = "write"}
  <2>1. \A a, b \in W : a = b
    BY DEF CollectionInv, Mutexes, OneMutex
  <2>2. CASE W = {}
    <3>1. Cardinality(W) = 0
      BY <2>2, FS_EmptySet
    <3> QED
      BY <3>1
  <2>3. CASE W # {}
    <3>1. PICK a \in W : W = {a}
      BY <2>1, <2>3
    <3>2. Cardinality(W) = 1
      BY <3>1, FS_Singleton
    <3> QED
      BY <3>2
  <2> QED
    BY <2>2, <2>3
<1> QED
  BY <1>1, CollectionInvariant, PTL

\* A write with the version of the stored object does not take the newest log
\* entry of the object back in time.
THEOREM LogForwardAlways == Spec => LogForward
<1>1. ASSUME CollectionInv, [Next]_vars
      PROVE  [obj # NoObject /\ obj' # NoObject => obj'.last >= obj.last]_vars
  <2> SUFFICES ASSUME Next, obj # NoObject, obj' # NoObject PROVE obj'.last >= obj.last
    BY <1>1
  <2>1. obj.last \in Int /\ obj \in Status
    BY <1>1, LastIsInt DEF CollectionInv, TypeOK
  <2>2. CASE UNCHANGED obj
    BY <2>1, <2>2
  <2>3. CASE FillObject
    BY <2>1, <2>3 DEF FillObject, Store, Status
  <2>4. ASSUME NEW a \in Actors, Write(a)
        PROVE  obj'.last >= obj.last
    BY <1>1, <2>4 DEF CollectionInv, Copies, Write, Store
  <2> QED
    <3>1. ~CreateObject /\ ~DeleteObject
      BY DEF CreateObject, DeleteObject, Store
    <3>2. ASSUME \/ ChangeSecret \/ ChangeAccount \/ GoDown \/ ComeUp \/ WriteLog
                 \/ ObserveObject \/ ObserveSecret \/ ReconcileNothing \/ Reconcile \/ Add
                 \/ Tick \/ UpdateSecetUser \/ UpdateSecetPass \/ Restart
          PROVE  UNCHANGED obj
      BY <3>2 DEF ChangeSecret, ChangeAccount, GoDown, ComeUp, WriteLog, ObserveObject,
         ObserveSecret, ReconcileNothing, Reconcile, Add, Tick, UpdateSecetUser,
         UpdateSecetPass, Restart, env
    <3>3. ASSUME NEW a \in Actors,
                 Get(a) \/ GetLock(a) \/ WriteFails(a) \/ CollectGone(a) \/ Collect(a)
          PROVE  UNCHANGED obj
      BY <3>3 DEF Get, GetLock, WriteFails, CollectGone, Collect, env
    <3> QED
      BY <2>2, <2>3, <2>4, <3>1, <3>2, <3>3 DEF Next, Unblocked, Blocking
<1> QED
  BY <1>1, CollectionInvariant, PTL DEF Spec, LogForward
=============================================================================
