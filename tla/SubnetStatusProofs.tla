------------------------- MODULE SubnetStatusProofs -------------------------
(***************************************************************************)
(* Theorems about SubnetStatus, for any ranges the webhook lets through,   *)
(* any clients and nodes and any number of changes, faults and restarts.   *)
(* The inductive invariant is StatusInv. The first part shows what         *)
(* CountIPsInRange counts, the second what Updated makes of the tables.    *)
(***************************************************************************)
EXTENDS SubnetStatus, FiniteSetTheorems, NaturalsInduction, WellFoundedInduction, TLAPS

Objects == [version: Nat, range: DOMAIN Ranges, status: StatusType]
Workers == [pc: {"select", "read", "write"}, tries: 0..(Steps - 1),
            updated: Copies \cup {None}]

\* The type of every variable the proofs look at.
Typed ==
    /\ object \in Objects
    /\ seen \in Objects
    /\ leaseFile \subseteq Clients
    /\ node \in Nodes
    /\ range \in DOMAIN Ranges
    /\ leases \subseteq Clients
    /\ bound \subseteq Clients
    /\ worker \in Workers

\* The informer cache and the server are never ahead of the API server.
Behind ==
    /\ seen.version <= object.version
    /\ seen.range <= object.range
    /\ range <= object.range

\* Signals, restarts and updates are those of a server that runs.
Alive ==
    /\ monitor = "notify" => up
    /\ restartCh => up
    /\ pendingUpdate => up
    /\ worker.pc # "select" => pendingUpdate

\* The addresses the entries of a status say are leased, or bound.
Allocated(st) == {d.ip : d \in {x \in st.details : x.isAllocated}}
Bound(st) == {d.ip : d \in {x \in st.details : x.isBound}}

\* While the worker holds the lock, the status it is to write is that of the
\* tables, but for bindings deleted without the lock.
Held ==
    /\ worker.pc = "write" <=> worker.updated # None
    /\ worker.pc = "write" => /\ Allocated(worker.updated.status) = leases
                              /\ bound \subseteq Bound(worker.updated.status)

\* AmountsExact of a status st and the first n ranges.
ExactIn(st, n) ==
    st.hostNode # None =>
        \E i \in 1..n :
            LET all == Covered(Ranges[i])
                used == {d.ip : d \in st.details} IN
            /\ st.total = CountIPsInRange(Ranges[i])
            /\ (Plain(Ranges[i]) /\ used \subseteq all) =>
                  /\ st.total = Cardinality(all)
                  /\ st.available = Cardinality(all \ used)

\* The amounts are exact wherever a status is kept, since a copy of it may be
\* stored: on the API server, in the informer cache and in the worker.
Exact ==
    /\ ExactIn(object.status, object.range)
    /\ ExactIn(seen.status, object.range)
    /\ worker.pc = "write" => ExactIn(worker.updated.status, object.range)

StatusInv ==
    /\ Typed
    /\ Behind
    /\ Alive
    /\ Held
    /\ Exact

-----------------------------------------------------------------------------
(* CountIPsInRange counts the addresses of a range                           *)

\* A non-empty set of natural numbers has a least element.
LEMMA LeastElement ==
    ASSUME NEW S \in SUBSET Nat, S # {}
    PROVE  \E x \in S : \A y \in S : x <= y
<1>1. PICK x \in S : \A y \in S : ~(<<y, x>> \in OpToRel(<, Nat))
  BY NatLessThanWellFounded, WFMin
<1>2. \A y \in S : ~(y < x)
  BY <1>1 DEF OpToRel
<1> QED
  BY <1>2

\* There is a running total of any values: a least number of turns without
\* one would follow a number of turns with one, which can be extended.
LEMMA TotalExists ==
    ASSUME NEW n \in Nat, NEW p
    PROVE  \E f : f = [k \in 0..n |-> IF k = 0 THEN 0 ELSE f[k - 1] + p[k]]
<1> DEFINE Total(m, f) == f = [k \in 0..m |-> IF k = 0 THEN 0 ELSE f[k - 1] + p[k]]
<1> DEFINE S == {m \in Nat : ~\E f : Total(m, f)}
<1>1. SUFFICES ASSUME S # {} PROVE FALSE
  BY <1>1
<1>2. PICK m \in S : \A y \in S : m <= y
  <2> HIDE DEF S
  <2>1. S \in SUBSET Nat
    BY DEF S
  <2> QED
    BY <1>1, <2>1, LeastElement
<1>3. m # 0
  <2>1. Total(0, [k \in 0..0 |-> 0])
    OBVIOUS
  <2> QED
    BY <2>1
<1>4. m - 1 \in Nat /\ m - 1 \notin S
  <2>1. m \in Nat
    OBVIOUS
  <2> HIDE DEF S
  <2> QED
    BY <1>2, <1>3, <2>1
<1>5. PICK f : Total(m - 1, f)
  BY <1>4
<1> DEFINE g == [k \in 0..m |-> IF k = m THEN f[m - 1] + p[m] ELSE f[k]]
<1>6. ASSUME NEW k \in 0..m
      PROVE  g[k] = IF k = 0 THEN 0 ELSE g[k - 1] + p[k]
  <2>1. CASE k = m
    BY <1>3, <2>1
  <2>2. CASE k # m
    <3>1. k \in 0..(m - 1) /\ g[k] = f[k] /\ (k # 0 => g[k - 1] = f[k - 1])
      BY <2>2
    <3>2. f[k] = IF k = 0 THEN 0 ELSE f[k - 1] + p[k]
      BY <1>5, <3>1
    <3> QED
      BY <3>1, <3>2
  <2> QED
    BY <2>1, <2>2
<1>7. Total(m, g)
  BY <1>6
<1> QED
  BY <1>2, <1>7

\* RunningTotal is what its definition says.
LEMMA TotalUnfolds ==
    ASSUME NEW s, Len(s) \in Nat
    PROVE  /\ RunningTotal(s)[0] = 0
           /\ \A k \in 1..Len(s) :
                 RunningTotal(s)[k] = RunningTotal(s)[k - 1] + PartLength(s[k])
<1> DEFINE n == Len(s)
<1> DEFINE p == [k \in 1..n |-> PartLength(s[k])]
<1> DEFINE Total(f) == f = [k \in 0..n |-> IF k = 0 THEN 0 ELSE f[k - 1] + PartLength(s[k])]
<1>1. PICK f : f = [k \in 0..n |-> IF k = 0 THEN 0 ELSE f[k - 1] + p[k]]
  BY TotalExists
<1>2. Total(f)
  <2>1. ASSUME NEW k \in 0..n, k # 0
        PROVE  p[k] = PartLength(s[k])
    <3>1. k \in 1..n
      BY <2>1
    <3> QED
      BY <3>1
  <2> HIDE DEF p
  <2> QED
    BY <1>1, <2>1
<1>3. RunningTotal(s) = CHOOSE g : Total(g)
  BY DEF RunningTotal
<1>4. Total(RunningTotal(s))
  BY <1>2, <1>3
<1> QED
  BY <1>4

\* A number below the modulus is its own remainder.
LEMMA SmallRemainder ==
    ASSUME NEW m \in Nat \ {0}, NEW x \in 0..(m - 1)
    PROVE  x % m = x
  OBVIOUS

\* The addresses of a part.
LEMMA PartCovers ==
    ASSUME NEW r \in Seq(IPs), Len(r) \in {1, 2}, Start(r) <= End(r)
    PROVE  /\ Start(r) \in IPs /\ End(r) \in IPs
           /\ Covered(<<r>>) = Start(r)..End(r)
           /\ IsFiniteSet(Covered(<<r>>))
           /\ Cardinality(Covered(<<r>>)) = End(r) - Start(r) + 1
           /\ PartLength(r) \in Nat
           /\ Covered(<<r>>) # IPs \/ Len(r) = 1
                => PartLength(r) = Cardinality(Covered(<<r>>))
<1> USE AddressSpaceAssumption DEF IPs
<1>1. Start(r) \in IPs /\ End(r) \in IPs /\ \A k \in DOMAIN r : r[k] # BadIP
  BY DEF Start, End, BadIP
<1>2. ASSUME NEW a \in IPs
      PROVE  IsIPInRange(a, <<r>>) <=> Start(r) <= a /\ a <= End(r)
  <2>1. DOMAIN <<r>> = {1} /\ <<r>>[1] = r
    OBVIOUS
  <2> QED
    BY <1>1, <2>1 DEF IsIPInRange
<1>3. Covered(<<r>>) = Start(r)..End(r)
  BY <1>1, <1>2 DEF Covered
<1>4. IsFiniteSet(Covered(<<r>>)) /\ Cardinality(Covered(<<r>>)) = End(r) - Start(r) + 1
  <2>1. Start(r) \in Int /\ End(r) \in Int
    BY <1>1
  <2>2. /\ IsFiniteSet(Start(r)..End(r))
        /\ Cardinality(Start(r)..End(r)) =
              IF Start(r) > End(r) THEN 0 ELSE End(r) - Start(r) + 1
    BY <2>1, FS_Interval
  <2>3. ~(Start(r) > End(r))
    BY <2>1
  <2> QED
    BY <1>3, <2>2, <2>3, Zenon
<1>5. CASE Len(r) = 1
  BY <1>1, <1>3, <1>4, <1>5 DEF PartLength, Start, End
<1>6. CASE Len(r) = 2
  <2>1. Start(r) = r[1] /\ End(r) = r[2]
    BY <1>6 DEF Start, End
  <2>2. PartLength(r) = (End(r) - Start(r) + 1) % AddressSpace
    BY <1>6, <2>1 DEF PartLength
  <2>3. PartLength(r) \in Nat
    BY <1>1, <2>2
  <2>4. ASSUME Covered(<<r>>) # IPs
        PROVE  PartLength(r) = End(r) - Start(r) + 1
    <3>1. ~(Start(r) = 0 /\ End(r) = AddressSpace - 1)
      BY <1>3, <2>4
    <3>2. End(r) - Start(r) + 1 \in 0..(AddressSpace - 1)
      BY <1>1, <3>1
    <3> QED
      BY <2>2, <3>2, SmallRemainder
  <2> QED
    BY <1>1, <1>3, <1>4, <1>6, <2>3, <2>4
<1> QED
  BY <1>1, <1>3, <1>4, <1>5, <1>6

\* CountIPsInRange of a well-formed range is a number, and if its parts do not
\* overlap it is the number of addresses in the range: a least number of parts
\* for which the running total is wrong would follow a number of parts for
\* which it is right.
LEMMA CountIsExact ==
    ASSUME NEW s \in Seq(Seq(IPs)),
           \A i \in DOMAIN s : Len(s[i]) \in {1, 2} /\ Start(s[i]) <= End(s[i])
    PROVE  /\ CountIPsInRange(s) \in Nat
           /\ IsFiniteSet(Covered(s))
           /\ Plain(s) => CountIPsInRange(s) = Cardinality(Covered(s))
<1> DEFINE n == Len(s)
<1> DEFINE T == RunningTotal(s)
<1> DEFINE C(k) == {a \in IPs : \E i \in 1..k : a \in Covered(<<s[i]>>)}
<1> DEFINE Right(k) == /\ T[k] \in Nat /\ IsFiniteSet(C(k))
                       /\ Plain(s) => T[k] = Cardinality(C(k))
<1>1. n \in Nat /\ DOMAIN s = 1..n /\ \A i \in 1..n : s[i] \in Seq(IPs)
  OBVIOUS
<1>2. T[0] = 0 /\ \A k \in 1..n : T[k] = T[k - 1] + PartLength(s[k])
  BY <1>1, TotalUnfolds
<1>3. ASSUME NEW i \in 1..n
      PROVE  /\ IsFiniteSet(Covered(<<s[i]>>)) /\ Covered(<<s[i]>>) \subseteq IPs
             /\ Cardinality(Covered(<<s[i]>>)) \in Nat /\ PartLength(s[i]) \in Nat
             /\ Plain(s) => PartLength(s[i]) = Cardinality(Covered(<<s[i]>>))
  <2>1. s[i] \in Seq(IPs) /\ Len(s[i]) \in {1, 2} /\ Start(s[i]) <= End(s[i])
    BY <1>1
  <2>2. Covered(<<s[i]>>) \subseteq IPs
    BY DEF Covered
  <2>3. IsFiniteSet(Covered(<<s[i]>>)) /\ PartLength(s[i]) \in Nat
    BY <2>1, PartCovers
  <2>4. Cardinality(Covered(<<s[i]>>)) \in Nat
    BY <2>3, FS_CardinalityType
  <2>5. Plain(s) => Covered(<<s[i]>>) # IPs \/ Len(s[i]) = 1
    BY <1>1 DEF Plain
  <2>6. Plain(s) => PartLength(s[i]) = Cardinality(Covered(<<s[i]>>))
    BY <2>1, <2>5, PartCovers
  <2> QED
    BY <2>2, <2>3, <2>4, <2>6
<1> HIDE DEF T
<1>4. Right(0)
  <2>1. C(0) = {}
    OBVIOUS
  <2>2. IsFiniteSet({}) /\ Cardinality({}) = 0
    BY FS_EmptySet
  <2> HIDE DEF C
  <2>3. IsFiniteSet(C(0)) /\ Cardinality(C(0)) = 0
    BY <2>1, <2>2, Zenon
  <2> QED
    BY <1>2, <2>3
<1>5. ASSUME NEW k \in 1..n, Right(k - 1)
      PROVE  Right(k)
  <2> DEFINE P == Covered(<<s[k]>>)
  <2>1. C(k) = C(k - 1) \cup P
    <3>1. P \subseteq IPs
      BY <1>3
    <3>2. 1..k = 1..(k - 1) \cup {k}
      BY <1>1
    <3> HIDE DEF P
    <3>3. ASSUME NEW a \in IPs
          PROVE  (\E i \in 1..k : a \in Covered(<<s[i]>>)) <=>
                    (\E i \in 1..(k - 1) : a \in Covered(<<s[i]>>)) \/ a \in P
      BY <3>2, Zenon DEF P
    <3> QED
      BY <3>1, <3>3
  <2>2. ASSUME Plain(s) PROVE C(k - 1) \cap P = {}
    <3>1. \A i \in 1..(k - 1) : i \in 1..n /\ i # k
      BY <1>1
    <3>2. \A i \in 1..(k - 1) : Covered(<<s[i]>>) \cap P = {}
      BY <1>1, <2>2, <3>1 DEF Plain
    <3> QED
      BY <3>2
  <2> HIDE DEF P, C
  <2>3. IsFiniteSet(P) /\ Cardinality(P) \in Nat
    BY <1>3 DEF P
  <2>4. IsFiniteSet(C(k - 1)) /\ Cardinality(C(k - 1)) \in Nat
    BY <1>5, FS_CardinalityType
  <2>5. /\ IsFiniteSet(C(k))
        /\ Cardinality(C(k)) =
              Cardinality(C(k - 1)) + Cardinality(P) - Cardinality(C(k - 1) \cap P)
    BY <2>1, <2>3, <2>4, FS_Union
  <2>6. Plain(s) => Cardinality(C(k)) = Cardinality(C(k - 1)) + Cardinality(P)
    <3>1. Cardinality({}) = 0
      BY FS_EmptySet
    <3>2. Plain(s) => Cardinality(C(k - 1) \cap P) = 0
      BY <2>2, <3>1, Zenon
    <3> QED
      BY <2>3, <2>4, <2>5, <3>2
  <2>7. T[k] = T[k - 1] + PartLength(s[k]) /\ PartLength(s[k]) \in Nat
    BY <1>2, <1>3
  <2>8. Plain(s) => PartLength(s[k]) = Cardinality(P)
    BY <1>3 DEF P
  <2> QED
    BY <1>5, <2>5, <2>6, <2>7, <2>8
<1>6. Right(n)
  <2> DEFINE W == {k \in 0..n : ~Right(k)}
  <2> HIDE DEF Right
  <2>1. SUFFICES ASSUME W # {} PROVE FALSE
    BY <1>1, <2>1
  <2>2. PICK m \in W : \A y \in W : m <= y
    <3>1. W \in SUBSET Nat
      BY <1>1
    <3> HIDE DEF W
    <3> QED
      BY <2>1, <3>1, LeastElement
  <2>3. m \in 1..n
    BY <1>1, <1>4
  <2>4. m - 1 \in 0..n /\ m - 1 \notin W
    <3>1. m - 1 \in 0..n /\ m \in Nat
      BY <1>1, <2>3
    <3> HIDE DEF W
    <3> QED
      BY <2>2, <3>1
  <2> QED
    BY <1>5, <2>3, <2>4
<1>7. C(n) = Covered(s)
  <2>1. ASSUME NEW a \in IPs, NEW i \in 1..n
        PROVE  a \in Covered(<<s[i]>>) <=>
                  /\ Len(s[i]) \in {1, 2} /\ \A k \in DOMAIN s[i] : s[i][k] # BadIP
                  /\ Start(s[i]) <= a /\ a <= End(s[i])
    <3>1. DOMAIN <<s[i]>> = {1} /\ <<s[i]>>[1] = s[i]
      OBVIOUS
    <3> QED
      BY <3>1 DEF Covered, IsIPInRange
  <2>2. ASSUME NEW a \in IPs
        PROVE  IsIPInRange(a, s) <=> \E i \in 1..n : a \in Covered(<<s[i]>>)
    BY <1>1, <2>1 DEF IsIPInRange
  <2> QED
    BY <2>2 DEF Covered
<1>8. CountIPsInRange(s) = T[n]
  <2>1. ASSUME NEW i \in 1..n, NEW k \in DOMAIN s[i]
        PROVE  s[i][k] # BadIP
    <3>1. s[i][k] \in IPs
      BY <1>1
    <3> QED
      BY <3>1, AddressSpaceAssumption DEF IPs, BadIP
  <2> QED
    BY <1>1, <2>1 DEF CountIPsInRange, T
<1> QED
  BY <1>6, <1>7, <1>8

-----------------------------------------------------------------------------
(* What Updated makes of the tables                                          *)

\* Any set of addresses is finite, with at most AddressSpace elements.
LEMMA FewAddresses ==
    ASSUME NEW S \in SUBSET IPs
    PROVE  IsFiniteSet(S) /\ Cardinality(S) \in Nat /\ Cardinality(S) <= AddressSpace
<1>1. IsFiniteSet(IPs) /\ Cardinality(IPs) = AddressSpace
  <2>1. 0 \in Int /\ AddressSpace - 1 \in Int
    BY AddressSpaceAssumption
  <2>2. /\ IsFiniteSet(0..(AddressSpace - 1))
        /\ Cardinality(0..(AddressSpace - 1)) =
              IF 0 > AddressSpace - 1 THEN 0 ELSE AddressSpace - 1 - 0 + 1
    BY <2>1, FS_Interval
  <2> QED
    BY <2>2, AddressSpaceAssumption DEF IPs
<1>2. IsFiniteSet(S) /\ Cardinality(S) <= Cardinality(IPs)
  BY <1>1, FS_Subset
<1> QED
  BY <1>1, <1>2, FS_CardinalityType

\* There is one entry for each address that is bound or leased.
LEMMA OneEntryEach ==
    ASSUME Typed
    PROVE  /\ Details \subseteq [ip: Clients, isBound: BOOLEAN, isAllocated: BOOLEAN]
           /\ {d.ip : d \in Details} = bound \cup leases
           /\ {d.ip : d \in {x \in Details : x.isAllocated}} = leases
           /\ {d.ip : d \in {x \in Details : x.isBound}} = bound
           /\ usedIpAmount = Cardinality(bound \cup leases)
<1> DEFINE used == bound \cup leases
<1> DEFINE entry(a) == [ip |-> a, isBound |-> a \in bound, isAllocated |-> a \in leases]
<1>1. used \subseteq Clients
  BY DEF Typed
<1>2. Details = {entry(a) : a \in used}
  BY DEF Details
<1>3. ASSUME NEW a \in used
      PROVE  /\ entry(a).ip = a
             /\ entry(a).isBound <=> a \in bound
             /\ entry(a).isAllocated <=> a \in leases
             /\ entry(a) \in [ip: Clients, isBound: BOOLEAN, isAllocated: BOOLEAN]
  <2>1. (a \in bound) \in BOOLEAN /\ (a \in leases) \in BOOLEAN
    BY SMT
  <2>2. \A p, q \in BOOLEAN : [ip |-> a, isBound |-> p, isAllocated |-> q] \in
                                [ip: Clients, isBound: BOOLEAN, isAllocated: BOOLEAN]
    BY <1>1
  <2>3. entry(a) \in [ip: Clients, isBound: BOOLEAN, isAllocated: BOOLEAN]
    BY <2>1, <2>2, Zenon
  <2>4. entry(a).ip = a /\ entry(a).isBound = (a \in bound)
    OBVIOUS
  <2>5. entry(a).isAllocated = (a \in leases)
    OBVIOUS
  <2> QED
    BY <2>3, <2>4, <2>5
<1>4. leases \subseteq used /\ bound \subseteq used
  OBVIOUS
<1> HIDE DEF entry, used
<1>5. Details \subseteq [ip: Clients, isBound: BOOLEAN, isAllocated: BOOLEAN]
  BY <1>2, <1>3
<1>6. {d.ip : d \in Details} = used
  BY <1>2, <1>3
<1>7. /\ {d.ip : d \in {x \in Details : x.isAllocated}} = leases
      /\ {d.ip : d \in {x \in Details : x.isBound}} = bound
  BY <1>2, <1>3, <1>4
<1>8. Cardinality(Details) = Cardinality(used)
  <2> DEFINE f == [a \in used |-> entry(a)]
  <2>1. f \in Bijection(used, Details)
    BY <1>2, <1>3 DEF Bijection, Injection, Surjection, IsInjective
  <2>2. IsFiniteSet(used)
    BY <1>1, StatusAssumption, FewAddresses
  <2> QED
    BY <2>1, <2>2, FS_Bijection DEF ExistsBijection
<1> QED
  BY <1>5, <1>6, <1>7, <1>8 DEF usedIpAmount, used

\* The amounts of the status that goes with the tables: exact if the range is
\* plain and holds the clients, and numbers of 64 bits in any case.
LEMMA UpdatedIsExact ==
    ASSUME Typed, NEW st \in StatusType
    PROVE  /\ Updated(st) \in StatusWith(0..2)
           /\ Allocated(Updated(st)) = leases
           /\ Bound(Updated(st)) = bound
           /\ \A n \in Nat : range <= n => ExactIn(Updated(st), n)
<1> DEFINE total == CountIPsInRange(Ranges[range])
<1> DEFINE all == Covered(Ranges[range])
<1> DEFINE used == bound \cup leases
<1>1. /\ range \in 1..Len(Ranges) /\ Ranges[range] \in Seq(Seq(IPs)) /\ WellFormed(Ranges[range])
      /\ node \in Nodes /\ node # None
  BY StatusAssumption DEF Typed
<1>2. total \in Nat /\ (Plain(Ranges[range]) => total = Cardinality(all))
  BY <1>1, CountIsExact DEF WellFormed
<1>3. /\ leases \subseteq IPs /\ bound \subseteq IPs /\ used \subseteq IPs /\ all \subseteq IPs
  BY StatusAssumption DEF Typed, Covered
<1>4. /\ Cardinality(leases) \in Nat /\ Cardinality(bound) \in Nat
      /\ Cardinality(used) \in Nat
      /\ IsFiniteSet(all) /\ Cardinality(all) \in Nat /\ Cardinality(all) <= AddressSpace
  BY <1>3, FewAddresses
<1> HIDE DEF total, all, used
<1>5. /\ Updated(st).total = total
      /\ Updated(st).available = (total - Cardinality(used)) % Word
      /\ Updated(st).active = Cardinality(leases)
      /\ Updated(st).bind = Cardinality(bound)
      /\ Updated(st).details = Details
      /\ Updated(st).hostNode = node
      /\ Updated(st).conditions \in {st.conditions, st.conditions + 1}
  BY OneEntryEach DEF Updated, total, used
<1>6. Word \in Nat \ {0} /\ AddressSpace < Word
  BY StatusAssumption
<1>7. (total - Cardinality(used)) % Word \in 0..(Word - 1)
  BY <1>2, <1>4, <1>6
<1>8. Updated(st) \in StatusWith(0..2)
  <2>1. st.conditions \in {0, 1}
    BY DEF StatusType, StatusWith
  <2>2. Updated(st).conditions \in 0..2
    BY <1>5, <2>1
  <2>3. Details \in SUBSET [ip: Clients, isBound: BOOLEAN, isAllocated: BOOLEAN]
    BY OneEntryEach
  <2>4. Updated(st) = [total |-> total,
     available |-> (total - Cardinality(used)) % Word,
                       active |-> Cardinality(leases), bind |-> Cardinality(bound),
                       details |-> Details, hostNode |-> node,
                       conditions |-> Updated(st).conditions]
    BY <1>5, OneEntryEach DEF Updated, total, used
  <2> HIDE DEF Updated
  <2> QED
    BY <1>1, <1>2, <1>4, <1>7, <2>2, <2>3, <2>4 DEF StatusWith
<1>9. Allocated(Updated(st)) = leases /\ Bound(Updated(st)) = bound
  BY <1>5, OneEntryEach DEF Allocated, Bound
<1>10. ASSUME Plain(Ranges[range]), used \subseteq all
       PROVE  Updated(st).available = Cardinality(all \ used)
  <2>1. Cardinality(all \ used) = Cardinality(all) - Cardinality(all \cap used)
    BY <1>4, FS_Difference
  <2>2. Cardinality(all \cap used) = Cardinality(used)
    <3>1. all \cap used = used
      BY <1>10
    <3> QED
      BY <3>1, Zenon
  <2>3. Cardinality(all \ used) \in Nat
    <3>1. all \ used \in SUBSET IPs
      BY <1>3
    <3> QED
      BY <3>1, FewAddresses
  <2>4. total = Cardinality(all)
    BY <1>2, <1>10
  <2>5. total - Cardinality(used) \in 0..(Word - 1)
    BY <1>4, <1>6, <2>1, <2>2, <2>3, <2>4, AddressSpaceAssumption
  <2> QED
    BY <1>5, <1>6, <2>1, <2>2, <2>4, <2>5, SmallRemainder
<1>11. ASSUME NEW n \in Nat, range <= n
       PROVE  ExactIn(Updated(st), n)
  <2>1. {d.ip : d \in Updated(st).details} = used
    BY <1>5, OneEntryEach DEF used
  <2>2. range \in 1..n
    BY <1>1, <1>11
  <2> HIDE DEF Updated
  <2> QED
    BY <1>2, <1>5, <1>10, <2>1, <2>2, Zenon DEF ExactIn, total, all
<1> QED
  BY <1>8, <1>9, <1>11

-----------------------------------------------------------------------------
(* Facts the steps rest on                                                   *)

\* The ranges are numbered.
LEMMA InNat == /\ Len(Ranges) \in Nat /\ DOMAIN Ranges = 1..Len(Ranges)
               /\ \A i \in DOMAIN Ranges : i \in Nat
<1>1. Len(Ranges) \in Nat /\ DOMAIN Ranges = 1..Len(Ranges)
  BY StatusAssumption
<1> QED
  BY <1>1

\* Amounts that are exact for some of the ranges are so for more of them.
LEMMA ExactStays ==
    ASSUME NEW st, NEW m \in Nat, NEW n \in Nat, m <= n, ExactIn(st, m)
    PROVE  ExactIn(st, n)
<1>1. \A i \in 1..m : i \in 1..n
  OBVIOUS
<1> QED
  BY <1>1, Zenon DEF ExactIn

\* One more condition leaves the amounts alone.
LEMMA ConditionAdded ==
    ASSUME NEW o \in Objects
    PROVE  /\ [o EXCEPT !.status.conditions = @ + 1] \in Copies
           /\ [o EXCEPT !.status.conditions = @ + 1].version = o.version
           /\ \A n : ExactIn(o.status, n) =>
                 ExactIn([o EXCEPT !.status.conditions = @ + 1].status, n)
<1> DEFINE st == [o.status EXCEPT !.conditions = @ + 1]
<1>1. o.status \in StatusType /\ o = [version |-> o.version, range |-> o.range,
   status |-> o.status]
  BY DEF Objects
<1>2. st \in StatusWith(0..2)
  BY <1>1 DEF StatusType, StatusWith
<1>3. /\ st.hostNode = o.status.hostNode /\ st.total = o.status.total
      /\ st.available = o.status.available /\ st.details = o.status.details
  BY <1>1 DEF StatusType, StatusWith
<1>4. [o EXCEPT !.status.conditions = @ + 1] = [o EXCEPT !.status = st]
  OBVIOUS
<1> HIDE DEF st
<1>5. [o EXCEPT !.status = st] \in Copies
  BY <1>2 DEF Objects, Copies
<1>6. [o EXCEPT !.status = st].version = o.version /\ [o EXCEPT !.status = st].status = st
  BY DEF Objects
<1>7. \A n : ExactIn(o.status, n) => ExactIn(st, n)
  BY <1>3, Zenon DEF ExactIn
<1> QED
  BY <1>4, <1>5, <1>6, <1>7

\* The status of a copy that the API server accepts is one it may store.
LEMMA AcceptedIsTyped ==
    ASSUME NEW o \in Copies, ~Invalid(o)
    PROVE  o.status \in StatusType
<1>1. o.status \in StatusWith(0..2) /\ ~(o.status.conditions > 1)
  BY DEF Copies, Invalid
<1>2. o.status.conditions \in {0, 1}
  BY <1>1 DEF StatusWith
<1> QED
  BY <1>1, <1>2 DEF StatusWith, StatusType

\* What Store does to the object.
LEMMA StoreEffect ==
    ASSUME object \in Objects, NEW o \in Copies, ~Invalid(o), Store(o)
    PROVE  /\ object' \in Objects /\ object'.version = object.version + 1
           /\ object'.range = object.range /\ object'.status = o.status
<1>1. o.status \in StatusType
  BY AcceptedIsTyped
<1>2. object.version + 1 \in Nat
  BY DEF Objects
<1> DEFINE v == object.version + 1
<1>3. object' = [object EXCEPT !.version = v, !.status = o.status]
  BY DEF Store
<1> HIDE DEF v
<1>4. v \in Nat
  BY <1>2 DEF v
<1>5. object' \in Objects /\ object'.version = v
  BY <1>1, <1>3, <1>4 DEF Objects
<1>6. object'.range = object.range /\ object'.status = o.status
  BY <1>3 DEF Objects
<1> QED
  BY <1>5, <1>6 DEF v

\* The worker that waits.
LEMMA IdleTyped ==
    Idle \in Workers /\ Idle.pc = "select" /\ Idle.updated = None
  BY StatusAssumption DEF Idle, Workers

\* The initial state has no status yet.
LEMMA InitEstablishesInv == Init => StatusInv
<1> SUFFICES ASSUME Init PROVE StatusInv
  OBVIOUS
<1> USE DEF Init
<1>1. NoStatus \in StatusType /\ NoStatus.hostNode = None
  BY StatusAssumption DEF NoStatus, StatusType, StatusWith
<1>2. 1 \in DOMAIN Ranges
  BY StatusAssumption
<1> HIDE DEF NoStatus
<1>3. object \in Objects /\ seen \in Objects
  BY <1>1, <1>2 DEF Objects
<1>4. Typed /\ Behind /\ Alive /\ Held
  BY <1>2, <1>3, IdleTyped DEF Typed, Behind, Alive, Held
<1>5. Exact
  BY <1>1, IdleTyped DEF Exact, ExactIn
<1> QED
  BY <1>4, <1>5 DEF StatusInv

-----------------------------------------------------------------------------
(* Every step keeps the invariant                                            *)

\* A longer range keeps the ranges before it.
LEMMA ExpandKeepsInv ==
    ASSUME StatusInv, ExpandRange
    PROVE  StatusInv'
<1> USE StatusAssumption DEF StatusInv, Typed, serverVars, tables
<1>a. /\ object.version \in Nat /\ object.range \in Nat /\ seen.version \in Nat
      /\ seen.range \in DOMAIN Ranges /\ seen.range \in Nat /\ range \in Nat
  BY InNat DEF Objects
<1>b. /\ object' \in Objects /\ object'.version = object.version + 1
      /\ object'.range = object.range + 1 /\ object'.status = object.status
      /\ UNCHANGED <<seen, leaseFile, node, up, serverVars>>
  <2> DEFINE v == object.version + 1
  <2> DEFINE i == object.range + 1
  <2>1. v \in Nat /\ i \in DOMAIN Ranges
    BY SMTT(30), <1>a, InNat DEF ExpandRange, Objects
  <2>2. /\ object' = [object EXCEPT !.version = v, !.range = i]
        /\ UNCHANGED <<seen, leaseFile, node, up, serverVars>>
    BY DEF ExpandRange
  <2> HIDE DEF v, i
  <2>3. /\ object' \in Objects /\ object'.version = v
        /\ object'.range = i /\ object'.status = object.status
    BY <2>1, <2>2 DEF Objects
  <2> QED
    BY <2>2, <2>3 DEF v, i
<1>c. \A st : ExactIn(st, object.range) => ExactIn(st, object'.range)
  BY <1>a, <1>b, ExactStays
<1>1. Typed'
  BY <1>a, <1>b, <1>c
<1>2. Behind'
  <2>1. seen' = seen /\ range' = range /\ object'.version = object.version + 1 /\
     object'.range = object.range + 1
    BY <1>b
  <2>2. seen.version <= object.version /\ seen.range <= object.range /\
     range <= object.range
    BY DEF Behind
  <2>3. seen.version <= object.version + 1 /\ seen.range <= object.range + 1 /\
     range <= object.range + 1
    BY SMTT(30), <1>a, <2>2
  <2> QED
    BY <2>1, <2>3 DEF Behind
<1>3. Exact'
  BY <1>a, <1>b, <1>c, <1>1 DEF Exact
<1>4. Alive' /\ Held'
  BY <1>a, <1>b, <1>c DEF Alive, Held
<1> QED
  BY <1>1, <1>2, <1>3, <1>4 DEF StatusInv

\* The lease file changes, or the informer cache catches up.
LEMMA OutsideKeepsInv ==
    ASSUME StatusInv, (\E a \in Clients : Lease(a)) \/ Observe
    PROVE  StatusInv'
<1> USE StatusAssumption DEF StatusInv, Typed, serverVars, tables
<1>1. ASSUME NEW a \in Clients, Lease(a)
      PROVE  StatusInv'
  <2>1. Typed'
    BY <1>1 DEF Lease
  <2>2. Behind' /\ Alive' /\ Held' /\ Exact'
    BY <1>1 DEF Lease, Behind, Alive, Held, Exact
  <2> QED
    BY <2>1, <2>2 DEF StatusInv
<1>2. ASSUME Observe
      PROVE  StatusInv'
  <2>1. Typed'
    BY <1>2 DEF Observe
  <2>2. Behind'
    BY SMTT(30), <1>2, <2>1 DEF Observe, Behind, Objects
  <2>3. Exact'
    BY <1>2, <2>1 DEF Observe, Exact
  <2>4. Alive' /\ Held'
    BY <1>2 DEF Observe, Alive, Held
  <2> QED
    BY <2>1, <2>2, <2>3, <2>4 DEF StatusInv
<1> QED
  BY <1>1, <1>2

\* A server that starts reads the leases from the file.
LEMMA RunKeepsInv ==
    ASSUME StatusInv, Run
    PROVE  StatusInv'
<1> USE StatusAssumption DEF StatusInv, Typed, serverVars, tables
<1>a. /\ object.version \in Nat /\ object.range \in Nat /\ seen.version \in Nat
      /\ seen.range \in DOMAIN Ranges /\ seen.range \in Nat /\ range \in Nat
  BY InNat DEF Objects
<1>b. /\ ~up /\ up' = TRUE /\ range' = seen.range /\ leases' = leaseFile /\ monitor' = "notify"
      /\ UNCHANGED <<object, seen, leaseFile, node, bound, restartCh, worker, pendingUpdate>>
  BY DEF Run
<1>1. Typed'
  BY <1>a, <1>b
<1>2. Behind'
  BY <1>a, <1>b, <1>1 DEF Behind
<1>3. Alive'
  BY <1>a, <1>b, <1>1 DEF Alive
<1>4. Held'
  BY <1>a, <1>b, <1>1 DEF Held, Alive
<1>5. Exact'
  BY <1>a, <1>b DEF Exact
<1> QED
  BY <1>1, <1>2, <1>3, <1>4, <1>5 DEF StatusInv

\* A status with exact amounts is stored, or nothing is.
LEMMA StoredKeepsInv ==
    ASSUME StatusInv, NEW o \in Copies, ExactIn(o.status, object.range),
           UNCHANGED object \/ (~Invalid(o) /\ Store(o)),
           UNCHANGED <<seen, leaseFile, node, up, tables, monitor, restartCh>>,
           \/ UNCHANGED <<worker, pendingUpdate>>
           \/ worker' = Idle /\ pendingUpdate' = FALSE
    PROVE  StatusInv'
<1> USE StatusAssumption DEF StatusInv, Typed, serverVars, tables
<1>a. /\ object.version \in Nat /\ object.range \in Nat /\ seen.version \in Nat
      /\ seen.range \in DOMAIN Ranges /\ seen.range \in Nat /\ range \in Nat
  BY InNat DEF Objects
<1>b. /\ object' \in Objects /\ object.version <= object'.version
      /\ object'.range = object.range /\ object'.status \in {object.status, o.status}
  BY SMTT(30), <1>a, StoreEffect
<1>c. /\ Idle \in Workers /\ Idle.pc = "select" /\ Idle.updated = None
  BY IdleTyped
<1>1. Typed'
  BY <1>a, <1>b, <1>c
<1>2. Behind'
  BY <1>a, <1>b, <1>c, <1>1 DEF Behind, Objects
<1>3. Alive'
  BY SMTT(30), <1>a, <1>b, <1>c, <1>1 DEF Alive
<1>4. Held'
  BY <1>a, <1>b, <1>c, <1>1 DEF Held
<1>5. Exact'
  BY <1>a, <1>b, <1>c, <1>1 DEF Exact
<1> QED
  BY <1>1, <1>2, <1>3, <1>4, <1>5 DEF StatusInv

\* A restart forgets the tables and the worker.
LEMMA RestartKeepsInv ==
    ASSUME StatusInv, NEW n \in Nodes, Restart(n)
    PROVE  StatusInv'
<1> USE StatusAssumption DEF StatusInv, Typed, serverVars, tables
<1>a. /\ object.version \in Nat /\ object.range \in Nat /\ seen.version \in Nat
      /\ seen.range \in DOMAIN Ranges /\ seen.range \in Nat /\ range \in Nat
  BY InNat DEF Objects
<1>b. /\ node' = n /\ up' = FALSE /\ seen' = object /\ leases' = {} /\ bound' = {}
      /\ monitor' = "select" /\ restartCh' = FALSE /\ worker' = Idle /\ pendingUpdate' = FALSE
      /\ UNCHANGED <<object, leaseFile, range>>
  BY DEF Restart
<1>c. /\ Idle \in Workers /\ Idle.pc = "select" /\ Idle.updated = None
  BY IdleTyped
<1>1. Typed'
  BY <1>a, <1>b, <1>c
<1>2. Behind'
  BY <1>a, <1>b, <1>c, <1>1 DEF Behind
<1>3. Alive'
  BY <1>a, <1>b, <1>c, <1>1 DEF Alive
<1>4. Held'
  BY <1>a, <1>b, <1>c, <1>1 DEF Held
<1>5. Exact'
  BY <1>a, <1>b, <1>c, <1>1 DEF Exact
<1> QED
  BY <1>1, <1>2, <1>3, <1>4, <1>5 DEF StatusInv

\* The monitor and UpdateService change the tables while the worker does not
\* hold the lock; only a binding may go in between.
LEMMA MonitorKeepsInv ==
    ASSUME StatusInv, \/ LeaseEvent \/ RestartEvent \/ UpdateService \/ Signal
           \/ \E a \in Clients : BindingAdded(a) \/ BindingDeleted(a)
    PROVE  StatusInv'
<1> USE StatusAssumption DEF StatusInv, Typed, serverVars, tables
<1>1. ASSUME LeaseEvent
      PROVE  StatusInv'
  <2>1. Typed'
    BY <1>1 DEF LeaseEvent, CanLock
  <2>2. Alive'
    BY <1>1, <2>1 DEF LeaseEvent, CanLock, Alive
  <2>3. Held'
    BY <1>1, <2>1 DEF LeaseEvent, CanLock, Held
  <2>4. Behind' /\ Exact'
    BY <1>1 DEF LeaseEvent, CanLock, Behind, Exact
  <2> QED
    BY <2>1, <2>2, <2>3, <2>4 DEF StatusInv
<1>2. ASSUME RestartEvent
      PROVE  StatusInv'
  <2>1. Typed'
    BY <1>2 DEF RestartEvent, CanLock, Reloaded
  <2>2. Alive'
    BY <1>2, <2>1 DEF RestartEvent, CanLock, Reloaded, Alive
  <2>3. Held'
    BY <1>2, <2>1 DEF RestartEvent, CanLock, Reloaded, Held
  <2>4. Behind' /\ Exact'
    BY <1>2 DEF RestartEvent, CanLock, Reloaded, Behind, Exact
  <2> QED
    BY <2>1, <2>2, <2>3, <2>4 DEF StatusInv
<1>3. ASSUME UpdateService
      PROVE  StatusInv'
  <2>1. Typed'
    BY <1>3 DEF UpdateService, CanLock, Objects
  <2>2. Behind'
    BY <1>3, <2>1 DEF UpdateService, CanLock, Objects, Behind
  <2>3. Alive'
    BY <1>3, <2>1 DEF UpdateService, CanLock, Objects, Alive
  <2>4. Held' /\ Exact'
    BY <1>3 DEF UpdateService, CanLock, Objects, Held, Exact
  <2> QED
    BY <2>1, <2>2, <2>3, <2>4 DEF StatusInv
<1>4. ASSUME Signal
      PROVE  StatusInv'
  <2>1. Typed'
    BY <1>4 DEF Signal
  <2>2. Alive'
    BY <1>4, <2>1 DEF Signal, Alive
  <2>3. Behind' /\ Held' /\ Exact'
    BY <1>4 DEF Signal, Behind, Held, Exact
  <2> QED
    BY <2>1, <2>2, <2>3 DEF StatusInv
<1>5. ASSUME NEW a \in Clients, BindingAdded(a)
      PROVE  StatusInv'
  <2>1. Typed'
    BY <1>5 DEF BindingAdded, CanLock, Reloaded
  <2>2. Alive'
    BY <1>5, <2>1 DEF BindingAdded, CanLock, Reloaded, Alive
  <2>3. Held'
    BY <1>5, <2>1 DEF BindingAdded, CanLock, Reloaded, Held
  <2>4. Behind' /\ Exact'
    BY <1>5 DEF BindingAdded, CanLock, Reloaded, Behind, Exact
  <2> QED
    BY <2>1, <2>2, <2>3, <2>4 DEF StatusInv
<1>6. ASSUME NEW a \in Clients, BindingDeleted(a)
      PROVE  StatusInv'
  <2>1. Typed'
    BY <1>6 DEF BindingDeleted, Reloaded
  <2>2. Alive'
    BY <1>6, <2>1 DEF BindingDeleted, Reloaded, Alive
  <2>3. Held'
    BY <1>6, <2>1 DEF BindingDeleted, Reloaded, Held
  <2>4. Behind' /\ Exact'
    BY <1>6 DEF BindingDeleted, Reloaded, Behind, Exact
  <2> QED
    BY <2>1, <2>2, <2>3, <2>4 DEF StatusInv
<1> QED
  BY <1>1, <1>2, <1>3, <1>4, <1>5, <1>6

\* The ticker starts an update of the status, and a conflict starts it again.
LEMMA TickKeepsInv ==
    ASSUME StatusInv, NEW t \in 0..(Steps - 1), worker' = [pc |-> "read", tries |-> t, updated |-> None],
           pendingUpdate,
           UNCHANGED <<object, seen, leaseFile, node, up, tables, monitor, restartCh, pendingUpdate>>
    PROVE  StatusInv'
<1> USE StatusAssumption DEF StatusInv, Typed, serverVars, tables
<1>a. worker' \in Workers /\ worker'.pc = "read" /\ worker'.updated = None
  BY DEF Workers
<1>1. Typed'
  BY <1>a
<1>2. Alive'
  BY <1>a, <1>1 DEF Alive
<1>3. Held'
  BY <1>a, <1>1 DEF Held
<1>4. Exact'
  BY <1>a, <1>1 DEF Exact
<1>5. Behind'
  BY <1>a DEF Behind
<1> QED
  BY <1>1, <1>2, <1>3, <1>4, <1>5 DEF StatusInv

\* The worker computes the status from the tables and keeps the lock.
LEMMA ReadKeepsInv ==
    ASSUME StatusInv, Read
    PROVE  StatusInv'
<1> USE StatusAssumption DEF StatusInv, Typed, serverVars, tables
<1>a. /\ object.version \in Nat /\ object.range \in Nat /\ seen.version \in Nat
      /\ seen.range \in DOMAIN Ranges /\ seen.range \in Nat /\ range \in Nat
  BY InNat DEF Objects
<1>b. seen.status \in StatusType /\ range <= object.range
  BY DEF Objects, Behind
<1>c. /\ Updated(seen.status) \in StatusWith(0..2)
      /\ Allocated(Updated(seen.status)) = leases /\ Bound(Updated(seen.status)) = bound
      /\ ExactIn(Updated(seen.status), object.range)
  BY <1>a, <1>b, UpdatedIsExact
<1>d. PICK o :
        /\ o \in Copies /\ o.status = Updated(seen.status) /\ o # None
        /\ worker' = [worker EXCEPT !.pc = "write", !.updated = o]
  <2> DEFINE o == [seen EXCEPT !.status = Updated(seen.status)]
  <2> HIDE DEF Updated
  <2>1. o \in Copies /\ o.status = Updated(seen.status)
    BY <1>c DEF Objects, Copies
  <2>2. o # None
    BY <2>1, NoneAssumption
  <2>3. worker' = [worker EXCEPT !.pc = "write", !.updated = o]
    BY DEF Read
  <2> HIDE DEF o
  <2> QED
    BY <2>1, <2>2, <2>3
<1>e. /\ worker' \in Workers /\ worker'.pc = "write" /\ worker'.updated = o
  BY <1>d DEF Workers
<1>f. /\ worker.pc = "read"
      /\ UNCHANGED <<object, seen, leaseFile, node, up, tables, monitor, restartCh, pendingUpdate>>
  BY DEF Read
<1>1. Typed'
  BY <1>a, <1>b, <1>c, <1>d, <1>e, <1>f
<1>2. Alive'
  BY <1>a, <1>b, <1>c, <1>d, <1>e, <1>f, <1>1 DEF Alive
<1>3. Held'
  BY <1>a, <1>b, <1>c, <1>d, <1>e, <1>f, <1>1 DEF Held
<1>4. Exact'
  BY <1>a, <1>b, <1>c, <1>d, <1>e, <1>f, <1>1 DEF Exact
<1>5. Behind'
  BY <1>a, <1>b, <1>c, <1>d, <1>e, <1>f DEF Behind
<1> QED
  BY <1>1, <1>2, <1>3, <1>4, <1>5 DEF StatusInv

\* A step that leaves all the invariant looks at alone.
LEMMA StutterKeepsInv ==
    ASSUME StatusInv,
           UNCHANGED <<object, seen, leaseFile, node, up, serverVars>>
    PROVE  StatusInv'
<1> USE DEF StatusInv, serverVars, tables
<1>1. Typed' /\ Behind' /\ Alive'
  BY DEF Typed, Behind, Alive
<1>2. Held' /\ Exact'
  BY DEF Held, Exact, Allocated, Bound
<1> QED
  BY <1>1, <1>2

\* The worker returns: nothing was stored, or the status it computed.
LEMMA ReturnKeepsInv ==
    ASSUME StatusInv, NEW lost, Return(lost),
           \/ UNCHANGED object
           \/ worker.pc = "write" /\ ~Invalid(worker.updated) /\ Store(worker.updated)
    PROVE  StatusInv'
<1>1. /\ worker' = Idle /\ pendingUpdate' = FALSE
      /\ UNCHANGED <<seen, leaseFile, node, up, tables, monitor, restartCh>>
  BY DEF Return
<1>2. CASE UNCHANGED object
  <2>1. object \in Objects /\ ExactIn(object.status, object.range)
    BY DEF StatusInv, Typed, Exact
  <2>2. object \in Copies
    BY <2>1 DEF Objects, Copies, StatusType, StatusWith
  <2> QED
    BY <1>1, <1>2, <2>1, <2>2, StoredKeepsInv
<1>3. CASE worker.pc = "write" /\ ~Invalid(worker.updated) /\ Store(worker.updated)
  <2>1. worker.updated \in Copies /\ ExactIn(worker.updated.status, object.range)
    BY <1>3 DEF StatusInv, Typed, Workers, Held, Exact
  <2> QED
    BY <1>1, <1>3, <2>1, StoredKeepsInv
<1> QED
  BY <1>2, <1>3

\* A start that fails stores the cached status with one condition more.
LEMMA RunFailsKeepsInv ==
    ASSUME StatusInv, RunFails
    PROVE  StatusInv'
<1> DEFINE updated == [seen EXCEPT !.status.conditions = @ + 1]
<1>1. seen \in Objects /\ ExactIn(seen.status, object.range)
  BY DEF StatusInv, Typed, Exact
<1>2. updated \in Copies /\ ExactIn(updated.status, object.range)
  BY <1>1, ConditionAdded
<1>3. /\ UNCHANGED object \/ (~Invalid(updated) /\ Store(updated))
      /\ UNCHANGED <<seen, leaseFile, node, up, serverVars>>
  BY DEF RunFails
<1>4. UNCHANGED <<tables, monitor, restartCh, worker, pendingUpdate>>
  BY <1>3 DEF serverVars
<1> HIDE DEF updated
<1> QED
  BY <1>2, <1>3, <1>4, StoredKeepsInv

\* The steps of the worker.
LEMMA WorkerKeepsInv ==
    ASSUME StatusInv, WorkerNext
    PROVE  StatusInv'
<1>1. CASE Tick
  <2>1. worker' = [pc |-> "read", tries |-> 0, updated |-> None] /\ 0 \in 0..(Steps - 1)
    <3>1. [Idle EXCEPT !.pc = "read"] = [pc |-> "read", tries |-> 0, updated |-> None]
      BY DEF Idle
    <3> QED
      BY <1>1, <3>1, StatusAssumption DEF Tick
  <2> QED
    BY <1>1, <2>1, TickKeepsInv DEF Tick
<1>2. CASE ReadFails
  BY <1>2, ReturnKeepsInv DEF ReadFails
<1>3. CASE Skip
  BY <1>3, ReturnKeepsInv DEF Skip
<1>4. CASE Read
  BY <1>4, ReadKeepsInv
<1>5. CASE Write
  BY <1>5, ReturnKeepsInv DEF Write
<1>6. CASE WriteConflicts
  <2>1. CASE worker.tries + 1 < Steps
    <3>1. worker.tries \in 0..(Steps - 1) /\ Steps \in Nat /\ pendingUpdate
      BY <1>6, StatusAssumption DEF WriteConflicts, StatusInv, Typed, Workers, Alive
    <3>2. worker.tries + 1 \in 0..(Steps - 1)
      BY <2>1, <3>1
    <3>3. /\ worker' = [pc |-> "read", tries |-> worker.tries + 1, updated |-> None]
          /\ UNCHANGED <<object, seen, leaseFile, node, up, tables, monitor, restartCh,
                         pendingUpdate>>
      BY <1>6, <2>1 DEF WriteConflicts
    <3> QED
      BY <3>1, <3>2, <3>3, TickKeepsInv
  <2>2. CASE ~(worker.tries + 1 < Steps)
    BY <1>6, <2>2, ReturnKeepsInv DEF WriteConflicts
  <2> QED
    BY <2>1, <2>2
<1>7. CASE WriteFails
  BY <1>7, ReturnKeepsInv DEF WriteFails
<1> QED
  BY <1>1, <1>2, <1>3, <1>4, <1>5, <1>6, <1>7 DEF WorkerNext

\* Any step keeps the invariant.
LEMMA NextKeepsInv == StatusInv /\ [Next]_vars => StatusInv'
<1> SUFFICES ASSUME StatusInv, [Next]_vars PROVE StatusInv'
  OBVIOUS
<1>1. CASE UNCHANGED vars
  BY <1>1, StutterKeepsInv DEF vars
<1> QED
  BY <1>1, ExpandKeepsInv, OutsideKeepsInv, RunKeepsInv, RunFailsKeepsInv,
     RestartKeepsInv,
     MonitorKeepsInv, WorkerKeepsInv DEF Next, MonitorNext

-----------------------------------------------------------------------------
(* The theorems                                                              *)

\* StatusInv holds in every reachable state.
THEOREM StatusInvariant == Spec => []StatusInv
  BY InitEstablishesInv, NextKeepsInv, PTL DEF Spec

\* Type correctness; in particular the stored object never holds two conditions
\* of one type, and updateSubnetWithRetry makes no more than Steps attempts.
THEOREM StatusTypeCorrect == Spec => []TypeOK
<1>1. StatusInv => TypeOK
  <2> SUFFICES ASSUME StatusInv PROVE TypeOK
    OBVIOUS
  <2> USE DEF StatusInv, Typed
  <2>1. object.status \in StatusType /\ object.range \in DOMAIN Ranges
    BY DEF Objects
  <2>2. range \in 1..object.range
    BY <2>1, StatusAssumption DEF Behind
  <2>3. worker.pc \in {"select", "read", "write"} /\ worker.tries < Steps
    BY StatusAssumption DEF Workers
  <2>4. worker.pc # "select" => pendingUpdate /\ up
    BY DEF Alive
  <2> QED
    BY <2>1, <2>2, <2>3, <2>4 DEF TypeOK, Behind, Held
<1> QED
  BY <1>1, StatusInvariant, PTL

\* Whatever the order of lease events, bindings, range expansions, cached
\* copies, failed writes and restarts, the amounts in the status are those of a
\* range the Subnet has had: exact if its parts do not overlap and hold all
\* the clients.
THEOREM AmountsExactAlways == Spec => []AmountsExact
<1>1. StatusInv => AmountsExact
  BY DEF StatusInv, Exact, ExactIn, AmountsExact
<1> QED
  BY <1>1, StatusInvariant, PTL

\* What the worker stores is what the tables hold at that moment, but for a
\* binding whose entry is deleted without the lock.
THEOREM WriteIsFreshAlways == Spec => WriteIsFresh
<1> DEFINE Fresh ==
      (worker.pc = "write" /\ object'.status # object.status) =>
          /\ {d.ip : d \in {x \in object'.status.details : x.isAllocated}} = leases
          /\ bound \subseteq {d.ip : d \in {x \in object'.status.details : x.isBound}}
<1>1. ASSUME StatusInv, Next, worker.pc = "write", object'.status # object.status
      PROVE  object'.status = worker.updated.status
  <2>1. object \in Objects /\ up
    BY <1>1 DEF StatusInv, Typed, Alive
  <2>2. ~ExpandRange
    BY <1>1, <2>1 DEF ExpandRange, Objects
  <2>3. Store(worker.updated) => object'.status = worker.updated.status
    BY <2>1 DEF Store, Objects
  <2> QED
    BY <1>1, <2>1, <2>2, <2>3
       DEF Next, MonitorNext, WorkerNext, Observe, Run, RunFails, UpdateService, Signal,
           LeaseEvent, RestartEvent, BindingAdded, BindingDeleted, Lease, Restart, Tick,
           ReadFails, Skip, Read, Write, WriteConflicts, WriteFails
<1>2. StatusInv /\ [Next]_vars => [Fresh]_vars
  <2> SUFFICES ASSUME StatusInv, Next, worker.pc = "write", object'.status # object.status
               PROVE  Fresh
    OBVIOUS
  <2>1. object'.status = worker.updated.status
    BY <1>1
  <2>2. /\ Allocated(worker.updated.status) = leases
        /\ bound \subseteq Bound(worker.updated.status)
    BY DEF StatusInv, Held
  <2> QED
    BY <2>1, <2>2, Zenon DEF Allocated, Bound
<1> QED
  BY <1>2, StatusInvariant, PTL DEF Spec, WriteIsFresh
=============================================================================
