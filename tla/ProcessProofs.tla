--------------------------- MODULE ProcessProofs ---------------------------
(***************************************************************************)
(* The instances and the numbers Process reports, for every set of         *)
(* domains, every topology and every number of changes and failures.       *)
(***************************************************************************)
EXTENDS ProcessArithmetic

States == {"absent", "inactive", "active"}

Later == {"capabilities", "domcapabilities", "domains", "domainInfo", "effective",
          "done"}

EntriesIn(found, d) == {e \in found : e[1] = d}

Running(d) == IF state[d] = "active" THEN {<<d, TRUE>>} ELSE {}

Present(d) == IF state[d] = "absent" THEN {} ELSE {<<d, state[d] = "active">>}

Shape ==
  /\ "instances" \in DOMAIN hv /\ "instances" \in DOMAIN stored
  /\ state \in [Domains -> States]

\* What a list says of the domains that have not changed, step by step.
IInv ==
  /\ Shape
  /\ pc = "activeInfo" =>
       \A d \in Domains \ touched : d \in names <=> state[d] = "active"
  /\ pc \in {"inactive", "inactiveInfo"} =>
       \A d \in Domains \ touched : EntriesIn(instances, d) = Running(d)
  /\ pc = "inactiveInfo" =>
       \A d \in Domains \ touched : d \in names <=> state[d] = "inactive"
  /\ pc \in Later =>
       \A d \in Domains \ touched : EntriesIn(hv.instances, d) = Present(d)

LEMMA InitInv == Init => IInv
  BY DEF Init, IInv, Shape, States, EmptyStatus, Later

\* The entries that a list contributes for a domain.
LEMMA EntriesOfList ==
  ASSUME NEW S, NEW b, NEW d
  PROVE  EntriesIn(S \X {b}, d) = IF d \in S THEN {<<d, b>>} ELSE {}
<1>1. \A e \in S \X {b} : e = <<e[1], b>> /\ e[1] \in S
  OBVIOUS
<1>2. d \in S => <<d, b>> \in S \X {b} /\ <<d, b>>[1] = d
  OBVIOUS
<1>3. CASE d \in S
  BY <1>1, <1>2, <1>3 DEF EntriesIn
<1>4. CASE d \notin S
  BY <1>1, <1>4 DEF EntriesIn
<1> QED
  BY <1>3, <1>4

\* A step that leaves the lists, the reported instances and the domains alone
\* keeps the invariant when it moves between later steps.
LEMMA LaterStep ==
  ASSUME IInv, pc \in Later, pc' \in Later,
         "instances" \in DOMAIN hv', hv'.instances = hv.instances,
         UNCHANGED <<stored, state, touched>>
  PROVE  IInv'
  BY DEF IInv, Shape, Later, EntriesIn, Present

LEMMA StepInv == IInv /\ [Next]_vars => IInv'
<1> SUFFICES ASSUME IInv, [Next]_vars PROVE IInv'
  OBVIOUS
<1>1. CASE Call
  <2>1. pc' = "active" /\ Shape'
    BY <1>1 DEF Call, IInv, Shape
  <2> QED
    BY <2>1 DEF IInv, Later
<1>2. CASE List
  <2>1. Shape'
    BY <1>2 DEF List, IInv, Shape, world
  <2>2. pc \in {"active", "inactive", "domains"}
    BY <1>2 DEF List, Asked
  <2>3. CASE pc = "active"
    <3>1. pc' = "activeInfo" /\ names' = {d \in Domains : state[d] = "active"}
      BY <1>2, <2>3 DEF List, Asked, Described
    <3> QED
      BY <1>2, <2>1, <3>1 DEF List, IInv, Later, world
  <2>4. CASE pc = "inactive"
    <3>1. pc' = "inactiveInfo" /\ names' = {d \in Domains : state[d] = "inactive"}
      BY <1>2, <2>4 DEF List, Asked, Described
    <3>2. \A d \in Domains \ touched : EntriesIn(instances, d) = Running(d)
      BY <2>4 DEF IInv
    <3> QED
      BY <1>2, <2>1, <3>1, <3>2 DEF List, IInv, Later, world, EntriesIn, Running
  <2>5. CASE pc = "domains"
    <3>1. pc' = "domainInfo"
      BY <1>2, <2>5 DEF List, Described
    <3> QED
      BY <1>2, <2>5, <3>1, LaterStep DEF List, IInv, Shape, Later, world
  <2> QED
    BY <2>2, <2>3, <2>4, <2>5
<1>3. CASE Describe
  BY <1>3 DEF Describe, IInv, Shape, Later, EntriesIn, Running, Present, world
<1>4. CASE AddActive
  <2>1. \A d \in Domains \ touched : EntriesIn(instances', d) = Running(d)
    BY <1>4, EntriesOfList DEF AddActive, IInv, Running
  <2> QED
    BY <1>4, <2>1 DEF AddActive, IInv, Shape, Later, EntriesIn, Running, world
<1>5. CASE AddInactive
  <2>1. "instances" \in DOMAIN hv' /\ hv'.instances = instances \cup (names \X {FALSE})
    BY <1>5 DEF AddInactive, IInv, Shape
  <2>2. ASSUME NEW d \in Domains \ touched
        PROVE  EntriesIn(hv'.instances, d) = Present(d)
    <3>1. EntriesIn(hv'.instances, d)
            = Running(d) \cup (IF d \in names THEN {<<d, FALSE>>} ELSE {})
      <4>1. EntriesIn(hv'.instances, d)
              = EntriesIn(instances, d) \cup EntriesIn(names \X {FALSE}, d)
        <5>1. EntriesIn(instances \cup (names \X {FALSE}), d)
                = EntriesIn(instances, d) \cup EntriesIn(names \X {FALSE}, d)
          BY DEF EntriesIn
        <5> QED
          BY <2>1, <5>1 DEF EntriesIn
      <4>2. EntriesIn(names \X {FALSE}, d) = IF d \in names THEN {<<d, FALSE>>} ELSE {}
        BY EntriesOfList, Zenon
      <4>3. EntriesIn(instances, d) = Running(d)
        BY <1>5 DEF AddInactive, IInv
      <4> QED
        BY <4>1, <4>2, <4>3, Zenon
    <3>2. d \in names <=> state[d] = "inactive"
      BY <1>5 DEF AddInactive, IInv
    <3>3. state[d] \in States
      BY DEF IInv, Shape
    <3>4. CASE state[d] = "active"
      <4>1. (state[d] = "active") = TRUE
        BY <3>4, Zenon
      <4> QED
        BY <3>1, <3>2, <3>4, <4>1 DEF Running, Present
    <3>5. CASE state[d] # "active"
      <4>1. (state[d] = "active") = FALSE
        BY <3>5, Zenon
      <4> QED
        BY <3>1, <3>2, <3>3, <3>5, <4>1 DEF Running, Present, States
    <3> QED
      BY <3>4, <3>5
  <2> QED
    BY <1>5, <2>1, <2>2 DEF AddInactive, IInv, Shape, Later, EntriesIn, Present, world
<1>6. CASE AddCapabilities
  BY <1>6, LaterStep DEF AddCapabilities, IInv, Shape, Later, world
<1>7. CASE AddDomainCapabilities
  BY <1>7, LaterStep DEF AddDomainCapabilities, IInv, Shape, Later, world
<1>8. CASE AddAllocationCapacity
  <2>1. "instances" \in DOMAIN hv' /\ hv'.instances = hv.instances
    BY <1>8 DEF AddAllocationCapacity, IInv, Shape
  <2> QED
    BY <1>8, <2>1, LaterStep DEF AddAllocationCapacity, Later, world
<1>9. CASE AddEffectiveCapacity
  <2>1. "instances" \in DOMAIN hv' /\ hv'.instances = hv.instances
    BY <1>9 DEF AddEffectiveCapacity, IInv, Shape
  <2> QED
    BY <1>9, <2>1, LaterStep DEF AddEffectiveCapacity, Later, world
<1>10. CASE Fails
  BY <1>10 DEF Fails, IInv, Shape, Later, world
<1>11. CASE Write
  BY <1>11 DEF Write, IInv, Shape, Later, world
<1>12. CASE DomainChanges
  <2>1. PICK d \in Domains, s \in States :
          state' = [state EXCEPT ![d] = s] /\ touched' = touched \cup {d}
    BY <1>12 DEF DomainChanges, States
  <2>2. \A x \in Domains \ touched' : x \in Domains \ touched /\ state'[x] = state[x]
    BY <2>1 DEF IInv, Shape
  <2>3. Shape'
    BY <1>12, <2>1 DEF DomainChanges, IInv, Shape
  <2>4. UNCHANGED <<pc, hv, names, instances>>
    BY <1>12 DEF DomainChanges, list
  <2> QED
    BY <2>2, <2>3, <2>4 DEF IInv, Later, EntriesIn, Running, Present
<1>13. CASE UNCHANGED vars
  BY <1>13 DEF vars, list, world, IInv, Shape, Later, EntriesIn, Running, Present
<1> QED
  BY <1>1, <1>2, <1>3, <1>4, <1>5, <1>6, <1>7, <1>8, <1>9, <1>10, <1>11, <1>12,
     <1>13 DEF Next, ProcessStep

\* However domains come, go, start and stop between the two lists of
\* addInstancesInfo, and whatever fails, a status that is written lists every domain
\* that kept its state once, with that state.
THEOREM InstancesOfSteadyDomains == Spec => []SteadyDomainListedOnce
<1>1. IInv => SteadyDomainListedOnce
  BY DEF IInv, SteadyDomainListedOnce, Entries, EntriesIn, Present, Later
<1> QED
  BY <1>1, InitInv, StepInv, PTL DEF Spec

-----------------------------------------------------------------------------
(* The allocation and the instances.                                       *)

\* The lists are about domains, the last one about all that have not changed, and
\* the allocation is that of the last list.
CountInv ==
  /\ "instances" \in DOMAIN hv /\ "instances" \in DOMAIN stored
  /\ "allocation" \in DOMAIN hv /\ "allocation" \in DOMAIN stored
  /\ state \in [Domains -> States] /\ names \subseteq Domains
  /\ instances \subseteq Domains \X BOOLEAN
  /\ hv.instances \subseteq Domains \X BOOLEAN
  /\ stored.instances \subseteq Domains \X BOOLEAN
  /\ pc \in {"domainInfo", "effective", "done"} =>
       \A d \in Domains \ touched : d \in names <=> state[d] # "absent"
  /\ pc \in {"effective", "done"} =>
       hv.allocation = Allocation(names) /\ \A d \in names : Describable(d)

LEMMA InitCount == Init => CountInv
  BY DEF Init, CountInv, States, EmptyStatus

\* Allocation and Describable look at the descriptions and the topology only.
LEMMA CountFrame ==
  ASSUME UNCHANGED <<fixed, names>>
  PROVE  /\ Allocation(names)' = Allocation(names)
         /\ \A d : Describable(d)' = Describable(d)
  BY DEF fixed, Allocation, Describable, Amount, Nodes, CellIDs

LEMMA StepCount == CountInv /\ [Next]_vars => CountInv'
<1> SUFFICES ASSUME CountInv, [Next]_vars PROVE CountInv'
  OBVIOUS
<1>1. CASE Call
  BY <1>1 DEF Call, CountInv
<1>2. CASE List
  <2>1. pc' = "domainInfo" => names' = {d \in Domains : state[d] \in {"inactive", "active"}}
    BY <1>2 DEF List, Asked, Described
  <2>2. pc' \in {"activeInfo", "inactiveInfo", "domainInfo"} /\ names' \subseteq Domains
    BY <1>2 DEF List, Asked, Described
  <2> QED
    BY <1>2, <2>1, <2>2 DEF List, CountInv, States, world
<1>3. CASE Describe
  BY <1>3, CountFrame DEF Describe, CountInv, world
<1>4. CASE AddActive
  BY <1>4 DEF AddActive, CountInv, world
<1>5. CASE AddInactive
  <2>1. /\ "instances" \in DOMAIN hv' /\ "allocation" \in DOMAIN hv'
        /\ hv'.instances = instances \cup (names \X {FALSE})
    BY <1>5 DEF AddInactive, CountInv
  <2> QED
    BY <1>5, <2>1 DEF AddInactive, CountInv, list, world
<1>6. CASE AddCapabilities
  BY <1>6 DEF AddCapabilities, CountInv, list, world
<1>7. CASE AddDomainCapabilities
  BY <1>7 DEF AddDomainCapabilities, CountInv, list, world
<1>8. CASE AddAllocationCapacity
  <2>1. /\ "instances" \in DOMAIN hv' /\ "allocation" \in DOMAIN hv'
        /\ hv'.instances = hv.instances /\ hv'.allocation = Allocation(names)
    BY <1>8 DEF AddAllocationCapacity, CountInv
  <2>2. UNCHANGED <<fixed, names>> /\ \A d \in names : Describable(d)
    BY <1>8 DEF AddAllocationCapacity, list
  <2>3. hv'.allocation = Allocation(names)' /\ \A d \in names' : Describable(d)'
    BY <2>1, <2>2, CountFrame
  <2> QED
    BY <1>8, <2>1, <2>3 DEF AddAllocationCapacity, CountInv, list, world
<1>9. CASE AddEffectiveCapacity
  <2>1. /\ "instances" \in DOMAIN hv' /\ "allocation" \in DOMAIN hv'
        /\ hv'.instances = hv.instances /\ hv'.allocation = hv.allocation
    BY <1>9 DEF AddEffectiveCapacity, CountInv
  <2>2. UNCHANGED <<fixed, names>>
    BY <1>9 DEF AddEffectiveCapacity, list
  <2>3. hv'.allocation = Allocation(names)' /\ \A d \in names' : Describable(d)'
    BY <1>9, <2>1, <2>2, CountFrame DEF AddEffectiveCapacity, CountInv
  <2> QED
    BY <1>9, <2>1, <2>3 DEF AddEffectiveCapacity, CountInv, list, world
<1>10. CASE Fails
  BY <1>10 DEF Fails, CountInv, list, world
<1>11. CASE Write
  BY <1>11 DEF Write, CountInv, list, world
<1>12. CASE DomainChanges
  <2>1. PICK d \in Domains, s \in States :
          state' = [state EXCEPT ![d] = s] /\ touched' = touched \cup {d}
    BY <1>12 DEF DomainChanges, States
  <2>2. \A x \in Domains \ touched' : x \in Domains \ touched /\ state'[x] = state[x]
    BY <2>1 DEF CountInv
  <2>3. UNCHANGED <<pc, hv, stored, names, instances, fixed>>
    BY <1>12 DEF DomainChanges, list
  <2>4. state' \in [Domains -> States]
    BY <2>1 DEF CountInv
  <2> QED
    BY <2>2, <2>3, <2>4, CountFrame DEF CountInv
<1>13. CASE UNCHANGED vars
  BY <1>13, CountFrame DEF vars, list, world, CountInv
<1> QED
  BY <1>1, <1>2, <1>3, <1>4, <1>5, <1>6, <1>7, <1>8, <1>9, <1>10, <1>11, <1>12,
     <1>13 DEF Next, ProcessStep

\* When no domain changes while Process runs, the status it returns lists the
\* domains whose memory and CPUs it counts, and all of them could be counted.
THEOREM AllocationOfInstances == Spec => []AllocationMatchesInstances
<1>1. IInv /\ CountInv => AllocationMatchesInstances
  <2> SUFFICES ASSUME IInv, CountInv, pc = "done", touched = {}
               PROVE  LET listed == {e[1] : e \in hv.instances}
                      IN  /\ \A d \in listed : Describable(d)
                          /\ hv.allocation = Allocation(listed)
    BY DEF AllocationMatchesInstances
  <2> DEFINE listed == {e[1] : e \in hv.instances}
  <2>1. \A d \in Domains : EntriesIn(hv.instances, d) = Present(d)
    BY DEF IInv, Later
  <2>2. \A d \in Domains : d \in names <=> state[d] # "absent"
    BY DEF CountInv
  <2>3. ASSUME NEW d \in Domains PROVE d \in listed <=> d \in names
    <3>1. d \in listed <=> EntriesIn(hv.instances, d) # {}
      BY DEF EntriesIn
    <3> QED
      BY <2>1, <2>2, <3>1 DEF Present
  <2>4. listed \subseteq Domains /\ names \subseteq Domains
    BY DEF CountInv
  <2>5. listed = names
    BY <2>3, <2>4
  <2> QED
    BY <2>5 DEF CountInv
<1> QED
  BY <1>1, InitInv, StepInv, InitCount, StepCount, PTL DEF Spec

-----------------------------------------------------------------------------
(* The types of the numbers.                                               *)

\* The numbers Process reports: Total of natural numbers.
LEMMA TotalNat ==
  ASSUME NEW S, IsFiniteSet(S), NEW f, DOMAIN f = S, \A x \in S : f[x] \in Nat
  PROVE  Total(f) \in Nat
  BY TotalIsSum, SumNat

\* The operators of the model yield natural numbers.
LEMMA BytesType ==
  ASSUME NEW value \in Nat, NEW unit, KnownUnit(unit)
  PROVE  Bytes(value, unit) \in Nat
<1>1. \A a, b \in Nat : a * b \in Nat
  OBVIOUS
<1>2. Kibi * Kibi \in Nat
  BY <1>1, ConstantsAssumption
<1>3. Kibi * Kibi * Kibi \in Nat
  BY <1>1, <1>2, ConstantsAssumption
<1>4. Kibi * Kibi * Kibi * Kibi \in Nat
  BY <1>1, <1>3, ConstantsAssumption
<1>5. Units[unit] \in Nat
  BY <1>2, <1>3, <1>4, ConstantsAssumption DEF Units, KnownUnit
<1> QED
  BY <1>1, <1>5 DEF Bytes

\* The descriptions and the topology are those of the constants.
Reports ==
  info \in [Domains -> Infos] /\ host \in Hosts /\ overcommit \in Overcommits

UnitsKnown == \A i \in DOMAIN host : KnownUnit(host[i].unit)

\* A topology is a finite list of distinct cells.
LEMMA HostFinite ==
  ASSUME Reports
  PROVE  /\ IsFiniteSet(DOMAIN host) /\ DOMAIN host = 1..Len(host) /\ Len(host) \in Nat
         /\ \A i \in DOMAIN host : host[i] \in NumaCell
         /\ \A i, j \in DOMAIN host : host[i].id = host[j].id => i = j
<1>1. host \in Seq(NumaCell)
  BY ReportsAssumption DEF Reports
<1>2. DOMAIN host = 1..Len(host) /\ Len(host) \in Nat
  BY <1>1
<1>3. IsFiniteSet(1..Len(host))
  BY <1>2, FS_Interval
<1>4. \A i, j \in DOMAIN host : host[i].id = host[j].id => i = j
  BY ReportsAssumption DEF Reports
<1>5. \A i \in DOMAIN host :
        host[i] \in NumaCell
  BY <1>1, <1>2
<1>6. IsFiniteSet(DOMAIN host)
  BY <1>2, <1>3
<1> QED
  BY <1>2, <1>4, <1>5, <1>6

LEMMA CellCapacityType ==
  ASSUME Reports, UnitsKnown, NEW i \in DOMAIN host
  PROVE  CellCapacity(host[i]) \in Counts
<1>1. host[i].memory \in Nat /\ host[i].cpus \in Nat
  BY HostFinite DEF NumaCell
<1>2. Bytes(host[i].memory, host[i].unit) \in Nat
  BY <1>1, BytesType DEF UnitsKnown
<1> QED
  BY <1>1, <1>2 DEF CellCapacity, Counts

LEMMA HostCapacityType ==
  ASSUME Reports, UnitsKnown
  PROVE  HostCapacity \in Counts
<1>1. ASSUME NEW r \in Resource
      PROVE  Total([i \in DOMAIN host |-> CellCapacity(host[i])[r]]) \in Nat
  <2> DEFINE f == [i \in DOMAIN host |-> CellCapacity(host[i])[r]]
  <2>1. \A i \in DOMAIN host : f[i] \in Nat
    BY CellCapacityType DEF Counts
  <2>2. DOMAIN f = DOMAIN host
    OBVIOUS
  <2> HIDE DEF f
  <2>3. Total(f) \in Nat
    BY <2>1, <2>2, HostFinite, TotalNat
  <2> QED
    BY <2>3 DEF f
<1> QED
  BY <1>1 DEF HostCapacity, Counts

\* An id of the topology is that of one cell.
LEMMA CellIDsFinite ==
  ASSUME Reports
  PROVE  /\ IsFiniteSet(CellIDs)
         /\ \A id \in CellIDs : \E i \in DOMAIN host :
              host[i].id = id /\ CellOf(id) = host[i]
<1>1. IsFiniteSet(CellIDs)
  <2> DEFINE b == [i \in DOMAIN host |-> host[i].id]
             zero == [i \in DOMAIN host |-> 0]
             none == [id \in CellIDs |-> 0]
  <2>1. \A i, j \in DOMAIN host : b[i] = b[j] => i = j
    BY HostFinite
  <2>2. \A i \in DOMAIN host : zero[i] = none[b[i]] /\ none[b[i]] \in Int
    BY DEF CellIDs
  <2>3. CellIDs = {b[i] : i \in DOMAIN host}
    BY DEF CellIDs
  <2> HIDE DEF b, zero, none
  <2>4. IsFiniteSet(DOMAIN host)
    BY HostFinite
  <2>5. IsFiniteSet({b[i] : i \in DOMAIN host})
    BY <2>1, <2>2, <2>4, SumReindex
  <2> QED
    BY <2>3, <2>5
<1>2. ASSUME NEW id \in CellIDs
      PROVE  \E i \in DOMAIN host : host[i].id = id /\ CellOf(id) = host[i]
  <2>1. PICK i \in DOMAIN host : host[i].id = id
    BY DEF CellIDs
  <2>2. /\ host[i] \in Range(host)
        /\ \A c \in Range(host) : \E j \in DOMAIN host : c = host[j]
    BY DEF Range
  <2>3. \A c \in Range(host) : c.id = id => c = host[i]
    BY <2>1, <2>2, HostFinite
  <2> QED
    BY <2>1, <2>2, <2>3 DEF CellOf
<1> QED
  BY <1>1, <1>2

LEMMA AmountType ==
  ASSUME Reports, NEW d \in Domains, Describable(d), NEW r \in Resource
  PROVE  Amount(d, r) \in Nat /\ Nodes(d, r) \in Seq(Nat)
<1>1. info[d] \in Infos
  BY DEF Reports
<1>2. info[d].memory \in Nat /\ info[d].pins \in Nat
  BY <1>1, ReportsAssumption DEF Describable
<1>3. Bytes(info[d].memory, info[d].unit) \in Nat
  BY <1>2, BytesType DEF Describable
<1>4. Nodes(d, r) # None
  BY DEF Describable
<1> QED
  BY <1>1, <1>2, <1>3, <1>4, ReportsAssumption DEF Amount, Nodes, Resource

\* A domain's cells hold its amount, less what is lost.
LEMMA SharesOfDomain ==
  ASSUME Reports, NEW d \in Domains, Describable(d), NEW r \in Resource
  PROVE  /\ \A id \in CellIDs : Share(d, r, id) \in Nat
         /\ Lost(d, r) \in Nat
         /\ SumOn([id \in CellIDs |-> Share(d, r, id)], CellIDs) + Lost(d, r)
              = Amount(d, r)
<1>1. PICK a \in Nat, s \in Seq(Nat) : a = Amount(d, r) /\ s = Nodes(d, r)
  BY AmountType
<1>2. DOMAIN s = 1..Len(s) /\ Len(s) \in Nat
  OBVIOUS
<1>3. IsFiniteSet(DOMAIN s) /\ Cardinality(DOMAIN s) = Len(s)
  <2>1. PICK n \in Nat : n = Len(s)
    BY <1>2
  <2>2. IsFiniteSet(1..n) /\ Cardinality(1..n) = n
    BY FS_Interval
  <2> QED
    BY <1>2, <2>1, <2>2
<1> DEFINE k == [id \in CellIDs |-> Cardinality({i \in DOMAIN s : s[i] = id})]
           share == [id \in CellIDs |-> Share(d, r, id)]
<1>4. \A id \in CellIDs : k[id] \in Nat
  <2> TAKE id \in CellIDs
  <2>1. IsFiniteSet({i \in DOMAIN s : s[i] = id})
    BY <1>3, FS_Subset
  <2> QED
    BY <2>1, FS_CardinalityType
<1>5. SumOn(k, CellIDs) = Len(s)
  <2>1. \A i \in DOMAIN s : s[i] \in CellIDs
    BY <1>1 DEF Describable
  <2> QED
    BY <1>3, <2>1, CellIDsFinite, SumFibres
<1>6. CASE s = <<>>
  <2>1. \A id \in CellIDs : Share(d, r, id) = 0
    BY <1>1, <1>6 DEF Share
  <2>2. SumOn(share, CellIDs) = 0
    BY <2>1, CellIDsFinite, SumZero
  <2>3. Lost(d, r) = a
    BY <1>1, <1>6 DEF Lost
  <2> QED
    BY <1>1, <2>1, <2>2, <2>3
<1>7. CASE s # <<>>
  <2>1. PICK n \in Nat \ {0} : n = Len(s)
    <3>1. Len(s) # 0
      BY <1>7
    <3> QED
      BY <1>2, <3>1
  <2>2. PICK q \in Nat, rest \in Nat : q = a \div n /\ rest = a % n /\ a = q * n + rest
    BY DivFacts
  <2>3. ASSUME NEW id \in CellIDs PROVE Share(d, r, id) = k[id] * q
    <3>1. CASE {i \in DOMAIN s : s[i] = id} = {}
      <4>1. k[id] = 0
        BY <3>1, FS_EmptySet
      <4>2. Share(d, r, id) = 0
        BY <1>1, <3>1 DEF Share
      <4> QED
        BY <4>1, <4>2
    <3>2. CASE {i \in DOMAIN s : s[i] = id} # {}
      BY <1>1, <2>1, <2>2, <3>2 DEF Share
    <3> QED
      BY <3>1, <3>2
  <2>4. \A id \in CellIDs : Share(d, r, id) \in Nat
    <3>1. \A x, y \in Nat : x * y \in Nat
      OBVIOUS
    <3> HIDE DEF k
    <3> QED
      BY <1>4, <2>3, <3>1
  <2>5. SumOn(share, CellIDs) = n * q
    <3>1. \A id \in CellIDs : k[id] \in Int /\ share[id] = k[id] * q
      BY <1>4, <2>3
    <3> HIDE DEF k, share
    <3>2. SumOn(share, CellIDs) = SumOn(k, CellIDs) * q
      BY <3>1, CellIDsFinite, SumTimes
    <3> QED
      BY <1>5, <2>1, <3>2
  <2>6. Lost(d, r) = rest
    BY <1>1, <1>7, <2>1, <2>2 DEF Lost
  <2>7. n * q + rest = a
    BY <2>2
  <2> QED
    BY <1>1, <2>4, <2>5, <2>6, <2>7
<1> QED
  BY <1>6, <1>7

Fields == {"instances", "hostCapacity", "supported", "capacity", "allocation",
           "cells", "effective"}

CellStatus == [capacity : Counts, allocation : Counts, effective : Counts]

StatusOK(s) ==
  /\ Fields \subseteq DOMAIN s
  /\ s.instances \subseteq Domains \X BOOLEAN
  /\ s.hostCapacity \in Counts /\ s.capacity \in Counts
  /\ s.allocation \in Counts /\ s.effective \in Counts
  /\ \A id \in DOMAIN s.cells : s.cells[id] \in CellStatus

\* The units are known once addCapabilities has used them.
TypeInv ==
  /\ todo \subseteq names /\ names \subseteq Domains /\ touched \subseteq Domains
  /\ instances \subseteq Domains \X BOOLEAN
  /\ Reports /\ StatusOK(hv) /\ StatusOK(stored)
  /\ pc \in {"domcapabilities", "domains", "domainInfo"} => UnitsKnown

LEMMA CellAllocationType ==
  ASSUME Reports, NEW ds \in SUBSET Domains, \A d \in ds : Describable(d)
  PROVE  /\ Allocation(ds) \in Counts
         /\ \A id \in CellIDs : CellAllocation(ds, id) \in Counts
<1>1. IsFiniteSet(ds)
  BY ReportsAssumption, FS_Subset
<1>2. ASSUME NEW r \in Resource
      PROVE  Total([d \in ds |-> Amount(d, r)]) \in Nat
  <2> DEFINE f == [d \in ds |-> Amount(d, r)]
  <2>1. DOMAIN f = ds /\ \A d \in ds : f[d] \in Nat
    BY AmountType
  <2> HIDE DEF f
  <2>2. Total(f) \in Nat
    BY <1>1, <2>1, TotalNat
  <2> QED
    BY <2>2 DEF f
<1>3. ASSUME NEW r \in Resource, NEW id \in CellIDs
      PROVE  Total([d \in ds |-> Share(d, r, id)]) \in Nat
  <2> DEFINE f == [d \in ds |-> Share(d, r, id)]
  <2>1. DOMAIN f = ds /\ \A d \in ds : f[d] \in Nat
    BY SharesOfDomain
  <2> HIDE DEF f
  <2>2. Total(f) \in Nat
    BY <1>1, <2>1, TotalNat
  <2> QED
    BY <2>2 DEF f
<1> QED
  BY <1>2, <1>3 DEF Allocation, CellAllocation, Counts

LEMMA RatioType ==
  ASSUME Reports, NEW r \in Resource
  PROVE  /\ Ratio(r).significand \in Nat /\ Ratio(r).exponent \in Nat
         /\ Pow2[Ratio(r).exponent] \in Nat \ {0}
<1>1. overcommit[r] = None \/ overcommit[r] \in [significand : Nat, exponent : Nat]
  BY ReportsAssumption DEF Reports
<1>2. Ratio(r).significand \in Nat /\ Ratio(r).exponent \in Nat
  BY <1>1 DEF Ratio
<1> QED
  BY <1>2, Pow2Type

LEMMA EffectiveType ==
  ASSUME Reports, NEW capacity \in Counts
  PROVE  Effective(capacity) \in Counts
<1>1. ASSUME NEW r \in Resource
      PROVE  Product(capacity[r], r) \div Pow2[Ratio(r).exponent] \in Nat
  <2>1. PICK c \in Nat, m \in Nat, p \in Nat \ {0} :
          /\ c = Float(capacity[r])
          /\ m = Ratio(r).significand /\ p = Pow2[Ratio(r).exponent]
    BY RatioType, FloatType DEF Counts
  <2>2. c * m \in Nat
    OBVIOUS
  <2>3. Product(capacity[r], r) \in Nat
    BY <2>1, <2>2, FloatType DEF Product
  <2> QED
    BY <2>1, <2>3, DivFacts
<1> QED
  BY <1>1 DEF Effective, Counts

LEMMA InitTypeInv == Init => TypeInv
<1> SUFFICES ASSUME Init PROVE TypeInv
  OBVIOUS
<1>1. Zero \in Counts
  BY DEF Zero, Counts
<1>2. StatusOK(EmptyStatus)
  BY <1>1 DEF StatusOK, EmptyStatus, Fields
<1> QED
  BY <1>2 DEF Init, TypeInv, Reports

\* A step of a processor keeps the types when it writes counts.
LEMMA FrameTypes ==
  ASSUME TypeInv, UNCHANGED <<stored, list, fixed, overcommit, touched>>,
         StatusOK(hv'),
         pc' \in {"domcapabilities", "domains", "domainInfo"} => UnitsKnown
  PROVE  TypeInv'
  BY DEF TypeInv, list, fixed, Reports, UnitsKnown, StatusOK, KnownUnit, Units,
     CellStatus, Counts

LEMMA StepTypeInv == TypeInv /\ [Next]_vars => TypeInv'
<1> SUFFICES ASSUME TypeInv, [Next]_vars PROVE TypeInv'
  OBVIOUS
<1> USE DEF TypeInv
<1>0. Zero \in Counts
  BY DEF Zero, Counts
<1>1. CASE Call
  BY <1>1 DEF Call, fixed, Reports, StatusOK, CellStatus, Counts
<1>2. CASE List
  <2>1. names' \subseteq Domains /\ todo' = names'
    BY <1>2 DEF List
  <2>2. pc' \in {"activeInfo", "inactiveInfo", "domainInfo"}
        /\ (pc' = "domainInfo" => pc = "domains")
    BY <1>2 DEF List, Asked, Described
  <2>3. UNCHANGED <<hv, stored, instances, fixed, overcommit, touched>>
    BY <1>2 DEF List, world
  <2> QED
    BY <2>1, <2>2, <2>3
       DEF fixed, Reports, UnitsKnown, StatusOK, KnownUnit, Units, CellStatus, Counts
<1>3. CASE Describe
  BY <1>3 DEF Describe, world, fixed, Reports, UnitsKnown, StatusOK, KnownUnit, Units,
     CellStatus, Counts
<1>4. CASE AddActive
  <2>1. instances' \subseteq Domains \X BOOLEAN
    BY <1>4 DEF AddActive
  <2>2. /\ UNCHANGED <<hv, stored, names, todo, fixed, overcommit, touched>>
        /\ pc' = "inactive"
    BY <1>4 DEF AddActive, world
  <2> QED
    BY <2>1, <2>2 DEF fixed, Reports, StatusOK, CellStatus, Counts
<1>5. CASE AddInactive
  <2>1. StatusOK(hv')
    BY <1>5 DEF AddInactive, StatusOK, Fields
  <2> QED
    BY <1>5, <2>1, FrameTypes DEF AddInactive, world
<1>6. CASE AddCapabilities
  <2>1. HostCapacity \in Counts /\ UnitsKnown
    BY <1>6, HostCapacityType DEF AddCapabilities, UnitsKnown
  <2>2. StatusOK(hv')
    BY <1>6, <2>1 DEF AddCapabilities, StatusOK, Fields
  <2> QED
    BY <1>6, <2>1, <2>2, FrameTypes DEF AddCapabilities, world
<1>7. CASE AddDomainCapabilities
  <2>1. StatusOK(hv')
    BY <1>7 DEF AddDomainCapabilities, StatusOK, Fields
  <2> QED
    BY <1>7, <2>1, FrameTypes DEF AddDomainCapabilities, world
<1>8. CASE AddAllocationCapacity
  <2>1. HostCapacity \in Counts /\ Allocation(names) \in Counts
    BY <1>8, HostCapacityType, CellAllocationType DEF AddAllocationCapacity
  <2> DEFINE cells == [id \in CellIDs |->
          [capacity |-> CellCapacity(CellOf(id)),
           allocation |-> CellAllocation(names, id), effective |-> Zero]]
  <2>2. ASSUME NEW id \in CellIDs PROVE cells[id] \in CellStatus
    <3>1. CellCapacity(CellOf(id)) \in Counts
      BY <1>8, CellIDsFinite, CellCapacityType DEF AddAllocationCapacity
    <3>2. CellAllocation(names, id) \in Counts
      BY <1>8, CellAllocationType DEF AddAllocationCapacity
    <3> QED
      BY <1>0, <3>1, <3>2 DEF CellStatus
  <2>3. DOMAIN cells = CellIDs
    OBVIOUS
  <2>4. hv' = [hv EXCEPT !.capacity = HostCapacity, !.allocation = Allocation(names),
                         !.cells = cells]
    BY <1>8 DEF AddAllocationCapacity
  <2> HIDE DEF cells
  <2>5. StatusOK(hv')
    BY <2>1, <2>2, <2>3, <2>4 DEF StatusOK, Fields
  <2> QED
    BY <1>8, <2>5, FrameTypes DEF AddAllocationCapacity, world
<1>9. CASE AddEffectiveCapacity
  <2>1. Effective(hv.capacity) \in Counts
    BY EffectiveType DEF StatusOK
  <2> DEFINE cells == [id \in DOMAIN hv.cells |->
          [hv.cells[id] EXCEPT !.effective = Effective(hv.cells[id].capacity)]]
  <2>2. ASSUME NEW id \in DOMAIN hv.cells PROVE cells[id] \in CellStatus
    <3>1. hv.cells[id] \in CellStatus /\ hv.cells[id].capacity \in Counts
      BY DEF StatusOK, CellStatus
    <3>2. Effective(hv.cells[id].capacity) \in Counts
      BY <3>1, EffectiveType
    <3> QED
      BY <3>1, <3>2 DEF CellStatus
  <2>3. DOMAIN cells = DOMAIN hv.cells
    OBVIOUS
  <2>4. hv' = [hv EXCEPT !.effective = Effective(hv.capacity), !.cells = cells]
    BY <1>9 DEF AddEffectiveCapacity
  <2> HIDE DEF cells
  <2>5. StatusOK(hv')
    BY <2>1, <2>2, <2>3, <2>4 DEF StatusOK, Fields
  <2> QED
    BY <1>9, <2>5, FrameTypes DEF AddEffectiveCapacity, world
<1>10. CASE Fails
  BY <1>10, FrameTypes DEF Fails, world, StatusOK, CellStatus, Counts
<1>11. CASE Write
  BY <1>11 DEF Write, world, list, fixed, Reports, StatusOK, CellStatus, Counts
<1>12. CASE DomainChanges
  BY <1>12 DEF DomainChanges, list, fixed, Reports, UnitsKnown, StatusOK, KnownUnit,
     Units, CellStatus, Counts
<1>13. CASE UNCHANGED vars
  BY <1>13 DEF vars, world, list, fixed, Reports, UnitsKnown, StatusOK, KnownUnit,
     Units, CellStatus, Counts
<1> QED
  BY <1>1, <1>2, <1>3, <1>4, <1>5, <1>6, <1>7, <1>8, <1>9, <1>10, <1>11, <1>12,
     <1>13 DEF Next, ProcessStep

\* Every number that Process writes into the status, of the host and of each cell,
\* is a natural number, and every instance a domain, whatever fails.
THEOREM TypesOfStatus == Spec => []TypeOK
<1>1. TypeInv => TypeOK
  BY DEF TypeInv, TypeOK, StatusOK, CellStatus
<1> QED
  BY <1>1, InitTypeInv, StepTypeInv, PTL DEF Spec

-----------------------------------------------------------------------------
(* The sums over the cells.                                                *)

\* What addAllocationCapacity has written.
Distributed ==
  /\ UnitsKnown /\ \A d \in names : Describable(d)
  /\ hv.capacity = HostCapacity /\ hv.allocation = Allocation(names)
  /\ DOMAIN hv.cells = CellIDs
  /\ \A id \in CellIDs : /\ hv.cells[id].capacity = CellCapacity(CellOf(id))
                         /\ hv.cells[id].allocation = CellAllocation(names, id)

\* What addEffectiveCapacity has written.
Promised ==
  /\ hv.effective = Effective(hv.capacity)
  /\ \A id \in CellIDs : hv.cells[id].effective = Effective(hv.cells[id].capacity)

\* What the numbers of the status are, from the last two processors on.
CellInv ==
  /\ pc \in {"effective", "done"} => Distributed
  /\ pc = "done" => Promised

LEMMA InitCells == Init => CellInv
  BY DEF Init, CellInv

\* The numbers are functions of what libvirt has reported.
LEMMA NumbersFrame ==
  ASSUME UNCHANGED <<info, host, names>>
  PROVE  /\ UNCHANGED <<HostCapacity, CellIDs, Allocation(names), UnitsKnown>>
         /\ \A d : Describable(d)' = Describable(d)
         /\ \A id : /\ CellCapacity(CellOf(id))' = CellCapacity(CellOf(id))
                    /\ CellAllocation(names, id)' = CellAllocation(names, id)
<1>1. UNCHANGED <<HostCapacity, CellIDs, Allocation(names), UnitsKnown>>
  BY DEF HostCapacity, CellIDs, Allocation, UnitsKnown, Amount, CellCapacity
<1>2. \A d : Describable(d)' = Describable(d)
  BY DEF Describable, Nodes, CellIDs
<1>3. ASSUME NEW id PROVE CellCapacity(CellOf(id))' = CellCapacity(CellOf(id))
  BY DEF CellOf, CellCapacity
<1>4. ASSUME NEW id PROVE CellAllocation(names, id)' = CellAllocation(names, id)
  <2>1. \A d, r : Share(d, r, id)' = Share(d, r, id)
    BY DEF Share, Amount, Nodes
  <2> QED
    BY <2>1 DEF CellAllocation
<1> QED
  BY <1>1, <1>2, <1>3, <1>4

LEMMA CellFrame ==
  ASSUME CellInv, UNCHANGED <<hv, names, fixed, overcommit>>,
         pc' = pc \/ pc' \notin {"effective", "done"}
  PROVE  CellInv'
<1>1. UNCHANGED <<info, host>>
  BY DEF fixed
<1>2. \A c : Effective(c)' = Effective(c)
  BY DEF Effective, Product, Ratio
<1>3. Distributed => Distributed'
  BY <1>1, NumbersFrame DEF Distributed
<1>4. Promised => Promised'
  BY <1>1, <1>2, NumbersFrame DEF Promised
<1> QED
  BY <1>3, <1>4 DEF CellInv

LEMMA StepCells == TypeInv /\ CellInv /\ [Next]_vars => CellInv'
<1> SUFFICES ASSUME TypeInv, CellInv, [Next]_vars PROVE CellInv'
  OBVIOUS
<1>1. CASE Call
  BY <1>1 DEF Call, CellInv
<1>2. CASE List
  BY <1>2 DEF List, CellInv, Asked, Described
<1>3. CASE Describe
  BY <1>3, CellFrame DEF Describe
<1>4. CASE AddActive
  BY <1>4 DEF AddActive, CellInv
<1>5. CASE AddInactive
  BY <1>5 DEF AddInactive, CellInv
<1>6. CASE AddCapabilities
  BY <1>6 DEF AddCapabilities, CellInv
<1>7. CASE AddDomainCapabilities
  BY <1>7 DEF AddDomainCapabilities, CellInv
<1>8. CASE AddAllocationCapacity
  <2> DEFINE cells == [id \in CellIDs |->
          [capacity |-> CellCapacity(CellOf(id)),
           allocation |-> CellAllocation(names, id), effective |-> Zero]]
  <2>1. hv' = [hv EXCEPT !.capacity = HostCapacity, !.allocation = Allocation(names),
                         !.cells = cells]
    BY <1>8 DEF AddAllocationCapacity
  <2>2. /\ DOMAIN cells = CellIDs
        /\ \A id \in CellIDs : /\ cells[id].capacity = CellCapacity(CellOf(id))
                               /\ cells[id].allocation = CellAllocation(names, id)
    OBVIOUS
  <2> HIDE DEF cells
  <2>3. hv'.capacity = HostCapacity /\ hv'.allocation = Allocation(names)
        /\ hv'.cells = cells
    BY <2>1 DEF TypeInv, StatusOK, Fields
  <2>4. UNCHANGED <<info, host, names>> /\ pc' = "effective"
    BY <1>8 DEF AddAllocationCapacity, fixed, list
  <2>5. UnitsKnown /\ \A d \in names : Describable(d)
    BY <1>8 DEF AddAllocationCapacity, TypeInv
  <2>6. Distributed'
    BY <2>2, <2>3, <2>4, <2>5, NumbersFrame DEF Distributed
  <2> QED
    BY <2>4, <2>6 DEF CellInv
<1>9. CASE AddEffectiveCapacity
  <2> DEFINE cells == [id \in DOMAIN hv.cells |->
          [hv.cells[id] EXCEPT !.effective = Effective(hv.cells[id].capacity)]]
  <2>0. Distributed
    BY <1>9 DEF AddEffectiveCapacity, CellInv
  <2>1. hv' = [hv EXCEPT !.effective = Effective(hv.capacity), !.cells = cells]
    BY <1>9 DEF AddEffectiveCapacity
  <2>2. DOMAIN cells = CellIDs
    BY <2>0 DEF Distributed
  <2>3. ASSUME NEW id \in CellIDs
        PROVE  /\ cells[id].capacity = hv.cells[id].capacity
               /\ cells[id].allocation = hv.cells[id].allocation
               /\ cells[id].effective = Effective(hv.cells[id].capacity)
    <3>1. id \in DOMAIN hv.cells /\ hv.cells[id] \in CellStatus
      BY <2>0 DEF Distributed, TypeInv, StatusOK
    <3> QED
      BY <3>1 DEF CellStatus
  <2> HIDE DEF cells
  <2>4. /\ hv'.effective = Effective(hv.capacity) /\ hv'.cells = cells
        /\ hv'.capacity = hv.capacity /\ hv'.allocation = hv.allocation
    BY <2>1 DEF TypeInv, StatusOK, Fields
  <2>5. UNCHANGED <<info, host, names, overcommit>> /\ pc' = "done"
    BY <1>9 DEF AddEffectiveCapacity, fixed, list
  <2>6. \A c : Effective(c)' = Effective(c)
    BY <2>5 DEF Effective, Product, Ratio
  <2>7. Distributed'
    BY <2>0, <2>2, <2>3, <2>4, <2>5, NumbersFrame DEF Distributed
  <2>8. Promised'
    BY <2>2, <2>3, <2>4, <2>5, <2>6, NumbersFrame DEF Promised
  <2> QED
    BY <2>5, <2>7, <2>8 DEF CellInv
<1>10. CASE Fails
  BY <1>10 DEF Fails, CellInv
<1>11. CASE Write
  BY <1>11 DEF Write, CellInv
<1>12. CASE DomainChanges
  BY <1>12, CellFrame DEF DomainChanges, list
<1>13. CASE UNCHANGED vars
  BY <1>13, CellFrame DEF vars, list
<1> QED
  BY <1>1, <1>2, <1>3, <1>4, <1>5, <1>6, <1>7, <1>8, <1>9, <1>10, <1>11, <1>12,
     <1>13 DEF Next, ProcessStep

\* The shares of the domains, summed by cell and by domain.
LEMMA AllocationSums ==
  ASSUME Reports, NEW ds \in SUBSET Domains, \A d \in ds : Describable(d),
         NEW r \in Resource
  PROVE  Total([id \in CellIDs |-> CellAllocation(ds, id)[r]])
           + Total([d \in ds |-> Lost(d, r)]) = Allocation(ds)[r]
<1>1. IsFiniteSet(ds) /\ IsFiniteSet(CellIDs)
  BY ReportsAssumption, CellIDsFinite, FS_Subset
<1> DEFINE m == [id \in CellIDs |-> [d \in ds |-> Share(d, r, id)]]
           t == [d \in ds |-> [id \in CellIDs |-> Share(d, r, id)]]
           byCell == RowSums(m, CellIDs, ds)
           byDomain == RowSums(t, ds, CellIDs)
           lost == [d \in ds |-> Lost(d, r)]
           amount == [d \in ds |-> Amount(d, r)]
<1>2. ASSUME NEW id \in CellIDs, NEW d \in ds
      PROVE  m[id][d] \in Int /\ t[d][id] \in Int /\ t[d][id] = m[id][d]
  <2>1. Share(d, r, id) \in Nat
    BY SharesOfDomain
  <2> QED
    BY <2>1
<1>3. SumOn(byCell, CellIDs) = SumOn(byDomain, ds)
  <2>1. \A id \in CellIDs : \A d \in ds : m[id][d] \in Int /\ t[d][id] = m[id][d]
    BY <1>2
  <2> HIDE DEF m, t
  <2> QED
    BY <1>1, <2>1, SumExchange
<1>4. ASSUME NEW d \in ds
      PROVE  byDomain[d] \in Int /\ lost[d] \in Int /\ amount[d] = byDomain[d] + lost[d]
  <2>1. byDomain[d] = SumOn([id \in CellIDs |-> Share(d, r, id)], CellIDs)
    BY DEF RowSums
  <2>2. byDomain[d] \in Int
    <3>1. byDomain[d] = SumOn(t[d], CellIDs)
      BY DEF RowSums
    <3> HIDE DEF t, byDomain
    <3> QED
      BY <1>1, <1>2, <3>1, SumInt
  <2>3. Lost(d, r) \in Nat /\ SumOn([id \in CellIDs |-> Share(d, r, id)], CellIDs)
          + Lost(d, r) = Amount(d, r)
    BY SharesOfDomain
  <2> QED
    BY <2>1, <2>2, <2>3
<1>5. SumOn(amount, ds) = SumOn(byDomain, ds) + SumOn(lost, ds)
  <2> HIDE DEF byDomain, lost, amount
  <2> QED
    BY <1>1, <1>4, SumPlus
<1>6. Allocation(ds)[r] = SumOn(amount, ds)
  BY TotalIsSum DEF Allocation
<1>7. Total([d \in ds |-> Lost(d, r)]) = SumOn(lost, ds)
  BY TotalIsSum
<1>8. Total([id \in CellIDs |-> CellAllocation(ds, id)[r]]) = SumOn(byCell, CellIDs)
  <2>1. ASSUME NEW id \in CellIDs PROVE CellAllocation(ds, id)[r] = byCell[id]
    BY TotalIsSum DEF CellAllocation, RowSums
  <2>2. [id \in CellIDs |-> CellAllocation(ds, id)[r]] = byCell
    BY <2>1 DEF RowSums
  <2> HIDE DEF byCell
  <2>3. DOMAIN byCell = CellIDs
    BY DEF byCell, RowSums
  <2> QED
    BY <2>2, <2>3, TotalIsSum
<1> HIDE DEF byCell, byDomain, lost, amount
<1> QED
  BY <1>3, <1>5, <1>6, <1>7, <1>8

\* addAllocationCapacity loses nothing but the remainders of its divisions and the
\* domains that name no cell: for every topology and every set of domains, also
\* when a domain names a cell twice.
THEOREM CellsShareTheAllocation == Spec => []CellsHoldAllocation
<1>1. TypeInv /\ CellInv => CellsHoldAllocation
  <2> SUFFICES ASSUME TypeInv, CellInv, pc = "done", NEW r \in Resource
               PROVE  CellSum("allocation", r) + Total([d \in names |-> Lost(d, r)])
                        = hv.allocation[r]
    BY DEF CellsHoldAllocation
  <2>1. Distributed /\ Reports /\ names \in SUBSET Domains
    BY DEF CellInv, TypeInv
  <2>2. [id \in DOMAIN hv.cells |-> hv.cells[id]["allocation"][r]]
          = [id \in CellIDs |-> CellAllocation(names, id)[r]]
    BY <2>1 DEF Distributed
  <2>3. CellSum("allocation", r)
          = Total([id \in CellIDs |-> CellAllocation(names, id)[r]])
    BY <2>2 DEF CellSum
  <2>4. Total([id \in CellIDs |-> CellAllocation(names, id)[r]])
          + Total([d \in names |-> Lost(d, r)]) = Allocation(names)[r]
    BY <2>1, AllocationSums DEF Distributed
  <2> QED
    BY <2>1, <2>3, <2>4 DEF Distributed
<1> QED
  BY <1>1, InitTypeInv, StepTypeInv, InitCells, StepCells, PTL DEF Spec

\* The capacity of the host is that of its cells.
LEMMA CapacitySums ==
  ASSUME Reports, UnitsKnown, NEW r \in Resource
  PROVE  Total([id \in CellIDs |-> CellCapacity(CellOf(id))[r]]) = HostCapacity[r]
<1> DEFINE b == [i \in DOMAIN host |-> host[i].id]
           g == [i \in DOMAIN host |-> CellCapacity(host[i])[r]]
           f == [id \in CellIDs |-> CellCapacity(CellOf(id))[r]]
<1>1. IsFiniteSet(DOMAIN host) /\ \A i, j \in DOMAIN host : b[i] = b[j] => i = j
  BY HostFinite
<1>2. ASSUME NEW i \in DOMAIN host PROVE g[i] = f[b[i]] /\ f[b[i]] \in Int
  <2>1. host[i].id \in CellIDs
    BY DEF CellIDs
  <2>2. CellOf(host[i].id) = host[i]
    BY <2>1, HostFinite, CellIDsFinite DEF CellOf
  <2>3. CellCapacity(host[i])[r] \in Nat
    BY CellCapacityType DEF Counts
  <2> QED
    BY <2>1, <2>2, <2>3
<1>3. CellIDs = {b[i] : i \in DOMAIN host}
  BY DEF CellIDs
<1>4. Total(g) = SumOn(g, DOMAIN host)
  BY TotalIsSum
<1>5. Total(f) = SumOn(f, CellIDs)
  BY TotalIsSum
<1>6. HostCapacity[r] = Total(g)
  BY DEF HostCapacity
<1> HIDE DEF b, g, f
<1>7. SumOn(f, {b[i] : i \in DOMAIN host}) = SumOn(g, DOMAIN host)
  BY <1>1, <1>2, SumReindex
<1>8. Total(f) = HostCapacity[r]
  BY <1>3, <1>4, <1>5, <1>6, <1>7
<1> QED
  BY <1>8 DEF f

\* The floored product of a capacity.
Floored(c, r) == (c * Ratio(r).significand) \div Pow2[Ratio(r).exponent]

LEMMA FlooredType ==
  ASSUME Reports, NEW r \in Resource, NEW c \in Nat
  PROVE  Floored(c, r) \in Nat
<1>1. PICK m \in Nat, p \in Nat \ {0} :
        m = Ratio(r).significand /\ p = Pow2[Ratio(r).exponent]
  BY RatioType
<1>2. c * m \in Nat
  OBVIOUS
<1> QED
  BY <1>1, <1>2, DivFacts DEF Floored

\* What addEffectiveCapacity makes of a capacity: the floored product when the
\* product is exact, that or the next integer when it is in range.
LEMMA EffectiveOf ==
  ASSUME Reports, NEW r \in Resource, NEW capacity \in Counts
  PROVE  LET c == capacity[r]
             m == Ratio(r).significand
         IN  /\ Float(c) = c /\ Float(c * m) = c * m
                  => Effective(capacity)[r] = Floored(c, r)
             /\ c < Pow2[Bits] /\ Floored(c, r) < Pow2[Bits]
                  => Effective(capacity)[r] \in {Floored(c, r), Floored(c, r) + 1}
<1>1. PICK c \in Nat, m \in Nat, e \in Nat :
        /\ c = capacity[r] /\ m = Ratio(r).significand /\ e = Ratio(r).exponent
  BY RatioType DEF Counts
<1>2. /\ Effective(capacity)[r] = Float(Float(c) * m) \div Pow2[e]
      /\ Floored(c, r) = (c * m) \div Pow2[e]
  BY <1>1 DEF Effective, Product, Floored
<1>3. Float(c) = c /\ Float(c * m) = c * m => Effective(capacity)[r] = Floored(c, r)
  BY <1>2
<1>4. ASSUME c < Pow2[Bits], Floored(c, r) < Pow2[Bits]
      PROVE  Effective(capacity)[r] \in {Floored(c, r), Floored(c, r) + 1}
  <2>1. Float(c) = c
    BY <1>4, FloatExact
  <2>2. PICK n \in Nat : n = c * m
    OBVIOUS
  <2>3. Float(n) \div Pow2[e] \in {n \div Pow2[e], n \div Pow2[e] + 1}
    BY <1>2, <1>4, <2>2, FloatQuotient
  <2> QED
    BY <1>2, <2>1, <2>2, <2>3
<1> QED
  BY <1>1, <1>3, <1>4

\* addEffectiveCapacity floors the cells and the host separately: the cells promise
\* less than one unit a cell less than the host and, as long as float64 holds the
\* products, never more; rounding moves both bounds by one unit a cell.
THEOREM CellsPromiseWhatTheHostDoes == Spec => []CellsPromiseNoMore
<1>1. TypeInv /\ CellInv => CellsPromiseNoMore
  <2> SUFFICES ASSUME TypeInv, CellInv, pc = "done", NEW r \in Resource
               PROVE  LET n == Cardinality(CellIDs)
                          difference == hv.effective[r] - CellSum("effective", r)
                      IN  /\ CellSum("capacity", r) = hv.capacity[r]
                          /\ ExactProduct(r) => difference \in {0} \cup 0..(n - 1)
                          /\ InRange(r) => difference \in (-n)..n
    BY DEF CellsPromiseNoMore
  <2>1. Distributed /\ Promised /\ Reports /\ StatusOK(hv) /\ IsFiniteSet(CellIDs)
    BY CellIDsFinite DEF CellInv, TypeInv
  <2> DEFINE c == [id \in CellIDs |-> hv.cells[id].capacity[r]]
             e == [id \in CellIDs |-> hv.cells[id].effective[r]]
             fl == [id \in CellIDs |-> Floored(c[id], r)]
  <2>2. /\ CellSum("capacity", r) = SumOn(c, CellIDs)
        /\ CellSum("effective", r) = SumOn(e, CellIDs)
    <3>1. DOMAIN hv.cells = CellIDs
      BY <2>1 DEF Distributed
    <3> QED
      BY <3>1, TotalIsSum DEF CellSum
  <2>3. SumOn(c, CellIDs) = hv.capacity[r]
    <3>1. [id \in CellIDs |-> CellCapacity(CellOf(id))[r]] = c
      BY <2>1 DEF Distributed
    <3>2. DOMAIN c = CellIDs
      OBVIOUS
    <3> HIDE DEF c
    <3>3. Total(c) = HostCapacity[r]
      BY <2>1, <3>1, CapacitySums DEF Distributed
    <3> QED
      BY <2>1, <3>2, <3>3, TotalIsSum DEF Distributed
  <2>4. ASSUME NEW id \in CellIDs
        PROVE  /\ hv.cells[id].capacity \in Counts /\ c[id] \in Nat
               /\ c[id] = hv.cells[id].capacity[r] /\ c[id] \in Capacities(r)
               /\ e[id] = Effective(hv.cells[id].capacity)[r]
               /\ fl[id] = Floored(c[id], r) /\ fl[id] \in Nat
    <3>1. hv.cells[id] \in CellStatus
      BY <2>1 DEF Distributed, StatusOK
    <3>2. hv.cells[id].capacity \in Counts /\ c[id] \in Nat
      BY <3>1 DEF CellStatus, Counts
    <3>3. e[id] = Effective(hv.cells[id].capacity)[r]
      BY <2>1 DEF Promised
    <3>4. c[id] \in Capacities(r)
      BY DEF Capacities
    <3>5. fl[id] \in Nat
      BY <2>1, <3>2, FlooredType
    <3> QED
      BY <3>2, <3>3, <3>4, <3>5
  <2>5. PICK C \in Nat : C = hv.capacity[r] /\ C \in Capacities(r)
    BY <2>1 DEF StatusOK, Counts, Capacities
  <2>6. hv.effective[r] = Effective(hv.capacity)[r] /\ hv.capacity \in Counts
    BY <2>1 DEF Promised, StatusOK
  <2>7. PICK F \in Nat, f \in Nat, n \in Nat :
          /\ F = Floored(C, r) /\ f = SumOn(fl, CellIDs) /\ n = Cardinality(CellIDs)
          /\ F - f \in {0} \cup 0..(n - 1)
    <3>1. PICK m \in Nat, p \in Nat \ {0} :
            m = Ratio(r).significand /\ p = Pow2[Ratio(r).exponent]
      BY <2>1, RatioType
    <3>2. \A id \in CellIDs : c[id] \in Nat /\ fl[id] = (c[id] * m) \div p
      BY <2>4, <3>1 DEF Floored
    <3>3. Floored(C, r) = (C * m) \div p /\ Floored(C, r) \in Nat
      BY <2>1, <3>1, FlooredType DEF Floored
    <3> HIDE DEF c, fl, e
    <3>4. /\ SumOn(fl, CellIDs) \in Nat
          /\ (SumOn(c, CellIDs) * m) \div p - SumOn(fl, CellIDs)
               \in {0} \cup 0..(Cardinality(CellIDs) - 1)
      BY <2>1, <3>2, FlooredSum
    <3>5. Cardinality(CellIDs) \in Nat
      BY <2>1, FS_CardinalityType
    <3> QED
      BY <2>3, <2>5, <3>3, <3>4, <3>5
  <2>8. ASSUME ExactProduct(r)
        PROVE  hv.effective[r] - SumOn(e, CellIDs) \in {0} \cup 0..(n - 1)
    <3>1. ASSUME NEW id \in CellIDs PROVE e[id] = fl[id]
      BY <2>1, <2>4, <2>8, EffectiveOf DEF ExactProduct
    <3>2. hv.effective[r] = F
      BY <2>1, <2>5, <2>6, <2>7, <2>8, EffectiveOf DEF ExactProduct
    <3> HIDE DEF c, fl, e
    <3>3. SumOn(e, CellIDs) = f
      BY <2>1, <2>7, <3>1, SumSame
    <3> QED
      BY <2>7, <3>2, <3>3
  <2>9. ASSUME InRange(r)
        PROVE  hv.effective[r] - SumOn(e, CellIDs) \in (-n)..n
    <3>1. ASSUME NEW id \in CellIDs PROVE e[id] \in {fl[id], fl[id] + 1}
      <4>1. c[id] < Pow2[Bits] /\ Floored(c[id], r) < Pow2[Bits]
        BY <2>4, <2>9 DEF InRange, Floored
      <4> QED
        BY <2>1, <2>4, <4>1, EffectiveOf
    <3>2. hv.effective[r] \in {F, F + 1}
      <4>1. C < Pow2[Bits] /\ Floored(C, r) < Pow2[Bits]
        BY <2>5, <2>9 DEF InRange, Floored
      <4> QED
        BY <2>1, <2>5, <2>6, <2>7, <4>1, EffectiveOf
    <3>3. PICK s \in Nat : s = SumOn(e, CellIDs) /\ s - f \in 0..n
      <4> HIDE DEF c, fl, e
      <4> QED
        BY <2>1, <2>4, <2>7, <3>1, RoundedSum
    <3>4. n = 0 => hv.effective[r] = 0
      <4> SUFFICES ASSUME n = 0 PROVE hv.effective[r] = 0
        OBVIOUS
      <4>1. CellIDs = {}
        BY <2>1, <2>7, FS_EmptySet
      <4>2. C = 0
        <5> HIDE DEF c
        <5> QED
          BY <2>3, <2>5, <4>1, SumEmpty
      <4>3. 0 < Pow2[Bits] /\ Float(0) = 0
        BY ConstantsAssumption, Pow2Type, FloatExact
      <4>4. PICK m \in Nat, p \in Nat \ {0} :
              m = Ratio(r).significand /\ p = Pow2[Ratio(r).exponent]
        BY <2>1, RatioType
      <4>5. 0 * m = 0 /\ 0 \div p = 0
        <5>1. 0 = 0 * p + 0 /\ 0 < p
          OBVIOUS
        <5> QED
          BY <5>1, DivIs
      <4>6. Floored(0, r) = 0
        BY <4>4, <4>5 DEF Floored
      <4> QED
        BY <2>1, <2>5, <2>6, <4>2, <4>3, <4>4, <4>5, <4>6, EffectiveOf
    <3>5. PICK E \in Nat : E = hv.effective[r]
      BY <2>7, <3>2
    <3>6. E - s \in (-n)..n
      <4>1. CASE n = 0
        <5>1. E = 0 /\ F = 0
          BY <3>2, <3>4, <3>5, <4>1
        <5>2. f = 0
          BY <2>7, <4>1, <5>1
        <5>3. s = 0
          BY <3>3, <4>1, <5>2
        <5> QED
          BY <4>1, <5>1, <5>3
      <4>2. CASE n > 0
        <5>1. F - f \in 0..(n - 1)
          <6>1. 0 \in 0..(n - 1)
            BY <4>2
          <6> QED
            BY <2>7, <6>1, Zenon
        <5>2. E - F \in 0..1
          BY <3>2, <3>5
        <5> QED
          BY <3>3, <5>1, <5>2
      <4> QED
        BY <4>1, <4>2
    <3> QED
      BY <3>3, <3>5, <3>6
  <2> HIDE DEF c, e, fl
  <2> QED
    BY <2>2, <2>3, <2>7, <2>8, <2>9
<1> QED
  BY <1>1, InitTypeInv, StepTypeInv, InitCells, StepCells, PTL DEF Spec

=============================================================================
