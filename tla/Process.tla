------------------------------ MODULE Process ------------------------------
(***************************************************************************)
(* What Process of internal/libvirt/libvirt.go adds to the status of the   *)
(* Hypervisor: the instances, the capabilities, capacity and allocation of *)
(* the host and of its NUMA cells, and the effective capacity.             *)
(*                                                                         *)
(* Process asks libvirt three times for the domains, each time for their   *)
(* names and then, one by one, for their descriptions, while the domains   *)
(* come, go, start and stop.  libvirt is external.                         *)
(***************************************************************************)
EXTENDS Integers, Sequences, FiniteSets, Functions

CONSTANTS
  Domains,      \* domains libvirt may know
  Infos,        \* descriptions a domain may have
  Hosts,        \* topologies: sequences of NUMA cells
  Overcommits,  \* values of Spec.Overcommit
  Modes,        \* the modes, devices and features of the domain capabilities
  Kibi,         \* 1024
  Bits,         \* 53, the bits of the significand of a float64
  None,         \* an element or an attribute that is missing
  MaxChanges,   \* bound: changes of a domain
  MaxFaults     \* bound: failed calls

Resource == {"memory", "cpu"}

ASSUME ConstantsAssumption ==
  Kibi \in Nat /\ Bits \in Nat \ {0} /\ MaxChanges \in Nat /\ MaxFaults \in Nat

\* A NUMA cell of a topology.
NumaCell == [id : Nat, memory : Nat, unit : STRING, cpus : Nat]

\* What libvirt reports and the object asks for: the domains are finitely many, the
\* amounts natural numbers, the cells of a host distinct, the ratios not negative.
ASSUME ReportsAssumption ==
  /\ IsFiniteSet(Domains)
  /\ \A i \in Infos :
       /\ i.memory \in Nat /\ (i.pins = None \/ i.pins \in Nat)
       /\ i.memNodes = None \/ i.memNodes \in Seq(Nat)
       /\ i.cpuCells = None \/ i.cpuCells \in Seq(Nat)
  /\ \A h \in Hosts :
       /\ h \in Seq(NumaCell)
       /\ \A i, j \in DOMAIN h : h[i].id = h[j].id => i = j
  /\ \A o \in Overcommits, r \in Resource :
       o[r] = None \/ o[r] \in [significand : Nat, exponent : Nat]

VARIABLES
  pc,          \* the next step of Process
  hv,          \* the status it is building
  stored,      \* the status in the API server
  names,       \* the domains of the last list
  todo,        \* those of them that are not described yet
  instances,   \* the instances addInstancesInfo has found
  state,       \* the state of every domain
  info,        \* its description
  host,        \* the topology
  overcommit,  \* Spec.Overcommit of the object Reconcile has read
  touched,     \* domains that changed since Process was called
  changes, faults

list  == <<names, todo, instances>>
fixed == <<info, host>>
world == <<state, touched, changes>>
vars  == <<pc, hv, stored, list, fixed, overcommit, world, faults>>

-----------------------------------------------------------------------------
(* Arithmetic.                                                             *)

Units == [KiB |-> Kibi, MiB |-> Kibi * Kibi, GiB |-> Kibi * Kibi * Kibi,
          TiB |-> Kibi * Kibi * Kibi * Kibi]

\* MemoryToResource, for a unit it knows.
Bytes(value, unit) == value * Units[unit]

KnownUnit(unit) == unit \in DOMAIN Units

Total(f) == FoldFunction(+, 0, f)

CellCapacity(cell) ==
  [r \in Resource |-> IF r = "memory" THEN Bytes(cell.memory, cell.unit)
                                      ELSE cell.cpus]

HostCapacity ==
  [r \in Resource |-> Total([i \in DOMAIN host |-> CellCapacity(host[i])[r]])]

\* The vCPUs of a domain are counted by its pins.
Amount(d, r) ==
  IF r = "memory" THEN Bytes(info[d].memory, info[d].unit) ELSE info[d].pins

\* The cells a domain names, MemNodes for memory and CPU.Numa.Cells for CPUs.
Nodes(d, r) == IF r = "memory" THEN info[d].memNodes ELSE info[d].cpuCells

CellIDs == {host[i].id : i \in DOMAIN host}

CellOf(id) == CHOOSE c \in Range(host) : c.id = id

\* addAllocationCapacity fails on a domain that lacks an element, has an unknown
\* unit or names a cell the host does not have.
Describable(d) ==
  /\ KnownUnit(info[d].unit) /\ info[d].pins # None
  /\ \A r \in Resource :
       Nodes(d, r) # None /\ \A i \in DOMAIN Nodes(d, r) : Nodes(d, r)[i] \in CellIDs

\* Mutant: the whole amount is added to every cell.
WholeShare(d, r, id) ==
  Amount(d, r) * Cardinality({i \in DOMAIN Nodes(d, r) : Nodes(d, r)[i] = id})

\* What a domain adds to a cell: the same quotient for every entry.
Share(d, r, id) ==
  LET entries == {i \in DOMAIN Nodes(d, r) : Nodes(d, r)[i] = id}
  IN  IF entries = {} THEN 0
      ELSE Cardinality(entries) * (Amount(d, r) \div Len(Nodes(d, r)))

Allocation(ds) == [r \in Resource |-> Total([d \in ds |-> Amount(d, r)])]

CellAllocation(ds, id) ==
  [r \in Resource |-> Total([d \in ds |-> Share(d, r, id)])]

Pow2[n \in Nat] == IF n = 0 THEN 1 ELSE 2 * Pow2[n - 1]

\* The bits of n that do not fit the significand.
Shift(n) ==
  CHOOSE k \in 0..n : /\ n \div Pow2[k] < Pow2[Bits]
                      /\ \A j \in 0..(k - 1) : n \div Pow2[j] >= Pow2[Bits]

\* The float64 nearest to n, ties to even.
Float(n) ==
  LET ulp  == Pow2[Shift(n)]
      low  == n \div ulp
      rest == n % ulp
  IN  IF 2 * rest > ulp \/ (2 * rest = ulp /\ low % 2 = 1) THEN (low + 1) * ulp
                                                         ELSE low * ulp

\* The overcommit ratio of a resource, 1.0 by default.  A ratio is a float64:
\* significand / 2^exponent.
Ratio(r) ==
  IF overcommit[r] = None THEN [significand |-> 1, exponent |-> 0] ELSE overcommit[r]

\* float64(capacity) * overcommit, in units of 2^-exponent.
Product(c, r) == Float(Float(c) * Ratio(r).significand)

\* Mutant: the product is rounded up.
RoundedUp(capacity) ==
  [r \in Resource |-> LET unit == Pow2[Ratio(r).exponent]
                      IN  (Product(capacity[r], r) + unit - 1) \div unit]

\* The int64 of the product.
Effective(capacity) ==
  [r \in Resource |-> Product(capacity[r], r) \div Pow2[Ratio(r).exponent]]

-----------------------------------------------------------------------------
(* Process, one step per processor and call of libvirt.                    *)

Zero == [r \in Resource |-> 0]

EmptyStatus ==
  [instances |-> {}, hostCapacity |-> Zero, supported |-> {},
   capacity |-> Zero, allocation |-> Zero, cells |-> <<>>, effective |-> Zero]

Fault == faults < MaxFaults /\ faults' = faults + 1

\* Process is called with the object as Reconcile has read it.
Call ==
  /\ pc \in {"returned", "failed"}
  /\ hv' = stored /\ overcommit' \in Overcommits
  /\ touched' = {} /\ names' = {} /\ todo' = {} /\ instances' = {}
  /\ pc' = "active"
  /\ UNCHANGED <<stored, fixed, state, changes, faults>>

\* Mutant: the last list asks for the running domains only.
AskedRunning == [active |-> {"active"}, inactive |-> {"inactive"},
                 domains |-> {"active"}]

\* The states a list asks for; the last one has no flag.
Asked == [active |-> {"active"}, inactive |-> {"inactive"},
          domains |-> {"inactive", "active"}]

Described ==
  [active |-> "activeInfo", inactive |-> "inactiveInfo", domains |-> "domainInfo"]

\* ConnectListAllDomains
List ==
  /\ pc \in DOMAIN Asked
  /\ names' = {d \in Domains : state[d] \in Asked[pc]}
  /\ todo' = names'
  /\ pc' = Described[pc]
  /\ UNCHANGED <<hv, stored, instances, fixed, overcommit, world, faults>>

\* DomainGetXMLDesc
Describe ==
  /\ \E d \in todo : state[d] # "absent" /\ todo' = todo \ {d}
  /\ UNCHANGED <<pc, hv, stored, names, instances, fixed, overcommit, world, faults>>

\* addInstancesInfo, after the first and after the second list.
AddActive ==
  /\ pc = "activeInfo" /\ todo = {}
  /\ instances' = names \X {TRUE}
  /\ pc' = "inactive"
  /\ UNCHANGED <<hv, stored, names, todo, fixed, overcommit, world, faults>>

\* Mutant: the second list replaces the first.
AddInactiveOver ==
  /\ pc = "inactiveInfo" /\ todo = {}
  /\ hv' = [hv EXCEPT !.instances = names \X {FALSE}]
  /\ pc' = "capabilities"
  /\ UNCHANGED <<stored, list, fixed, overcommit, world, faults>>

AddInactive ==
  /\ pc = "inactiveInfo" /\ todo = {}
  /\ hv' = [hv EXCEPT !.instances = instances \cup (names \X {FALSE})]
  /\ pc' = "capabilities"
  /\ UNCHANGED <<stored, list, fixed, overcommit, world, faults>>

AddCapabilities ==
  /\ pc = "capabilities"
  /\ \A i \in DOMAIN host : KnownUnit(host[i].unit)
  /\ hv' = [hv EXCEPT !.hostCapacity = HostCapacity]
  /\ pc' = "domcapabilities"
  /\ UNCHANGED <<stored, list, fixed, overcommit, world, faults>>

\* How a name and its values are written in the lists is left out.
AddDomainCapabilities ==
  /\ pc = "domcapabilities"
  /\ hv' = [hv EXCEPT !.supported = {m \in Modes : m.supported}]
  /\ pc' = "domains"
  /\ UNCHANGED <<stored, list, fixed, overcommit, world, faults>>

\* Cells are built anew, without an effective capacity.
AddAllocationCapacity ==
  /\ pc = "domainInfo"
  /\ todo = {} /\ \A d \in names : Describable(d)
  /\ hv' = [hv EXCEPT
       !.capacity = HostCapacity, !.allocation = Allocation(names),
       !.cells = [id \in CellIDs |->
          [capacity |-> CellCapacity(CellOf(id)),
           allocation |-> CellAllocation(names, id), effective |-> Zero]]]
  /\ pc' = "effective"
  /\ UNCHANGED <<stored, list, fixed, overcommit, world, faults>>

\* Mutant: the effective capacity is what is left of it.
EffectiveLeft ==
  /\ pc = "effective"
  /\ hv' = [hv EXCEPT
       !.effective = [r \in Resource |->
          Effective(hv.capacity)[r] - hv.allocation[r]],
       !.cells = [id \in DOMAIN @ |->
          [@[id] EXCEPT !.effective = Effective(hv.cells[id].capacity)]]]
  /\ pc' = "done"
  /\ UNCHANGED <<stored, list, fixed, overcommit, world, faults>>

AddEffectiveCapacity ==
  /\ pc = "effective"
  /\ hv' = [hv EXCEPT
       !.effective = Effective(hv.capacity),
       !.cells = [id \in DOMAIN @ |->
          [@[id] EXCEPT !.effective = Effective(hv.cells[id].capacity)]]]
  /\ pc' = "done"
  /\ UNCHANGED <<stored, list, fixed, overcommit, world, faults>>

\* A call fails, a domain is gone before it is described, or a description (a
\* missing NumaTune is a panic, which the controller's runtime turns into an error)
\* or the topology cannot be used: Process returns with the error.
Fails ==
  /\ pc \notin {"returned", "failed", "effective", "done"}
  /\ \/ Fault
     \/ /\ \/ \E d \in todo : state[d] = "absent"
           \/ pc = "domainInfo" /\ todo = {} /\ \E d \in names : ~Describable(d)
           \/ pc = "capabilities" /\ \E i \in DOMAIN host : ~KnownUnit(host[i].unit)
        /\ UNCHANGED faults
  /\ pc' = "failed"
  /\ UNCHANGED <<hv, stored, list, fixed, overcommit, world>>

\* Reconcile writes the status after a call without error; the patch may be
\* refused, because the object has changed since it was read, or not answered.
Write ==
  /\ pc = "done"
  /\ \/ stored' = hv /\ pc' = "returned" /\ UNCHANGED faults
     \/ Fault /\ pc' = "failed" /\ UNCHANGED stored
  /\ UNCHANGED <<hv, list, fixed, overcommit, world>>

ProcessStep ==
  \/ Call \/ List \/ Describe \/ AddActive \/ AddInactive \/ AddCapabilities
  \/ AddDomainCapabilities \/ AddAllocationCapacity \/ AddEffectiveCapacity
  \/ Fails \/ Write

-----------------------------------------------------------------------------

DomainChanges ==
  /\ changes < MaxChanges /\ changes' = changes + 1
  /\ \E d \in Domains, s \in {"absent", "inactive", "active"} :
       /\ s # state[d]
       /\ state' = [state EXCEPT ![d] = s]
       /\ touched' = touched \cup {d}
  /\ UNCHANGED <<pc, hv, stored, list, fixed, overcommit, faults>>

Init ==
  /\ pc = "returned" /\ hv = EmptyStatus /\ stored = EmptyStatus
  /\ names = {} /\ todo = {} /\ instances = {}
  /\ state \in [Domains -> {"absent", "inactive", "active"}]
  /\ info \in [Domains -> Infos]
  /\ host \in Hosts /\ overcommit \in Overcommits
  /\ touched = {} /\ changes = 0 /\ faults = 0

Next == ProcessStep \/ DomainChanges

Spec == Init /\ [][Next]_vars

-----------------------------------------------------------------------------
(* Properties, of the status Reconcile is about to write.                  *)

Counts == [Resource -> Nat]

\* Every list and every count of the status has its type.
TypeOK ==
  /\ todo \subseteq names /\ names \subseteq Domains /\ touched \subseteq Domains
  /\ \A s \in {hv, stored} :
       /\ s.instances \subseteq Domains \X BOOLEAN
       /\ {s.hostCapacity, s.capacity, s.allocation, s.effective} \subseteq Counts
       /\ \A id \in DOMAIN s.cells :
            s.cells[id] \in [capacity : Counts, allocation : Counts, effective : Counts]

Entries(d) == {e \in hv.instances : e[1] = d}

\* A domain that kept its state while Process ran is listed once, with its state,
\* however the others came, went, started and stopped between the two lists; one
\* that is not there is not listed.
SteadyDomainListedOnce ==
  pc = "done" => \A d \in Domains \ touched :
    Entries(d) = IF state[d] = "absent" THEN {} ELSE {<<d, state[d] = "active">>}

\* The instances and the allocation are about the same domains when none has
\* changed, although they come from different lists: none is listed that could
\* not be counted.
AllocationMatchesInstances ==
  pc = "done" /\ touched = {} =>
    LET listed == {e[1] : e \in hv.instances}
    IN  (\A d \in listed : Describable(d)) /\ hv.allocation = Allocation(listed)

CellSum(field, r) == Total([id \in DOMAIN hv.cells |-> hv.cells[id][field][r]])

\* What the integer division loses of domain d.
Lost(d, r) ==
  IF Nodes(d, r) = <<>> THEN Amount(d, r) ELSE Amount(d, r) % Len(Nodes(d, r))

\* "assume the distribution across cells is even": the cells together hold the
\* allocation, less the remainders of the divisions and the domains without cells.
CellsHoldAllocation ==
  pc = "done" => \A r \in Resource :
    CellSum("allocation", r) + Total([d \in names |-> Lost(d, r)])
      = hv.allocation[r]

Capacities(r) == {hv.capacity[r]} \cup {hv.cells[id].capacity[r] : id \in CellIDs}

\* float64 holds the capacities of resource r and their products.
ExactProduct(r) ==
  \A c \in Capacities(r) :
    Float(c) = c /\ Float(c * Ratio(r).significand) = c * Ratio(r).significand

\* The capacities and the effective capacities are below 2^53.
InRange(r) ==
  \A c \in Capacities(r) :
    /\ c < Pow2[Bits]
    /\ (c * Ratio(r).significand) \div Pow2[Ratio(r).exponent] < Pow2[Bits]

\* "In case the resulting values are fractional, they are floored": the cells never
\* promise more than the host does, and less than one unit a cell is lost.  When
\* float64 rounds the products, both bounds are off by at most one unit a cell.
CellsPromiseNoMore ==
  pc = "done" => \A r \in Resource :
    LET n == Cardinality(CellIDs)
        difference == hv.effective[r] - CellSum("effective", r)
    IN  /\ CellSum("capacity", r) = hv.capacity[r]
        /\ ExactProduct(r) => difference \in {0} \cup 0..(n - 1)
        /\ InRange(r) => difference \in (-n)..n

=============================================================================
