---------------------------- MODULE MachineProofs ----------------------------
(***************************************************************************)
(* The charms on machines.  Hypervisor: the settings of the snap agree     *)
(* with the relations, the options and what EPA has allocated              *)
(* (SnapSettled).  VolumeBackends: cinder-volume, its drivers and their    *)
(* snap agree when no hook waits (BackendsServed).                         *)
(***************************************************************************)
EXTENDS Hypervisor, VolumeBackends, FiniteSetTheorems, FunctionTheorems,
        SequenceTheorems, TLAPS

-----------------------------------------------------------------------------
(* Hypervisor: the parts of its invariant.                                 *)

HvEvents == {"config", "joined", "changed", "departed", "broken"}

\* Types that are no property of their own.
HvShape ==
    /\ hvplan \in HvPlans
    /\ hvdue \subseteq HvEvents
    /\ settings = [k \in HvSettings |-> settings[k]]
    /\ agents \in BOOLEAN
    /\ knobs \in [epa : BOOLEAN, dpdk : BOOLEAN, control : Nat, datapath : Nat,
                  memory : Nat, provider : {"auto", "microovn", "ovn"}]
    /\ ports \subseteq Nodes /\ ports # {}
    /\ epa \in [Services -> [Nodes -> SUBSET AllCores]]
    /\ pages \in [Nodes -> Nat]
    /\ \A s \in Services : Allocated(s) \cap others = {}
    /\ between \in BOOLEAN

\* The relation and its hooks.
LinkInv ==
    /\ {"joined", "changed"} \cap hvdue # {} => link = "up"
    /\ "departed" \in hvdue => link = "leaving"
    /\ "broken" \in hvdue => link = "none"
    /\ hvplan.focus = "cos-agent" /\ link = "up" => offer = 1
    /\ hvplan.focus = "options" => link = "none"
    /\ knobs.epa => hvplan.focus = "options"

\* The calls that a hook makes with the options and the ports as they are.
Asked == {HandleOvsDpdk[i] : i \in DOMAIN HandleOvsDpdk}

\* The allocation is what the call asks for.
Made(c) ==
    IF c.svc = "pages" THEN pages[c.node] = IF c.count = -1 THEN 0 ELSE c.count
    ELSE /\ c.svc # "refused"
         /\ IF c.count = -1 THEN epa[c.svc][c.node] = {}
            ELSE Cardinality(epa[c.svc][c.node]) = c.count

\* The hook that runs has made each of its calls or has yet to make it.
CallsInv ==
    /\ calls \in Seq(Asked)
    /\ ~ Running => calls = << >>
    /\ Running => /\ \A c \in Asked : Made(c) \/ \E i \in DOMAIN calls : calls[i] = c
                  /\ DOMAIN hvhook.data \cap ({"dpdk", "memory"} \cup Services) = {}

\* Settings and allocations are what the options ask for, while no hook runs that
\* would change them.
Balanced ==
    /\ \A s \in Services :
          IF knobs.dpdk /\ knobs[s] # 0
            THEN /\ settings[s] = Allocated(s)
                 /\ Cardinality(settings[s]) = knobs[s]
                 /\ settings[s] \subseteq UNION {CoresOf[n] : n \in ports}
            ELSE Allocated(s) = {}
    /\ knobs.dpdk /\ knobs.memory # 0 => pages = settings["memory"]
    /\ ~ knobs.dpdk => \A n \in Nodes : pages[n] = 0

BalanceInv ==
    ~ Running /\ health = "active" /\ knobs.epa /\ "config" \notin hvdue => Balanced

\* The key of the snap's settings that shows the relation in focus.
FocusKey ==
    CASE hvplan.focus = "cos-agent" -> "monitoring"
      [] hvplan.focus = "ceilometer-service" -> "telemetry"
      [] OTHER -> hvplan.focus

\* No hook of the relation waits that would configure the charm.
Heard == hvdue \cap HvHears(hvplan.focus) = {}
Offered == IF hvplan.focus = "ceilometer-service" THEN 1 ELSE offer

\* A relation that is up is in the settings, or in what the hook will write.
UpInv ==
    hvplan.focus # "options" /\ link = "up" /\ offer # 0 /\ Heard =>
        IF Running THEN FocusKey \in DOMAIN hvhook.data /\ hvhook.data[FocusKey] = Offered
        ELSE health = "blocked" \/ (health = "active" /\ agents /\ FocusSetting = Offered)

\* A relation has gone and its last hook has run.
Gone == IF hvplan.focus = "cos-agent"
          THEN ~ between /\ (link = "none" \/ (link = "leaving" /\ "departed" \notin hvdue))
          ELSE link = "none" /\ "broken" \notin hvdue

\* One that has gone is not.
GoneInv ==
    hvplan.focus # "options" /\ GoesWithRelation /\ Gone =>
        IF Running THEN FocusKey \in DOMAIN hvhook.data /\ hvhook.data[FocusKey] = 0
        ELSE health = "blocked" \/ FocusSetting = 0
-----------------------------------------------------------------------------
(* The nodes and the calls of EPA.                                         *)

LEMMA SomePorts ==
    ASSUME HvShape
    PROVE  /\ IsFiniteSet(ports) /\ Cardinality(ports) \in Nat \ {0}
           /\ Cardinality(Nodes) \in Nat \ {0}
<1>1. IsFiniteSet(ports) /\ ports # {} /\ IsFiniteSet(Nodes) /\ Nodes # {}
  BY HypervisorAssumption, FS_Subset DEF HvShape
<1> QED
  BY <1>1, FS_CardinalityType, FS_EmptySet

LEMMA NodesInOrder ==
    ASSUME HvShape
    PROVE  /\ DOMAIN NodeOrder = 1..Cardinality(Nodes)
           /\ \A i \in DOMAIN NodeOrder : NodeOrder[i] \in Nodes /\ NodeOrder[i] = i - 1
           /\ \A n \in Nodes : n \in Int /\ n + 1 \in DOMAIN NodeOrder /\ NodeOrder[n + 1] = n
<1>1. Cardinality(Nodes) \in Nat /\ Nodes = 0..(Cardinality(Nodes) - 1)
  BY SomePorts, HypervisorAssumption
<1> DEFINE k == Cardinality(Nodes)
<1>2. DOMAIN NodeOrder = 1..k /\ \A i \in 1..k : NodeOrder[i] = i - 1
  BY DEF NodeOrder
<1>3. k \in Nat /\ Nodes = 0..(k - 1)
  BY <1>1
<1> HIDE DEF k
<1>4. /\ \A i \in 1..k : i - 1 \in Nodes
      /\ \A n \in Nodes : n \in Int /\ n + 1 \in 1..k /\ (n + 1) - 1 = n
  BY <1>3
<1>5. \A i \in DOMAIN NodeOrder : NodeOrder[i] \in Nodes /\ NodeOrder[i] = i - 1
  BY <1>2, <1>4
<1>6. \A n \in Nodes : n \in Int /\ n + 1 \in DOMAIN NodeOrder /\ NodeOrder[n + 1] = n
  BY <1>2, <1>4
<1> QED
  BY <1>2, <1>5, <1>6 DEF k

\* The call that gives purpose s on node n what the options say.
Count(s, n) ==
    IF ~ knobs.dpdk \/ n \notin ports THEN -1
    ELSE IF s = "pages" THEN MemoryOf(n)
    ELSE IF knobs[s] = 0 THEN -1 ELSE knobs[s] \div Cardinality(ports)

Call(s, n) == [svc |-> s, node |-> n, count |-> Count(s, n)]

\* The elements of a sequence.
Items(seq) == {seq[i] : i \in DOMAIN seq}

LEMMA ItemsOfBoth ==
    ASSUME NEW S, NEW p \in Seq(S), NEW q \in Seq(S)
    PROVE  p \o q \in Seq(S) /\ Items(p \o q) = Items(p) \cup Items(q)
<1>1. p \o q \in Seq(S) /\ DOMAIN (p \o q) = 1..(Len(p) + Len(q)) /\ DOMAIN p = 1..Len(p) /\ DOMAIN q = 1..Len(q)
      /\ Len(p) \in Nat /\ Len(q) \in Nat
  BY LenProperties, ConcatProperties
<1>2. \A i \in 1..(Len(p) + Len(q)) : (p \o q)[i] = IF i <= Len(p) THEN p[i] ELSE q[i - Len(p)]
  BY ConcatProperties
<1>3. \A i \in DOMAIN (p \o q) : (p \o q)[i] \in Items(p) \cup Items(q)
  <2> TAKE i \in DOMAIN (p \o q)
  <2>1. CASE i <= Len(p)
    BY <1>1, <1>2, <2>1 DEF Items
  <2>2. CASE ~ (i <= Len(p))
    <3>1. i - Len(p) \in DOMAIN q
      BY <1>1, <2>2
    <3> QED
      BY <1>1, <1>2, <2>2, <3>1 DEF Items
  <2> QED
    BY <2>1, <2>2
<1>4. \A i \in DOMAIN p : p[i] \in Items(p \o q)
  <2> TAKE i \in DOMAIN p
  <2>1. i \in DOMAIN (p \o q) /\ i <= Len(p)
    BY <1>1
  <2> QED
    BY <1>1, <1>2, <2>1 DEF Items
<1>5. \A i \in DOMAIN q : q[i] \in Items(p \o q)
  <2> TAKE i \in DOMAIN q
  <2>1. Len(p) + i \in DOMAIN (p \o q) /\ ~ (Len(p) + i <= Len(p)) /\ (Len(p) + i) - Len(p) = i
    BY <1>1
  <2> QED
    BY <1>1, <1>2, <2>1 DEF Items
<1> QED
  BY <1>1, <1>3, <1>4, <1>5 DEF Items

LEMMA ItemsOfCores ==
    ASSUME HvShape, knobs.dpdk, NEW s \in Services
    PROVE  LET m == knobs[s]
           IN  /\ CoreCalls(s, m) \in Seq({Refused} \cup {Call(s, n) : n \in Nodes})
               /\ Items(CoreCalls(s, m)) =
                    IF m # 0 /\ m % Cardinality(ports) # 0 THEN {Refused}
                    ELSE {Call(s, n) : n \in Nodes}
<1> DEFINE m == knobs[s]
           seq == [i \in DOMAIN NodeOrder |-> Call(s, NodeOrder[i])]
<1>1. seq \in Seq({Call(s, n) : n \in Nodes}) /\ Items(seq) = {Call(s, n) : n \in Nodes}
  <2>1. \A i \in DOMAIN NodeOrder : NodeOrder[i] \in Nodes
    BY NodesInOrder
  <2>2. \A n \in Nodes : \E i \in DOMAIN NodeOrder : NodeOrder[i] = n
    BY NodesInOrder
  <2>3. DOMAIN NodeOrder = 1..Cardinality(Nodes) /\ Cardinality(Nodes) \in Nat
    BY NodesInOrder, SomePorts
  <2>4. seq \in Seq({Call(s, n) : n \in Nodes})
    BY <2>1, <2>3
  <2>5. Items(seq) = {Call(s, n) : n \in Nodes}
    BY <2>1, <2>2 DEF Items
  <2> QED
    BY <2>4, <2>5
<1>2. CASE m # 0 /\ m % Cardinality(ports) # 0
  <2>1. CoreCalls(s, m) = <<Refused>>
    BY <1>2 DEF CoreCalls
  <2>2. Items(<<Refused>>) = {Refused}
    BY DEF Items
  <2> QED
    BY <1>2, <2>1, <2>2
<1>3. CASE ~ (m # 0 /\ m % Cardinality(ports) # 0)
  <2>1. s # "pages"
    BY DEF Services
  <2>2. CoreCalls(s, m) = seq
    <3>1. CASE m = 0
      <4>1. \A n : NoCores(s, n) = Call(s, n)
        BY <2>1, <3>1 DEF NoCores, Call, Count
      <4>2. CoreCalls(s, m) = [i \in DOMAIN NodeOrder |-> NoCores(s, NodeOrder[i])]
        BY <3>1 DEF CoreCalls, EachNode
      <4> QED
        BY <4>1, <4>2
    <3>2. CASE m # 0
      <4>1. \A n : Call(s, n) = IF n \in ports THEN [svc |-> s, node |-> n, count |-> m \div Cardinality(ports)]
                                ELSE NoCores(s, n)
        BY <2>1, <3>2 DEF NoCores, Call, Count
      <4>2. CoreCalls(s, m) = [i \in DOMAIN NodeOrder |->
               IF NodeOrder[i] \in ports THEN [svc |-> s, node |-> NodeOrder[i], count |-> m \div Cardinality(ports)]
               ELSE NoCores(s, NodeOrder[i])]
        BY <1>3, <3>2 DEF CoreCalls, EachNode
      <4> QED
        BY <4>1, <4>2
    <3> QED
      BY <3>1, <3>2
  <2>3. seq \in Seq({Refused} \cup {Call(s, n) : n \in Nodes})
    BY <1>1, SeqMonotonic
  <2> QED
    BY <1>1, <1>3, <2>2, <2>3
<1> QED
  BY <1>2, <1>3

\* What the calls of a hook are: the one that is wanted for each purpose and
\* node, or a refusal.
CallSet == {Refused} \cup {Call(s, n) : s \in Services \cup {"pages"}, n \in Nodes}

LEMMA ItemsOfMemory ==
    ASSUME HvShape, knobs.dpdk
    PROVE  /\ MemoryCalls \in Seq({Call("pages", n) : n \in Nodes})
           /\ Items(MemoryCalls) = IF knobs.memory = 0 THEN {} ELSE {Call("pages", n) : n \in Nodes}
<1>1. CASE knobs.memory = 0
  <2>1. MemoryCalls = << >>
    BY <1>1 DEF MemoryCalls
  <2>2. Items(<< >>) = {}
    BY DEF Items
  <2> QED
    BY <1>1, <2>1, <2>2, EmptySeq
<1>2. CASE knobs.memory # 0
  <2> DEFINE seq == [i \in DOMAIN NodeOrder |-> Call("pages", NodeOrder[i])]
  <2>1. \A n : Call("pages", n) = IF n \in ports THEN Pages(n) ELSE NoPages(n)
    BY DEF Call, Count, Pages, NoPages
  <2>2. MemoryCalls = [i \in DOMAIN NodeOrder |->
           IF NodeOrder[i] \in ports THEN Pages(NodeOrder[i]) ELSE NoPages(NodeOrder[i])]
    BY <1>2 DEF MemoryCalls, EachNode
  <2>3. MemoryCalls = seq
    BY <2>1, <2>2
  <2>4. \A i \in DOMAIN NodeOrder : NodeOrder[i] \in Nodes
    BY NodesInOrder
  <2>5. \A n \in Nodes : \E i \in DOMAIN NodeOrder : NodeOrder[i] = n
    BY NodesInOrder
  <2>6. DOMAIN NodeOrder = 1..Cardinality(Nodes) /\ Cardinality(Nodes) \in Nat
    BY NodesInOrder, SomePorts
  <2>7. seq \in Seq({Call("pages", n) : n \in Nodes})
    BY <2>4, <2>6
  <2>8. Items(seq) = {Call("pages", n) : n \in Nodes}
    BY <2>4, <2>5 DEF Items
  <2> QED
    BY <1>2, <2>3, <2>7, <2>8
<1> QED
  BY <1>1, <1>2

LEMMA ItemsOfClear ==
    ASSUME HvShape, ~ knobs.dpdk
    PROVE  /\ ClearCalls \in Seq(CallSet)
           /\ Items(ClearCalls) = {Call(s, n) : s \in Services \cup {"pages"}, n \in Nodes}
<1> DEFINE k == Cardinality(Nodes)
<1>1. k \in Nat /\ DOMAIN NodeOrder = 1..k
  BY SomePorts, NodesInOrder
<1>2. /\ \A i \in 1..k : NodeOrder[i] \in Nodes
      /\ \A n \in Nodes : \E i \in 1..k : NodeOrder[i] = n
  BY <1>1, NodesInOrder
<1>3. \A n : /\ NoPages(n) = Call("pages", n) 
             /\ NoCores("control", n) = Call("control", n)
             /\ NoCores("datapath", n) = Call("datapath", n)
  BY DEF NoPages, NoCores, Call, Count
<1>4. /\ DOMAIN ClearCalls = 1..(3 * k)
      /\ \A i \in 1..(3 * k) :
            ClearCalls[i] = LET n == NodeOrder[((i - 1) \div 3) + 1]
                            IN CASE i % 3 = 1 -> Call("pages", n)
                                 [] i % 3 = 2 -> Call("control", n)
                                 [] i % 3 = 0 -> Call("datapath", n)
  BY <1>3 DEF ClearCalls
<1> HIDE DEF k
<1>5. \A i \in 1..(3 * k) : ((i - 1) \div 3) + 1 \in 1..k /\ i % 3 \in 0..2
  BY <1>1
<1>6. \A i \in 1..(3 * k) : ClearCalls[i] \in {Call(s, n) : s \in Services \cup {"pages"}, n \in Nodes}
  <2> TAKE i \in 1..(3 * k)
  <2> DEFINE n == NodeOrder[((i - 1) \div 3) + 1]
  <2>1. n \in Nodes
    BY <1>2, <1>5
  <2>2. i % 3 = 0 \/ i % 3 = 1 \/ i % 3 = 2
    BY <1>5
  <2>3. \/ ClearCalls[i] = Call("pages", n) \/ ClearCalls[i] = Call("control", n)
        \/ ClearCalls[i] = Call("datapath", n)
    BY <1>4, <2>2
  <2> QED
    BY <2>1, <2>3 DEF Services
<1>7. \A j \in 1..k : /\ ClearCalls[3 * j - 2] = Call("pages", NodeOrder[j])
                      /\ ClearCalls[3 * j - 1] = Call("control", NodeOrder[j])
                      /\ ClearCalls[3 * j] = Call("datapath", NodeOrder[j])
                      /\ {3 * j - 2, 3 * j - 1, 3 * j} \subseteq 1..(3 * k)
  <2> TAKE j \in 1..k
  <2>1. /\ {3 * j - 2, 3 * j - 1, 3 * j} \subseteq 1..(3 * k)
        /\ ((3 * j - 2 - 1) \div 3) + 1 = j /\ (3 * j - 2) % 3 = 1
        /\ ((3 * j - 1 - 1) \div 3) + 1 = j /\ (3 * j - 1) % 3 = 2
        /\ ((3 * j - 1) \div 3) + 1 = j /\ (3 * j) % 3 = 0
    BY <1>1
  <2>2. ClearCalls[3 * j - 2] = Call("pages", NodeOrder[j])
    <3> DEFINE i == 3 * j - 2
    <3>1. i \in 1..(3 * k) /\ ((i - 1) \div 3) + 1 = j /\ i % 3 = 1
      BY <2>1
    <3> HIDE DEF i
    <3>2. ClearCalls[i] = Call("pages", NodeOrder[j])
      BY <1>4, <3>1
    <3> QED
      BY <3>2 DEF i
  <2>3. ClearCalls[3 * j - 1] = Call("control", NodeOrder[j])
    <3> DEFINE i == 3 * j - 1
    <3>1. i \in 1..(3 * k) /\ ((i - 1) \div 3) + 1 = j /\ i % 3 = 2
      BY <2>1
    <3> HIDE DEF i
    <3>2. ClearCalls[i] = Call("control", NodeOrder[j])
      BY <1>4, <3>1
    <3> QED
      BY <3>2 DEF i
  <2>4. ClearCalls[3 * j] = Call("datapath", NodeOrder[j])
    <3> DEFINE i == 3 * j
    <3>1. i \in 1..(3 * k) /\ ((i - 1) \div 3) + 1 = j /\ i % 3 = 0
      BY <2>1
    <3> HIDE DEF i
    <3>2. ClearCalls[i] = Call("datapath", NodeOrder[j])
      BY <1>4, <3>1
    <3> QED
      BY <3>2 DEF i
  <2> QED
    BY <2>1, <2>2, <2>3, <2>4
<1>8. \A s \in Services \cup {"pages"}, n \in Nodes : Call(s, n) \in Items(ClearCalls)
  <2> TAKE s \in Services \cup {"pages"}, n \in Nodes
  <2>1. PICK j \in 1..k : NodeOrder[j] = n
    BY <1>2
  <2>2. s = "pages" \/ s = "control" \/ s = "datapath"
    BY DEF Services
  <2> QED
    BY <1>4, <1>7, <2>1, <2>2 DEF Items
<1>9. ClearCalls \in Seq(CallSet)
  <2>1. 3 * k \in Nat /\ ClearCalls = [i \in 1..(3 * k) |-> ClearCalls[i]]
    BY <1>1 DEF ClearCalls, k
  <2>2. \A i \in 1..(3 * k) : ClearCalls[i] \in CallSet
    BY <1>6 DEF CallSet
  <2>3. ClearCalls \in [1..(3 * k) -> CallSet]
    BY <2>1, <2>2
  <2> QED
    BY <2>1, <2>3
<1>10. \A c \in Items(ClearCalls) : \E s \in Services \cup {"pages"}, n \in Nodes : c = Call(s, n)
  BY <1>4, <1>6 DEF Items
<1> QED
  BY <1>8, <1>9, <1>10

\* All calls that a hook makes.
LEMMA AskedCalls ==
    ASSUME HvShape
    PROVE  /\ HandleOvsDpdk \in Seq(CallSet)
           /\ ~ knobs.epa => Asked = {}
           /\ knobs.epa /\ (~ knobs.dpdk \/ knobs.memory # 0) => \A n \in Nodes : Call("pages", n) \in Asked
           /\ knobs.epa => \A s \in Services :
                 IF knobs.dpdk /\ knobs[s] # 0 /\ knobs[s] % Cardinality(ports) # 0 THEN Refused \in Asked
                 ELSE \A n \in Nodes : Call(s, n) \in Asked
<1>0. Asked = Items(HandleOvsDpdk)
  BY DEF Asked, Items
<1>1. CASE ~ knobs.epa
  <2>1. HandleOvsDpdk = << >> /\ Items(<< >>) = {}
    BY <1>1 DEF HandleOvsDpdk, Items
  <2> QED
    BY <1>0, <1>1, <2>1, EmptySeq
<1>2. CASE knobs.epa /\ ~ knobs.dpdk
  <2>1. HandleOvsDpdk = ClearCalls
    BY <1>2 DEF HandleOvsDpdk
  <2>2. \A s \in Services \cup {"pages"}, n \in Nodes : Call(s, n) \in Asked
    BY <1>0, <1>2, <2>1, ItemsOfClear
  <2> QED
    BY <1>2, <2>1, <2>2, ItemsOfClear
<1>3. CASE knobs.epa /\ knobs.dpdk
  <2> DEFINE control == CoreCalls("control", knobs["control"])
             datapath == CoreCalls("datapath", knobs["datapath"])
  <2>1. HandleOvsDpdk = (MemoryCalls \o control) \o datapath
    BY <1>3 DEF HandleOvsDpdk
  <2>2. /\ control \in Seq({Refused} \cup {Call("control", n) : n \in Nodes})
        /\ datapath \in Seq({Refused} \cup {Call("datapath", n) : n \in Nodes})
    BY <1>3, ItemsOfCores DEF Services
  <2>3. {control, datapath, MemoryCalls} \subseteq Seq(CallSet)
    <3>1. /\ {Refused} \cup {Call("control", n) : n \in Nodes} \subseteq CallSet
          /\ {Refused} \cup {Call("datapath", n) : n \in Nodes} \subseteq CallSet
          /\ {Call("pages", n) : n \in Nodes} \subseteq CallSet
      BY DEF CallSet, Services
    <3> HIDE DEF control, datapath
    <3>2. control \in Seq(CallSet) /\ datapath \in Seq(CallSet)
      BY <2>2, <3>1, SeqMonotonic
    <3>3. MemoryCalls \in Seq(CallSet)
      BY <1>3, <3>1, ItemsOfMemory, SeqMonotonic
    <3> QED
      BY <3>2, <3>3
  <2>4. /\ Items(control) = IF knobs["control"] # 0 /\ knobs["control"] % Cardinality(ports) # 0
                            THEN {Refused} ELSE {Call("control", n) : n \in Nodes}
        /\ Items(datapath) = IF knobs["datapath"] # 0 /\ knobs["datapath"] % Cardinality(ports) # 0
                             THEN {Refused} ELSE {Call("datapath", n) : n \in Nodes}
    BY <1>3, ItemsOfCores DEF Services
  <2> HIDE DEF control, datapath
  <2>5. MemoryCalls \o control \in Seq(CallSet) /\ Items(MemoryCalls \o control) = Items(MemoryCalls) \cup Items(control)
    BY <2>3, ItemsOfBoth
  <2>6. /\ HandleOvsDpdk \in Seq(CallSet)
        /\ Items(HandleOvsDpdk) = (Items(MemoryCalls) \cup Items(control)) \cup Items(datapath)
    <3> DEFINE first == MemoryCalls \o control
    <3>1. first \in Seq(CallSet) /\ Items(first) = Items(MemoryCalls) \cup Items(control)
          /\ HandleOvsDpdk = first \o datapath
      BY <2>1, <2>5
    <3> HIDE DEF first
    <3> QED
      BY <2>3, <3>1, ItemsOfBoth
  <2>7. \A s \in Services : s = "control" \/ s = "datapath"
    BY DEF Services
  <2>8. Items(control) \subseteq Asked /\ Items(datapath) \subseteq Asked /\ Items(MemoryCalls) \subseteq Asked
    BY <1>0, <2>6
  <2>9. \A s \in Services :
           IF knobs.dpdk /\ knobs[s] # 0 /\ knobs[s] % Cardinality(ports) # 0 THEN Refused \in Asked
           ELSE \A n \in Nodes : Call(s, n) \in Asked
    BY <1>3, <2>4, <2>7, <2>8
  <2> QED
    BY <1>3, <2>6, <2>8, <2>9, ItemsOfMemory
<1> QED
  BY <1>1, <1>2, <1>3

-----------------------------------------------------------------------------
(* Settings.                                                               *)

\* Sets of one size that have nothing in common: by a bijection with pairs,
\* since there is no induction.
LEMMA EqualShares ==
    ASSUME NEW P, IsFiniteSet(P), NEW m \in Nat, NEW F,
           \A n \in P : IsFiniteSet(F[n]) /\ Cardinality(F[n]) = m,
           \A n, k \in P : n # k => F[n] \cap F[k] = {}
    PROVE  Cardinality(UNION {F[n] : n \in P}) = Cardinality(P) * m
<1> DEFINE G == [n \in P |-> CHOOSE f : f \in Bijection(1..m, F[n])]
           whole == UNION {F[n] : n \in P}
           H == [x \in P \X (1..m) |-> G[x[1]][x[2]]]
<1>1. \A n \in P : G[n] \in Bijection(1..m, F[n])
  <2> TAKE n \in P
  <2>1. ExistsBijection(1..m, F[n])
    BY FS_CardinalityType
  <2>2. \E f : f \in Bijection(1..m, F[n])
    BY <2>1, Fun_ExistsBij
  <2> QED
    BY <2>2
<1> HIDE DEF G
<1>2. \A n \in P : /\ G[n] \in [1..m -> F[n]]
                   /\ \A i, j \in 1..m : G[n][i] = G[n][j] => i = j
                   /\ \A t \in F[n] : \E i \in 1..m : G[n][i] = t
  BY <1>1, Fun_BijectionProperties
<1>3. H \in [P \X (1..m) -> whole]
  <2>1. \A x \in P \X (1..m) : x[1] \in P /\ x[2] \in 1..m
    OBVIOUS
  <2>2. \A n \in P, i \in 1..m : G[n][i] \in F[n]
    BY <1>2
  <2>3. \A n \in P, i \in 1..m : G[n][i] \in whole
    BY <2>2
  <2> HIDE DEF whole
  <2> QED
    BY <2>1, <2>3
<1>4. \A x, y \in P \X (1..m) : H[x] = H[y] => x = y
  <2> SUFFICES ASSUME NEW x \in P \X (1..m), NEW y \in P \X (1..m), H[x] = H[y]
               PROVE  x = y
    OBVIOUS
  <2>1. /\ x[1] \in P /\ x[2] \in 1..m /\ y[1] \in P /\ y[2] \in 1..m
        /\ x = <<x[1], x[2]>> /\ y = <<y[1], y[2]>>
    OBVIOUS
  <2>2. G[x[1]][x[2]] = G[y[1]][y[2]]
    OBVIOUS
  <2>3. G[x[1]][x[2]] \in F[x[1]] /\ G[y[1]][y[2]] \in F[y[1]]
    <3>1. \A n \in P, i \in 1..m : G[n][i] \in F[n]
      BY <1>2
    <3> QED
      BY <2>1, <3>1
  <2>4. x[1] = y[1]
    BY <2>1, <2>2, <2>3
  <2>5. x[2] = y[2]
    BY <1>2, <2>1, <2>2, <2>4
  <2> QED
    BY <2>1, <2>4, <2>5
<1>5. \A t \in whole : \E x \in P \X (1..m) : H[x] = t
  <2> TAKE t \in whole
  <2>1. PICK n \in P : t \in F[n]
    OBVIOUS
  <2>2. PICK i \in 1..m : G[n][i] = t
    BY <1>2, <2>1
  <2>3. <<n, i>> \in P \X (1..m) /\ H[<<n, i>>] = t
    BY <2>2
  <2> QED
    BY <2>3
<1>6. H \in Bijection(P \X (1..m), whole)
  <2> HIDE DEF H, whole
  <2> QED
    BY <1>3, <1>4, <1>5, Fun_IsBij
<1>7. ExistsBijection(P \X (1..m), whole)
  BY <1>6, Fun_ExistsBij
<1>8. IsFiniteSet(1..m) /\ Cardinality(1..m) = m
  BY FS_Interval
<1>9. IsFiniteSet(P \X (1..m)) /\ Cardinality(P \X (1..m)) = Cardinality(P) * m
  <2> DEFINE T == 1..m
  <2>1. IsFiniteSet(T) /\ Cardinality(T) = m
    BY <1>8
  <2> HIDE DEF T
  <2>2. IsFiniteSet(P \X T) /\ Cardinality(P \X T) = Cardinality(P) * Cardinality(T)
    BY <2>1, FS_Product
  <2> QED
    BY <2>1, <2>2 DEF T
<1> HIDE DEF whole
<1>10. Cardinality(whole) = Cardinality(P \X (1..m))
  BY <1>7, <1>9, FS_Bijection
<1> QED
  BY <1>9, <1>10 DEF whole

-----------------------------------------------------------------------------
LEMMA UpdatedIs ==
    ASSUME NEW old, NEW new
    PROVE  /\ DOMAIN Updated(old, new) = DOMAIN old \cup DOMAIN new
           /\ \A k \in DOMAIN new : Updated(old, new)[k] = new[k]
           /\ \A k \in DOMAIN old \ DOMAIN new : Updated(old, new)[k] = old[k]
BY DEF Updated

LEMMA UpdatedTakes ==
    ASSUME NEW old, NEW new, NEW k \in DOMAIN new
    PROVE  k \in DOMAIN Updated(old, new) /\ Updated(old, new)[k] = new[k]
BY DEF Updated

LEMMA SettingsWritten ==
    ASSUME HvShape, NEW new, settings' = SetSnapData(settings, new)
    PROVE  /\ settings' = [k \in HvSettings |-> settings'[k]]
           /\ \A k \in HvSettings : settings'[k] = IF k \in DOMAIN new THEN new[k] ELSE settings[k]
<1>1. DOMAIN settings = HvSettings
  BY DEF HvShape
<1>2. settings' = [k \in HvSettings |-> IF k \in DOMAIN new THEN new[k] ELSE settings[k]]
  BY <1>1 DEF SetSnapData
<1> QED
  BY <1>2

\* What a hook writes of the relations.
Data(seen, e) == Updated(FromRelations(seen), Flags(e))

LEMMA DataHas ==
    ASSUME NEW seen, NEW e
    PROVE  /\ DOMAIN Data(seen, e) \cap ({"dpdk", "memory"} \cup Services) = {}
           /\ {"monitoring", "telemetry"} \subseteq DOMAIN Data(seen, e)
           /\ Data(seen, e)["monitoring"] = AsNumber(EnableMonitoring(e))
           /\ Data(seen, e)["telemetry"] = AsNumber(EnableTelemetry(e))
           /\ \A r \in HvRelations \ {"cos-agent", "ceilometer-service"} :
                 r # "ceph-access" \/ seen[r] # 0 => r \in DOMAIN Data(seen, e) /\ Data(seen, e)[r] = seen[r]
<1> DEFINE rels == HvNeeded \cup {"receive-ca-cert", "masakari-service", "barbican-service"}
                      \cup {s \in {"ceph-access", "ceilometer-service"} : seen[s] # 0}
<1>1. DOMAIN FromRelations(seen) = rels /\ \A r \in rels : FromRelations(seen)[r] = seen[r]
  BY DEF FromRelations
<1>2. /\ DOMAIN Flags(e) = {"monitoring", "telemetry"}
      /\ Flags(e)["monitoring"] = AsNumber(EnableMonitoring(e))
      /\ Flags(e)["telemetry"] = AsNumber(EnableTelemetry(e))
  BY DEF Flags
<1>3. rels \subseteq HvRelations
  BY DEF HvRelations, HvNeeded, HvOptional
<1>4. HvRelations \cap ({"dpdk", "memory", "monitoring", "telemetry"} \cup Services) = {}
  BY DEF HvRelations, HvNeeded, HvMandatory, HvOptional, Services
<1>5. {"monitoring", "telemetry"} \cap ({"dpdk", "memory"} \cup Services) = {}
  BY DEF Services
<1>6. \A r \in HvRelations \ {"cos-agent", "ceilometer-service"} : r # "ceph-access" \/ seen[r] # 0 => r \in rels
  BY DEF HvRelations, HvNeeded, HvOptional
<1> HIDE DEF rels
<1>7. /\ DOMAIN Data(seen, e) = rels \cup {"monitoring", "telemetry"}
      /\ \A k \in {"monitoring", "telemetry"} : Data(seen, e)[k] = Flags(e)[k]
      /\ \A k \in rels \ {"monitoring", "telemetry"} : Data(seen, e)[k] = FromRelations(seen)[k]
  <2> DEFINE old == FromRelations(seen)
             new == Flags(e)
  <2>1. Data(seen, e) = Updated(old, new) /\ DOMAIN old = rels /\ DOMAIN new = {"monitoring", "telemetry"}
    BY <1>1, <1>2 DEF Data
  <2> HIDE DEF old, new
  <2>2. /\ DOMAIN Data(seen, e) = rels \cup {"monitoring", "telemetry"}
        /\ \A k \in {"monitoring", "telemetry"} : Data(seen, e)[k] = new[k]
        /\ \A k \in rels \ {"monitoring", "telemetry"} : Data(seen, e)[k] = old[k]
    BY <2>1, UpdatedIs
  <2> QED
    BY <2>2 DEF old, new
<1>8. \A r \in rels : r \notin {"monitoring", "telemetry"}
  BY <1>3, <1>4
<1>9. \A r \in rels : Data(seen, e)[r] = seen[r]
  BY <1>1, <1>7, <1>8
<1> QED
  BY <1>2, <1>3, <1>4, <1>5, <1>6, <1>7, <1>9

LEMMA DpdkKeys == DOMAIN DpdkSettings \subseteq {"dpdk", "memory"} \cup Services
BY DEF DpdkSettings, Unset

-----------------------------------------------------------------------------
(* Types.                                                                  *)

LEMMA HvFaultCounts ==
    ASSUME HvShape, HypervisorTypeOK, NEW k, HvFault(k)
    PROVE  hvfaults' \in 0..hvplan.most
<1>1. hvplan.most \in Nat /\ hvfaults \in 0..hvplan.most
  BY HypervisorAssumption DEF HvShape, HypervisorTypeOK
<1> QED
  BY <1>1 DEF HvFault

LEMMA HvInitType == HypervisorInit => HvShape /\ HypervisorTypeOK
<1> SUFFICES ASSUME HypervisorInit PROVE HvShape /\ HypervisorTypeOK
  OBVIOUS
<1>1. 0 \in Nodes
  <2>1. Cardinality(Nodes) \in Nat \ {0}
    BY HypervisorAssumption, FS_CardinalityType, FS_EmptySet
  <2> QED
    BY <2>1, HypervisorAssumption
<1>2. \A s \in Services : Allocated(s) = {}
  BY DEF HypervisorInit, Allocated
<1>3. Services \subseteq HvSettings
  BY DEF HvSettings
<1>4. \A s \in Services : settings[s] = {}
  BY <1>3 DEF HypervisorInit
<1>5. knobs \in [epa : BOOLEAN, dpdk : BOOLEAN, control : Nat, datapath : Nat,
                 memory : Nat, provider : {"auto", "microovn", "ovn"}]
  BY DEF HypervisorInit
<1>6. epa \in [Services -> [Nodes -> SUBSET AllCores]] /\ \A s \in Services, n \in Nodes : epa[s][n] = {}
  BY DEF HypervisorInit
<1>7. settings = [k \in HvSettings |-> settings[k]]
  BY DEF HypervisorInit
<1>8. hvplan.most \in Nat /\ hvfaults = 0 /\ MaxOffer \in Nat \ {0}
  BY HypervisorAssumption DEF HypervisorInit
<1>9. HypervisorTypeOK
  <2>1. "control" \in Services /\ "datapath" \in Services
    BY DEF Services
  <2>2. /\ link \in {"none", "up", "leaving"} /\ offer \in 0..MaxOffer
        /\ health \in {"new", "active", "waiting", "blocked"}
        /\ hvfaults \in 0..hvplan.most
    <3>1. link = "none" /\ offer = 0 /\ health = "new" /\ hvfaults = 0
      BY DEF HypervisorInit
    <3> QED
      BY <1>8, <3>1
  <2>3. /\ \A s \in Services : settings[s] \subseteq AllCores
        /\ \A s \in Services, n \in Nodes : epa[s][n] \subseteq CoresOf[n]
        /\ Allocated("control") \cap Allocated("datapath") = {}
    BY <1>2, <1>4, <1>6, <2>1
  <2> QED
    BY <2>2, <2>3 DEF HypervisorTypeOK
<1>10. HvShape
  BY <1>1, <1>2, <1>5, <1>6, <1>7 DEF HypervisorInit, HvShape, HvEvents
<1> QED
  BY <1>9, <1>10

\* What the options, the ports and the allocations are is not touched.
OptionsStay == UNCHANGED <<hvplan, knobs, ports, epa, pages, others>>

LEMMA QuietType ==
    ASSUME HvShape, HypervisorTypeOK, OptionsStay,
           hvdue' \subseteq HvEvents, agents' \in BOOLEAN, between' \in BOOLEAN,
           settings' = [k \in HvSettings |-> settings'[k]],
           \A s \in Services : settings'[s] \subseteq AllCores,
           link' \in {"none", "up", "leaving"}, offer' \in 0..MaxOffer,
           health' \in {"new", "active", "waiting", "blocked"},
           hvfaults' \in 0..hvplan.most
    PROVE  HvShape' /\ HypervisorTypeOK'
<1>1. \A s : Allocated(s)' = Allocated(s)
  BY DEF OptionsStay, Allocated
<1>2. HvShape'
  BY <1>1 DEF OptionsStay, HvShape
<1>3. HypervisorTypeOK'
  BY <1>1 DEF OptionsStay, HypervisorTypeOK
<1> QED
  BY <1>2, <1>3

\* What the settings become that a hook takes out of the snap, or writes.
LEMMA SettingsType ==
    ASSUME HvShape, HypervisorTypeOK, NEW new, settings' = SetSnapData(settings, new),
           \A s \in Services : s \in DOMAIN new => new[s] \subseteq AllCores
    PROVE  /\ settings' = [k \in HvSettings |-> settings'[k]]
           /\ \A s \in Services : settings'[s] \subseteq AllCores
<1>1. \A s \in Services : s \in HvSettings /\ settings[s] \subseteq AllCores
  BY DEF HvSettings, HypervisorTypeOK
<1> QED
  BY <1>1, SettingsWritten

LEMMA AllocatedType ==
    ASSUME HvShape, HypervisorTypeOK, NEW s \in Services
    PROVE  Allocated(s) \subseteq AllCores
BY DEF HypervisorTypeOK, Allocated, AllCores

LEMMA ConfigureType ==
    ASSUME HvShape, HypervisorTypeOK, NEW e \in HvEvents, HvConfigure(e)
    PROVE  HvShape' /\ HypervisorTypeOK'
<1>1. OptionsStay /\ hvdue' \subseteq HvEvents /\ link' \in {"none", "up", "leaving"} /\ offer' \in 0..MaxOffer
      /\ agents' \in BOOLEAN
  BY DEF HvConfigure, OptionsStay, HvShape, HypervisorTypeOK, EndsWith
<1>2. between' \in BOOLEAN
  BY DEF HvConfigure, HvShape
<1>3. hvfaults' \in 0..hvplan.most
  <2>1. UNCHANGED hvfaults \/ HvFault("snap")
    BY DEF HvConfigure, EndsWith
  <2> QED
    BY <2>1, HvFaultCounts DEF HypervisorTypeOK
<1>4. health' \in {"new", "active", "waiting", "blocked"}
  <2>1. UNCHANGED health \/ health' \in {"waiting", "blocked"}
    BY DEF HvConfigure, EndsWith
  <2> QED
    BY <2>1 DEF HypervisorTypeOK
<1>5. /\ settings' = [k \in HvSettings |-> settings'[k]]
      /\ \A s \in Services : settings'[s] \subseteq AllCores
  <2>1. UNCHANGED settings \/ \E notReady : StopServices(notReady)
    BY DEF HvConfigure, EndsWith
  <2>2. CASE UNCHANGED settings
    BY <2>2 DEF HvShape, HypervisorTypeOK
  <2>3. ASSUME NEW notReady, StopServices(notReady)
        PROVE  /\ settings' = [k \in HvSettings |-> settings'[k]]
               /\ \A s \in Services : settings'[s] \subseteq AllCores
    <3>1. DOMAIN Unset(notReady \cap {"amqp", "ovsdb-cms"}) \cap Services = {}
      BY DEF Unset, Services
    <3>2. settings' = SetSnapData(settings, Unset(notReady \cap {"amqp", "ovsdb-cms"}))
      BY <2>3 DEF StopServices
    <3> QED
      BY <3>1, <3>2, SettingsType
  <2> QED
    BY <2>1, <2>2, <2>3
<1> QED
  BY <1>1, <1>2, <1>3, <1>4, <1>5, QuietType

LEMMA ApplyType ==
    ASSUME HvShape, HypervisorTypeOK, CallsInv, HvApply
    PROVE  HvShape' /\ HypervisorTypeOK'
<1>1. DOMAIN hvhook.data \cap Services = {}
  BY DEF CallsInv, HvApply
<1>2. \A s \in Services : s \in DOMAIN DpdkSettings => DpdkSettings[s] \subseteq AllCores
  <2> SUFFICES ASSUME NEW s \in Services, s \in DOMAIN DpdkSettings
               PROVE  DpdkSettings[s] \subseteq AllCores
    OBVIOUS
  <2>1. s # "dpdk" /\ s # "memory"
    BY DEF Services
  <2>2. knobs.epa /\ knobs.dpdk
    BY <2>1 DEF DpdkSettings, Unset
  <2>3. DpdkSettings[s] = Allocated(s)
    BY <2>1, <2>2 DEF DpdkSettings
  <2> QED
    BY <2>3, AllocatedType
<1>3. \A s \in Services : s \in DOMAIN Updated(hvhook.data, DpdkSettings) =>
                             Updated(hvhook.data, DpdkSettings)[s] \subseteq AllCores
  <2> DEFINE old == hvhook.data
             new == DpdkSettings
  <2> HIDE DEF old, new
  <2>1. \A s \in DOMAIN Updated(old, new) : s \in DOMAIN old \/ (s \in DOMAIN new /\ Updated(old, new)[s] = new[s])
    <3>1. DOMAIN Updated(old, new) = DOMAIN old \cup DOMAIN new
      BY UpdatedIs
    <3>2. \A s \in DOMAIN new : Updated(old, new)[s] = new[s]
      BY UpdatedIs
    <3>3. SUFFICES ASSUME NEW s \in DOMAIN Updated(old, new), s \notin DOMAIN old
                   PROVE  s \in DOMAIN new /\ Updated(old, new)[s] = new[s]
      OBVIOUS
    <3> QED
      BY <3>1, <3>2, <3>3
  <2> QED
    BY <1>1, <1>2, <2>1 DEF old, new
<1>4. /\ settings' = [k \in HvSettings |-> settings'[k]]
      /\ \A s \in Services : settings'[s] \subseteq AllCores
  BY <1>3, SettingsType DEF HvApply
<1>5. /\ OptionsStay /\ UNCHANGED <<hvdue, link, offer, hvfaults, between>>
      /\ agents' \in BOOLEAN /\ health' = "active"
  BY DEF HvApply, OptionsStay
<1>6. hvdue \subseteq HvEvents /\ between \in BOOLEAN
  BY DEF HvShape
<1>7. /\ link \in {"none", "up", "leaving"} /\ offer \in 0..MaxOffer
      /\ hvfaults \in 0..hvplan.most
  BY DEF HypervisorTypeOK
<1> QED
  BY <1>4, <1>5, <1>6, <1>7, QuietType

\* A step that leaves the snap and the allocations alone.
LEMMA RelationType ==
    ASSUME HvShape, HypervisorTypeOK,
           \/ \E e \in HvEvents : Unheard(e)
           \/ EpaFails \/ RelateFocus \/ OfferChanges \/ FocusDeparts \/ FocusBreaks
    PROVE  HvShape' /\ HypervisorTypeOK'
<1>1. OptionsStay /\ UNCHANGED <<settings, agents>>
  BY DEF OptionsStay, Unheard, EpaFails, RelateFocus, OfferChanges, FocusDeparts, FocusBreaks
<1>2. /\ settings' = [k \in HvSettings |-> settings'[k]]
      /\ \A s \in Services : settings'[s] \subseteq AllCores
      /\ agents' \in BOOLEAN
  BY <1>1 DEF HvShape, HypervisorTypeOK
<1>3. hvdue' \subseteq HvEvents
  BY DEF HvShape, HvEvents, Unheard, EpaFails, RelateFocus, OfferChanges, FocusDeparts, FocusBreaks
<1>4. between' \in BOOLEAN
  BY DEF HvShape, Unheard, EpaFails, RelateFocus, OfferChanges, FocusDeparts, FocusBreaks
<1>5. link' \in {"none", "up", "leaving"}
  BY DEF HypervisorTypeOK, Unheard, EpaFails, RelateFocus, OfferChanges, FocusDeparts, FocusBreaks
<1>6. health' \in {"new", "active", "waiting", "blocked"}
  BY DEF HypervisorTypeOK, Unheard, EpaFails, RelateFocus, OfferChanges, FocusDeparts, FocusBreaks
<1>7. hvfaults' \in 0..hvplan.most
  <2>1. UNCHANGED hvfaults \/ \E k : HvFault(k)
    BY DEF Unheard, EpaFails, RelateFocus, OfferChanges, FocusDeparts, FocusBreaks
  <2> QED
    BY <2>1, HvFaultCounts DEF HypervisorTypeOK
<1>8. offer' \in 0..MaxOffer
  <2>1. offer \in 0..MaxOffer /\ MaxOffer \in Nat \ {0}
    BY HypervisorAssumption DEF HypervisorTypeOK
  <2>2. UNCHANGED offer \/ RelateFocus \/ OfferChanges
    BY DEF Unheard, EpaFails, FocusDeparts, FocusBreaks
  <2>3. CASE OfferChanges
    BY <2>1, <2>3 DEF OfferChanges
  <2>4. CASE RelateFocus
    BY <2>1, <2>4 DEF RelateFocus
  <2> QED
    BY <2>1, <2>2, <2>3, <2>4
<1> QED
  BY <1>1, <1>2, <1>3, <1>4, <1>5, <1>6, <1>7, <1>8, QuietType

LEMMA OptionsType ==
    ASSUME HvShape, HypervisorTypeOK, OptionsChange
    PROVE  HvShape' /\ HypervisorTypeOK'
<1>1. /\ UNCHANGED <<hvplan, link, offer, settings, agents, epa, pages, others, health, between>>
      /\ hvdue' = hvdue \cup {"config"} /\ HvFault("options")
  BY DEF OptionsChange
<1>2. \A s : Allocated(s)' = Allocated(s)
  BY <1>1 DEF Allocated
<1>3. HypervisorTypeOK'
  BY <1>1, <1>2, HvFaultCounts DEF HypervisorTypeOK
<1> DEFINE Knobs == [epa : BOOLEAN, dpdk : BOOLEAN, control : Nat, datapath : Nat,
                     memory : Nat, provider : {"auto", "microovn", "ovn"}]
<1>4. knobs' \in Knobs /\ ports' \subseteq Nodes /\ ports' # {}
  <2>1. knobs \in Knobs /\ ports \subseteq Nodes /\ ports # {}
    BY DEF HvShape
  <2>2. \A k \in HvOptions : Updated(knobs, k) \in Knobs
    <3> TAKE k \in HvOptions
    <3>1. k \in [dpdk : BOOLEAN, control : Nat, datapath : Nat, memory : Nat]
      BY HypervisorAssumption
    <3>2. Updated(knobs, k) = [epa |-> knobs.epa, dpdk |-> k.dpdk, control |-> k.control,
                               datapath |-> k.datapath, memory |-> k.memory,
                               provider |-> knobs.provider]
      <4>1. /\ DOMAIN knobs = {"epa", "dpdk", "control", "datapath", "memory", "provider"}
            /\ DOMAIN k = {"dpdk", "control", "datapath", "memory"}
        BY <2>1, <3>1
      <4> QED
        BY <4>1 DEF Updated
    <3> QED
      BY <2>1, <3>1, <3>2
  <2>3. \A p \in {"auto", "microovn", "ovn"} : [knobs EXCEPT !.provider = p] \in Knobs
    BY <2>1
  <2> QED
    BY <2>1, <2>2, <2>3 DEF OptionsChange
<1>5. HvShape'
  BY <1>1, <1>2, <1>4 DEF HvShape, HvEvents
<1> QED
  BY <1>3, <1>5

LEMMA OthersType ==
    ASSUME HvShape, HypervisorTypeOK, NEW x, OthersTake(x)
    PROVE  HvShape' /\ HypervisorTypeOK'
<1>1. /\ UNCHANGED <<hvplan, link, offer, hvdue, settings, agents, knobs, ports, epa, pages, health, between>>
      /\ HvFault("others")
  BY DEF OthersTake
<1>2. \A s : Allocated(s)' = Allocated(s)
  BY <1>1 DEF Allocated
<1>3. HypervisorTypeOK'
  BY <1>1, <1>2, HvFaultCounts DEF HypervisorTypeOK
<1>4. \A s \in Services : Allocated(s) \cap others' = {}
  BY DEF OthersTake, FreeCores, HvShape, Services
<1> QED
  BY <1>1, <1>2, <1>3, <1>4 DEF HvShape

\* A call that is next, and what it does.
LEMMA NextCall ==
    ASSUME HvShape, CallsInv, calls # << >>
    PROVE  /\ Head(calls) \in Asked /\ Tail(calls) \in Seq(Asked)
           /\ Head(calls) = Refused \/ \E s \in Services \cup {"pages"}, n \in Nodes : Head(calls) = Call(s, n)
           /\ \A c \in Asked : (\E i \in DOMAIN calls : calls[i] = c) =>
                                 c = Head(calls) \/ \E i \in DOMAIN Tail(calls) : Tail(calls)[i] = c
<1>1. calls \in Seq(Asked)
  BY DEF CallsInv
<1>2. /\ Head(calls) \in Asked /\ Tail(calls) \in Seq(Asked)
      /\ Len(Tail(calls)) = Len(calls) - 1
      /\ \A i \in 1..Len(Tail(calls)) : Tail(calls)[i] = calls[i + 1]
  BY <1>1, HeadTailProperties
<1>3. Asked \subseteq CallSet
  <2>1. HandleOvsDpdk \in Seq(CallSet)
    BY AskedCalls
  <2>2. \A i \in DOMAIN HandleOvsDpdk : HandleOvsDpdk[i] \in CallSet
    BY <2>1, LenProperties, ElementOfSeq
  <2> QED
    BY <2>2 DEF Asked
<1>4. /\ DOMAIN calls = 1..Len(calls) /\ Len(calls) \in Nat
      /\ DOMAIN Tail(calls) = 1..Len(Tail(calls))
  BY <1>1, <1>2, LenProperties
<1>5. \A i \in DOMAIN calls : calls[i] = Head(calls) \/ \E j \in DOMAIN Tail(calls) : Tail(calls)[j] = calls[i]
  <2> TAKE i \in DOMAIN calls
  <2>1. CASE i = 1
    BY <1>1, <2>1
  <2>2. CASE i # 1
    <3>1. i - 1 \in DOMAIN Tail(calls) /\ (i - 1) + 1 = i
      BY <1>2, <1>4, <2>2
    <3> QED
      BY <1>2, <1>4, <3>1
  <2> QED
    BY <2>1, <2>2
<1> QED
  BY <1>2, <1>3, <1>5 DEF CallSet

LEMMA EpaCallType ==
    ASSUME HvShape, HypervisorTypeOK, CallsInv, EpaCall
    PROVE  HvShape' /\ HypervisorTypeOK'
<1>1. /\ UNCHANGED <<hvplan, link, offer, hvdue, settings, agents, knobs, ports, others, health, hvfaults, between>>
      /\ calls # << >> /\ Head(calls).svc # "refused"
  BY DEF EpaCall
<1>2. PICK s \in Services \cup {"pages"}, n \in Nodes : Head(calls) = Call(s, n)
  BY <1>1, NextCall DEF Refused
<1>3. Head(calls).svc = s /\ Head(calls).node = n /\ Head(calls).count = Count(s, n)
  BY <1>2 DEF Call
<1>4. epa \in [Services -> [Nodes -> SUBSET AllCores]] /\ pages \in [Nodes -> Nat]
  BY DEF HvShape
<1>5. CASE s = "pages"
  <2>1. epa' = epa /\ pages' = [pages EXCEPT ![n] = IF Count(s, n) = -1 THEN 0 ELSE Count(s, n)]
    BY <1>3, <1>5 DEF EpaCall
  <2>2. Count(s, n) = -1 \/ Count(s, n) \in Nat
    <3>1. knobs.memory \in Nat /\ Cardinality(ports) \in Nat \ {0}
      BY SomePorts DEF HvShape
    <3>2. knobs.memory \div Cardinality(ports) \in Nat
      BY <3>1
    <3> QED
      BY <1>5, <3>2 DEF Count, MemoryOf
  <2>3. pages' \in [Nodes -> Nat]
    BY <1>4, <2>1, <2>2
  <2>4. \A t : Allocated(t)' = Allocated(t)
    BY <2>1 DEF Allocated
  <2> QED
    BY <1>1, <2>1, <2>3, <2>4 DEF HvShape, HypervisorTypeOK
<1>6. CASE s \in Services
  <2>1. pages' = pages /\ \E cores : /\ epa' = [epa EXCEPT ![s][n] = cores]
                                      /\ cores \subseteq FreeCores(n) \cup epa[s][n]
    <3>1. s # "pages"
      BY <1>6 DEF Services
    <3> DEFINE c == Head(calls)
    <3>2. \/ c.count = -1 /\ epa' = [epa EXCEPT ![c.svc][c.node] = {}] /\ pages' = pages
          \/ /\ \E cores \in SUBSET (FreeCores(c.node) \cup epa[c.svc][c.node]) :
                   epa' = [epa EXCEPT ![c.svc][c.node] = cores]
             /\ pages' = pages
      BY <1>3, <3>1 DEF EpaCall
    <3>3. c.svc = s /\ c.node = n
      BY <1>3
    <3> HIDE DEF c
    <3> QED
      BY <3>2, <3>3
  <2>2. PICK cores : /\ epa' = [epa EXCEPT ![s][n] = cores]
                     /\ cores \subseteq FreeCores(n) \cup epa[s][n]
    BY <2>1
  <2>3. \A t \in Services, m \in Nodes : epa[t][m] \subseteq CoresOf[m]
    BY DEF HypervisorTypeOK
  <2>4. cores \subseteq CoresOf[n] /\ cores \subseteq AllCores
    BY <1>6, <2>2, <2>3 DEF FreeCores, AllCores
  <2>5. epa' \in [Services -> [Nodes -> SUBSET AllCores]]
    BY <1>4, <1>6, <2>2, <2>4
  <2>6. \A t \in Services, m \in Nodes : epa'[t][m] = IF t = s /\ m = n THEN cores ELSE epa[t][m]
    BY <1>4, <1>6, <2>2
  <2>7. \A t \in Services, m \in Nodes : epa'[t][m] \subseteq CoresOf[m]
    BY <2>3, <2>4, <2>6
  <2>8. \A t \in Services : t # s => Allocated(t)' = Allocated(t)
    BY <2>6 DEF Allocated
  <2>9. Allocated(s)' \subseteq Allocated(s) \cup cores
    BY <1>6, <2>6 DEF Allocated
  <2>10. \A t \in Services : t # s => Allocated(t) \cap Allocated(s) = {} /\ Allocated(t) \cap cores = {}
    <3>1. "control" \in Services /\ "datapath" \in Services /\ \A t \in Services : t = "control" \/ t = "datapath"
      BY DEF Services
    <3>2. \A t \in Services : t # s => Allocated(t) \cap Allocated(s) = {}
      BY <1>6, <3>1 DEF HypervisorTypeOK
    <3>3. epa[s][n] \subseteq Allocated(s)
      BY <1>6 DEF Allocated
    <3>4. \A t \in Services : FreeCores(n) \cap Allocated(t) = {}
      BY <3>1 DEF FreeCores
    <3> QED
      BY <2>2, <3>2, <3>3, <3>4
  <2>11. \A t \in Services : Allocated(t)' \cap others = {}
    <3>1. \A t \in Services : Allocated(t) \cap others = {}
      BY DEF HvShape
    <3>2. epa[s][n] \subseteq Allocated(s)
      BY <1>6 DEF Allocated
    <3>3. cores \cap others = {}
      BY <1>6, <2>2, <3>1, <3>2 DEF FreeCores
    <3> QED
      BY <1>6, <2>8, <2>9, <3>1, <3>3
  <2>12. Allocated("control")' \cap Allocated("datapath")' = {}
    <3>1. "control" \in Services /\ "datapath" \in Services /\ (s = "control" \/ s = "datapath")
      BY <1>6 DEF Services
    <3>2. CASE s = "control"
      BY <2>8, <2>9, <2>10, <3>1, <3>2
    <3>3. CASE s = "datapath"
      BY <2>8, <2>9, <2>10, <3>1, <3>3
    <3> QED
      BY <3>1, <3>2, <3>3
  <2>13. HvShape'
    BY <1>1, <2>1, <2>5, <2>11 DEF HvShape
  <2>14. HypervisorTypeOK'
    BY <1>1, <2>7, <2>12 DEF HypervisorTypeOK
  <2> QED
    BY <2>13, <2>14
<1> QED
  BY <1>5, <1>6

-----------------------------------------------------------------------------
(* The relation, and the calls.                                            *)

LEMMA LinkStep ==
    ASSUME HvShape, HypervisorTypeOK, LinkInv, [HypervisorNext]_hvVars
    PROVE  LinkInv' /\ hvplan' = hvplan
<1>1. hvplan' = hvplan
  BY DEF HypervisorNext, hvVars, HvConfigure, Unheard, EpaCall, EpaFails, HvApply, RelateFocus,
         OfferChanges, FocusDeparts, FocusBreaks, OptionsChange, OthersTake
<1>2. knobs'.epa = knobs.epa
  <2>1. UNCHANGED knobs \/ OptionsChange
    BY DEF HypervisorNext, hvVars, HvConfigure, Unheard, EpaCall, EpaFails, HvApply, RelateFocus,
           OfferChanges, FocusDeparts, FocusBreaks, OthersTake
  <2>2. CASE OptionsChange
    <3>1. \A k \in HvOptions : Updated(knobs, k).epa = knobs.epa
      <4> TAKE k \in HvOptions
      <4>1. k \in [dpdk : BOOLEAN, control : Nat, datapath : Nat, memory : Nat]
        BY HypervisorAssumption
      <4>2. "epa" \in DOMAIN knobs /\ "epa" \notin DOMAIN k
        BY <4>1 DEF HvShape
      <4> QED
        BY <4>2 DEF Updated
    <3>2. \A p : [knobs EXCEPT !.provider = p].epa = knobs.epa
      BY DEF HvShape
    <3>3. \/ knobs' = knobs
          \/ \E k \in HvOptions : knobs' = Updated(knobs, k)
          \/ \E p : knobs' = [knobs EXCEPT !.provider = p]
      BY <2>2 DEF OptionsChange
    <3>4. ASSUME NEW k \in HvOptions, knobs' = Updated(knobs, k) PROVE knobs'.epa = knobs.epa
      BY <3>1, <3>4
    <3>5. ASSUME NEW p, knobs' = [knobs EXCEPT !.provider = p] PROVE knobs'.epa = knobs.epa
      BY <3>2, <3>5
    <3> QED
      BY <3>3, <3>4, <3>5
  <2> QED
    BY <2>1, <2>2
<1>3. CASE UNCHANGED <<link, offer>> /\ hvdue' \subseteq hvdue \cup {"config"}
  BY <1>1, <1>2, <1>3 DEF LinkInv
<1>4. CASE RelateFocus
  BY <1>1, <1>2, <1>4 DEF LinkInv, RelateFocus
<1>5. CASE OfferChanges
  BY <1>1, <1>2, <1>5 DEF LinkInv, OfferChanges
<1>6. CASE FocusDeparts
  BY <1>1, <1>2, <1>6 DEF LinkInv, FocusDeparts
<1>7. CASE FocusBreaks
  BY <1>1, <1>2, <1>7 DEF LinkInv, FocusBreaks
<1>8. CASE UNCHANGED hvVars \/ (\E e \in HvEvents : HvConfigure(e) \/ Unheard(e))
           \/ EpaCall \/ EpaFails \/ HvApply
           \/ OptionsChange \/ \E x \in AllCores : OthersTake(x)
  <2>1. UNCHANGED <<link, offer>> /\ hvdue' \subseteq hvdue \cup {"config"}
    BY <1>8 DEF hvVars, HvConfigure, Unheard, EpaCall, EpaFails, HvApply, OptionsChange, OthersTake
  <2> QED
    BY <1>3, <2>1
<1> QED
  BY <1>1, <1>4, <1>5, <1>6, <1>7, <1>8 DEF HypervisorNext, HvEvents

\* The calls that a hook makes stay the same while it runs.
LEMMA AskedStays ==
    ASSUME UNCHANGED <<knobs, ports>>
    PROVE  Asked' = Asked /\ \A s, n : Count(s, n)' = Count(s, n)
BY DEF Asked, HandleOvsDpdk, MemoryCalls, CoreCalls, ClearCalls, EachNode, MemoryOf, Pages,
       NoPages, NoCores, Refused, NodeOrder, Count

LEMMA CallsStart ==
    ASSUME HvShape, HypervisorTypeOK, CallsInv, NEW e \in HvEvents, HvConfigure(e)
    PROVE  CallsInv'
<1>1. UNCHANGED <<knobs, ports, epa, pages>> /\ ~ Running /\ calls = << >>
  BY DEF HvConfigure, CallsInv
<1>2. Asked' = Asked
  BY <1>1, AskedStays
<1>3. CASE calls' = << >> /\ ~ Running'
  BY <1>3, EmptySeq DEF CallsInv
<1>4. CASE \E seen : hvhook' = [event |-> e, data |-> Data(seen, e)] /\ calls' = HandleOvsDpdk
  <2>1. PICK seen : hvhook' = [event |-> e, data |-> Data(seen, e)] /\ calls' = HandleOvsDpdk
    BY <1>4
  <2>2. HandleOvsDpdk \in Seq(CallSet)
    BY AskedCalls
  <2>3. HandleOvsDpdk \in Seq(Asked)
    <3>1. /\ HandleOvsDpdk \in [1..Len(HandleOvsDpdk) -> CallSet]
          /\ Len(HandleOvsDpdk) \in Nat /\ DOMAIN HandleOvsDpdk = 1..Len(HandleOvsDpdk)
      BY <2>2, LenProperties
    <3>2. HandleOvsDpdk \in [1..Len(HandleOvsDpdk) -> Asked]
      BY <3>1 DEF Asked
    <3> QED
      BY <3>1, <3>2, SeqDef
  <2>4. \A c \in Asked : \E i \in DOMAIN calls' : calls'[i] = c
    BY <2>1 DEF Asked
  <2>5. DOMAIN hvhook'.data \cap ({"dpdk", "memory"} \cup Services) = {} /\ Running'
    <3>1. hvhook'.data = Data(seen, e) /\ hvhook'.event # "none"
      BY <2>1 DEF HvEvents
    <3> QED
      BY <3>1, DataHas DEF Running
  <2> QED
    BY <1>2, <2>1, <2>3, <2>4, <2>5 DEF CallsInv
<1>5. UNCHANGED <<calls, hvhook>> \/ (calls' = << >> /\ hvhook' = NoHook)
      \/ \E seen : hvhook' = [event |-> e, data |-> Data(seen, e)] /\ calls' = HandleOvsDpdk
  BY DEF HvConfigure, EndsWith, Data
<1> QED
  BY <1>1, <1>3, <1>4, <1>5 DEF Running, NoHook

LEMMA CallsMade ==
    ASSUME HvShape, HypervisorTypeOK, CallsInv, EpaCall
    PROVE  CallsInv'
<1>1. /\ UNCHANGED <<knobs, ports, hvhook>> /\ calls # << >> /\ Head(calls).svc # "refused"
      /\ calls' = Tail(calls)
  BY DEF EpaCall
<1>2. Asked' = Asked
  BY <1>1, AskedStays
<1>3. Running /\ Running'
  BY <1>1 DEF CallsInv, Running
<1>4. PICK s \in Services \cup {"pages"}, n \in Nodes : Head(calls) = Call(s, n)
  BY <1>1, NextCall DEF Refused
<1>5. epa \in [Services -> [Nodes -> SUBSET AllCores]] /\ pages \in [Nodes -> Nat]
  BY DEF HvShape
<1>6. Made(Call(s, n))'
  <2>1. Head(calls).svc = s /\ Head(calls).node = n /\ Head(calls).count = Count(s, n)
    BY <1>4 DEF Call
  <2>2. \A t, m : Count(t, m)' = Count(t, m)
    BY <1>1, AskedStays
  <2>3. CASE s = "pages"
    <3>1. pages' = [pages EXCEPT ![n] = IF Count(s, n) = -1 THEN 0 ELSE Count(s, n)]
      BY <2>1, <2>3 DEF EpaCall
    <3>2. pages'[n] = IF Count(s, n) = -1 THEN 0 ELSE Count(s, n)
      BY <1>5, <3>1
    <3> QED
      BY <2>2, <2>3, <3>2 DEF Made, Call
  <2>4. CASE s \in Services /\ Count(s, n) = -1
    <3>1. s # "pages" /\ s # "refused"
      BY <2>4 DEF Services
    <3>2. epa' = [epa EXCEPT ![s][n] = {}]
      BY <2>1, <2>4, <3>1 DEF EpaCall
    <3>3. epa'[s][n] = {}
      BY <1>5, <2>4, <3>2
    <3> QED
      BY <2>2, <2>4, <3>1, <3>3 DEF Made, Call
  <2>5. CASE s \in Services /\ Count(s, n) # -1
    <3>1. s # "pages" /\ s # "refused"
      BY <2>5 DEF Services
    <3>2. PICK cores : Cardinality(cores) = Count(s, n) /\ epa' = [epa EXCEPT ![s][n] = cores]
      BY <2>1, <2>5, <3>1 DEF EpaCall
    <3>3. epa'[s][n] = cores
      BY <1>5, <2>5, <3>2
    <3> QED
      BY <2>2, <2>5, <3>1, <3>2, <3>3 DEF Made, Call
  <2> QED
    BY <2>3, <2>4, <2>5
<1>7. \A t \in Services \cup {"pages"}, m \in Nodes : Made(Call(t, m)) => Made(Call(t, m))'
  <2> SUFFICES ASSUME NEW t \in Services \cup {"pages"}, NEW m \in Nodes, Made(Call(t, m)), t # s \/ m # n
               PROVE  Made(Call(t, m))'
    BY <1>6
  <2>1. Head(calls).svc = s /\ Head(calls).node = n /\ Head(calls).count = Count(s, n)
    BY <1>4 DEF Call
  <2>2. Count(t, m)' = Count(t, m)
    BY <1>1, AskedStays
  <2>3. CASE s = "pages"
    <3>1. /\ pages' = [pages EXCEPT ![n] = IF Count(s, n) = -1 THEN 0 ELSE Count(s, n)]
          /\ epa' = epa
      BY <2>1, <2>3 DEF EpaCall
    <3>2. t = "pages" => pages'[m] = pages[m]
      BY <1>5, <2>3, <3>1
    <3> QED
      BY <2>2, <3>1, <3>2 DEF Made, Call
  <2>4. CASE s \in Services
    <3>1. s # "pages"
      BY <2>4 DEF Services
    <3>2. pages' = pages /\ \E cores : epa' = [epa EXCEPT ![s][n] = cores]
      BY <2>1, <3>1 DEF EpaCall
    <3>3. t # "pages" => epa'[t][m] = epa[t][m]
      BY <1>5, <2>4, <3>2
    <3> QED
      BY <2>2, <3>2, <3>3 DEF Made, Call
  <2> QED
    BY <2>3, <2>4
<1>8. \A c \in Asked : c = Refused \/ \E t \in Services \cup {"pages"}, m \in Nodes : c = Call(t, m)
  <2>1. HandleOvsDpdk \in Seq(CallSet)
    BY AskedCalls
  <2>2. \A i \in DOMAIN HandleOvsDpdk : HandleOvsDpdk[i] \in CallSet
    BY <2>1, LenProperties, ElementOfSeq
  <2> QED
    BY <2>2 DEF Asked, CallSet
<1>9. \A c \in Asked : Made(c)' \/ \E i \in DOMAIN calls' : calls'[i] = c
  <2> TAKE c \in Asked
  <2>1. CASE Made(c)
    <3>1. c # Refused
      BY <2>1 DEF Made, Refused
    <3>2. PICK t \in Services \cup {"pages"}, m \in Nodes : c = Call(t, m)
      BY <1>8, <3>1
    <3>3. Call(t, m)' = Call(t, m)
      BY <1>1, AskedStays DEF Call
    <3> QED
      BY <1>7, <2>1, <3>2, <3>3
  <2>2. CASE ~ Made(c)
    <3>1. \E i \in DOMAIN calls : calls[i] = c
      BY <1>3, <2>2 DEF CallsInv
    <3>2. CASE c = Head(calls)
      <4>1. Call(s, n)' = Call(s, n)
        BY <1>1, AskedStays DEF Call
      <4> QED
        BY <1>4, <1>6, <3>2, <4>1
    <3> QED
      BY <1>1, <3>1, <3>2, NextCall
  <2> QED
    BY <2>1, <2>2
<1>10. Tail(calls) \in Seq(Asked)
  BY <1>1, NextCall
<1> QED
  BY <1>1, <1>2, <1>3, <1>9, <1>10 DEF CallsInv

LEMMA CallsStep ==
    ASSUME HvShape, HypervisorTypeOK, CallsInv, [HypervisorNext]_hvVars
    PROVE  CallsInv'
<1>1. CASE \E e \in HvEvents : HvConfigure(e)
  BY <1>1, CallsStart
<1>2. CASE EpaCall
  BY <1>2, CallsMade
<1>3. CASE calls' = << >> /\ ~ Running'
  BY <1>3, EmptySeq DEF CallsInv
<1>4. CASE UNCHANGED <<knobs, ports, calls, hvhook, epa, pages>>
  <2>1. Asked' = Asked
    BY <1>4, AskedStays
  <2>2. \A c : Made(c)' <=> Made(c)
    BY <1>4 DEF Made
  <2>3. Running' <=> Running
    BY <1>4 DEF Running
  <2> QED
    BY <1>4, <2>1, <2>2, <2>3 DEF CallsInv
<1>5. EpaFails \/ HvApply => calls' = << >> /\ ~ Running'
  BY DEF EpaFails, HvApply, NoHook, Running
<1>6. OptionsChange => calls' = << >> /\ ~ Running'
  BY DEF OptionsChange, Running, CallsInv
<1>7. ASSUME \/ UNCHANGED hvVars \/ \E e \in HvEvents : Unheard(e)
             \/ RelateFocus \/ OfferChanges \/ FocusDeparts \/ FocusBreaks
             \/ \E x \in AllCores : OthersTake(x)
      PROVE  UNCHANGED <<knobs, ports, calls, hvhook, epa, pages>>
  BY <1>7 DEF hvVars, Unheard, RelateFocus, OfferChanges, FocusDeparts, FocusBreaks, OthersTake
<1> QED
  BY <1>1, <1>2, <1>3, <1>4, <1>5, <1>6, <1>7 DEF HypervisorNext, HvEvents

-----------------------------------------------------------------------------
(* Cores and pages.                                                        *)

\* When all calls have been made, the allocations are what the options say.
LEMMA AllMade ==
    ASSUME HvShape, HypervisorTypeOK, CallsInv, Running, calls = << >>, knobs.epa
    PROVE  /\ \A s \in Services, n \in Nodes : Made(Call(s, n))
           /\ ~ knobs.dpdk \/ knobs.memory # 0 => \A n \in Nodes : Made(Call("pages", n))
           /\ \A s \in Services : knobs.dpdk /\ knobs[s] # 0 => knobs[s] % Cardinality(ports) = 0
<1>1. \A c \in Asked : Made(c)
  <2>1. \A i : i \notin DOMAIN calls
    OBVIOUS
  <2> QED
    BY <2>1 DEF CallsInv
<1>2. Refused \notin Asked
  <2>1. ~ Made(Refused)
    BY DEF Made, Refused
  <2> QED
    BY <1>1, <2>1
<1>3. \A s \in Services : knobs.dpdk /\ knobs[s] # 0 => knobs[s] % Cardinality(ports) = 0
  BY <1>2, AskedCalls
<1>4. \A s \in Services, n \in Nodes : Call(s, n) \in Asked
  BY <1>2, AskedCalls
<1> QED
  BY <1>1, <1>3, <1>4, AskedCalls

\* As many cores as asked for, on the nodes of the ports; or none.
LEMMA CoresMade ==
    ASSUME HvShape, HypervisorTypeOK, CallsInv, Running, calls = << >>, knobs.epa,
           NEW s \in Services
    PROVE  IF knobs.dpdk /\ knobs[s] # 0
             THEN /\ Cardinality(Allocated(s)) = knobs[s]
                  /\ Allocated(s) \subseteq UNION {CoresOf[n] : n \in ports}
             ELSE Allocated(s) = {}
<1>0. s # "pages" /\ s # "refused" /\ knobs[s] \in Nat
  BY DEF Services, HvShape
<1>1. \A n \in Nodes : IF Count(s, n) = -1 THEN epa[s][n] = {} ELSE Cardinality(epa[s][n]) = Count(s, n)
  BY <1>0, AllMade DEF Made, Call
<1>2. CASE ~ (knobs.dpdk /\ knobs[s] # 0)
  <2>1. \A n \in Nodes : Count(s, n) = -1
    BY <1>0, <1>2 DEF Count
  <2> QED
    BY <1>1, <1>2, <2>1 DEF Allocated
<1>3. CASE knobs.dpdk /\ knobs[s] # 0
  <2> DEFINE p == Cardinality(ports)
             m == knobs[s] \div p
  <2>1. p \in Nat \ {0} /\ knobs[s] % p = 0 /\ knobs[s] \in Nat
    BY <1>0, <1>3, SomePorts, AllMade
  <2> HIDE DEF p
  <2>2. m \in Nat /\ p * m = knobs[s]
    BY <2>1
  <2>3. \A n \in ports : n \in Nodes
    BY DEF HvShape
  <2>4. \A n \in Nodes : Count(s, n) = IF n \in ports THEN m ELSE -1
    BY <1>0, <1>3 DEF Count, p
  <2> HIDE DEF m
  <2>5. \A n \in ports : IsFiniteSet(epa[s][n]) /\ Cardinality(epa[s][n]) = m
    <3> TAKE n \in ports
    <3>1. n \in Nodes /\ epa[s][n] \subseteq CoresOf[n] /\ IsFiniteSet(CoresOf[n])
      BY <2>3, HypervisorAssumption DEF HypervisorTypeOK
    <3>2. Count(s, n) = m /\ m # -1
      BY <2>2, <2>4, <3>1
    <3> QED
      BY <1>1, <3>1, <3>2, FS_Subset
  <2>6. \A n, k \in ports : n # k => epa[s][n] \cap epa[s][k] = {}
    BY <2>3, HypervisorAssumption DEF HypervisorTypeOK
  <2>7. Allocated(s) = UNION {epa[s][n] : n \in ports}
    <3>1. \A n \in Nodes \ ports : epa[s][n] = {}
      BY <1>1, <2>4
    <3> QED
      BY <2>3, <3>1 DEF Allocated
  <2>8. Cardinality(UNION {epa[s][n] : n \in ports}) = p * m
    <3> DEFINE F == epa[s]
    <3>1. /\ \A n \in ports : IsFiniteSet(F[n]) /\ Cardinality(F[n]) = m
          /\ \A n, k \in ports : n # k => F[n] \cap F[k] = {}
      BY <2>5, <2>6
    <3>2. IsFiniteSet(ports)
      BY SomePorts
    <3> HIDE DEF F
    <3>3. Cardinality(UNION {F[n] : n \in ports}) = Cardinality(ports) * m
      BY <2>2, <3>1, <3>2, EqualShares
    <3> QED
      BY <3>3 DEF F, p
  <2>9. Allocated(s) \subseteq UNION {CoresOf[n] : n \in ports}
    BY <2>3, <2>7 DEF HypervisorTypeOK
  <2> QED
    BY <1>3, <2>2, <2>7, <2>8, <2>9
<1> QED
  BY <1>2, <1>3

LEMMA BalanceApplied ==
    ASSUME HvShape, HypervisorTypeOK, CallsInv, HvApply, knobs.epa
    PROVE  Balanced'
<1>1. UNCHANGED <<knobs, ports, epa, pages>> /\ Running /\ calls = << >>
  BY DEF HvApply
<1>2. \A s : Allocated(s)' = Allocated(s)
  BY <1>1 DEF Allocated
<1>3. \A s \in Services : knobs.dpdk /\ knobs[s] # 0 => settings'[s] = Allocated(s)
  <2> SUFFICES ASSUME NEW s \in Services, knobs.dpdk, knobs[s] # 0
               PROVE  settings'[s] = Allocated(s)
    OBVIOUS
  <2>1. s # "dpdk" /\ s # "memory" /\ s \in HvSettings
    BY DEF Services, HvSettings
  <2>2. s \in DOMAIN DpdkSettings /\ DpdkSettings[s] = Allocated(s)
    BY <2>1 DEF DpdkSettings
  <2> DEFINE old == hvhook.data
             new == DpdkSettings
  <2>3. settings' = SetSnapData(settings, Updated(old, new))
    BY DEF HvApply
  <2> HIDE DEF old, new
  <2>4. settings'[s] = IF s \in DOMAIN Updated(old, new) THEN Updated(old, new)[s] ELSE settings[s]
    BY <2>1, <2>3, SettingsWritten
  <2>5. s \in DOMAIN new => s \in DOMAIN Updated(old, new) /\ Updated(old, new)[s] = new[s]
    BY UpdatedTakes
  <2> QED
    BY <2>2, <2>4, <2>5 DEF new
<1>4. knobs.dpdk /\ knobs.memory # 0 => settings'["memory"] = [n \in Nodes |-> IF n \in ports THEN MemoryOf(n) ELSE 0]
  <2> SUFFICES ASSUME knobs.dpdk, knobs.memory # 0
               PROVE  settings'["memory"] = [n \in Nodes |-> IF n \in ports THEN MemoryOf(n) ELSE 0]
    OBVIOUS
  <2>1. "memory" \in HvSettings
    BY DEF HvSettings
  <2>2. /\ "memory" \in DOMAIN DpdkSettings
        /\ DpdkSettings["memory"] = [n \in Nodes |-> IF n \in ports THEN MemoryOf(n) ELSE 0]
    BY DEF DpdkSettings
  <2> DEFINE old == hvhook.data
             new == DpdkSettings
  <2>3. settings' = SetSnapData(settings, Updated(old, new))
    BY DEF HvApply
  <2> HIDE DEF old, new
  <2>4. settings'["memory"] = IF "memory" \in DOMAIN Updated(old, new) THEN Updated(old, new)["memory"] ELSE settings["memory"]
    BY <2>1, <2>3, SettingsWritten
  <2>5. "memory" \in DOMAIN new => "memory" \in DOMAIN Updated(old, new) /\ Updated(old, new)["memory"] = new["memory"]
    BY UpdatedTakes
  <2> QED
    BY <2>2, <2>4, <2>5 DEF new
<1>5. pages \in [Nodes -> Nat]
  BY DEF HvShape
<1>6. ~ knobs.dpdk \/ knobs.memory # 0 => \A n \in Nodes : pages[n] = IF Count("pages", n) = -1 THEN 0 ELSE Count("pages", n)
  BY <1>1, AllMade DEF Made, Call
<1>7. knobs.dpdk /\ knobs.memory # 0 => pages = [n \in Nodes |-> IF n \in ports THEN MemoryOf(n) ELSE 0]
  <2> SUFFICES ASSUME knobs.dpdk, knobs.memory # 0
               PROVE  pages = [n \in Nodes |-> IF n \in ports THEN MemoryOf(n) ELSE 0]
    OBVIOUS
  <2>1. \A n : MemoryOf(n) \in Nat
    <3>1. knobs.memory \in Nat /\ Cardinality(ports) \in Nat \ {0}
      BY SomePorts DEF HvShape
    <3>2. knobs.memory \div Cardinality(ports) \in Nat
      BY <3>1
    <3> QED
      BY <3>2 DEF MemoryOf
  <2>2. \A n \in Nodes : Count("pages", n) = IF n \in ports THEN MemoryOf(n) ELSE -1
    BY DEF Count
  <2>3. \A n \in Nodes : pages[n] = IF n \in ports THEN MemoryOf(n) ELSE 0
    BY <1>6, <2>1, <2>2
  <2> QED
    BY <1>5, <2>3
<1>8. ~ knobs.dpdk => \A n \in Nodes : pages[n] = 0
  BY <1>6 DEF Count
<1>9. \A s \in Services :
         IF knobs.dpdk /\ knobs[s] # 0
           THEN /\ settings'[s] = Allocated(s)
                /\ Cardinality(settings'[s]) = knobs[s]
                /\ settings'[s] \subseteq UNION {CoresOf[n] : n \in ports}
           ELSE Allocated(s) = {}
  BY <1>1, <1>3, CoresMade
<1> QED
  BY <1>1, <1>2, <1>4, <1>7, <1>8, <1>9 DEF Balanced

LEMMA BalanceStep ==
    ASSUME HvShape, HypervisorTypeOK, CallsInv, BalanceInv, [HypervisorNext]_hvVars
    PROVE  BalanceInv'
<1>1. CASE HvApply
  <2>1. knobs' = knobs
    BY <1>1 DEF HvApply
  <2> QED
    BY <1>1, <2>1, BalanceApplied DEF BalanceInv
<1>2. CASE Running' \/ health' # "active" \/ "config" \in hvdue'
  BY <1>2 DEF BalanceInv
<1>3. CASE UNCHANGED <<settings, knobs, ports, epa, pages, health, hvhook>> /\ ("config" \in hvdue => "config" \in hvdue')
  <2>1. \A s : Allocated(s)' = Allocated(s)
    BY <1>3 DEF Allocated
  <2>2. Balanced' <=> Balanced
    BY <1>3, <2>1 DEF Balanced
  <2> QED
    BY <1>3, <2>2 DEF BalanceInv, Running
<1>4. ASSUME NEW e \in HvEvents, HvConfigure(e)
      PROVE  Running' \/ health' # "active"
  BY <1>4 DEF HvConfigure, EndsWith, Running, HvEvents
<1>5. EpaCall => Running'
  BY DEF EpaCall, CallsInv, Running
<1>6. EpaFails => health' # "active"
  BY DEF EpaFails
<1>7. OptionsChange => "config" \in hvdue'
  BY DEF OptionsChange
<1>8. ASSUME \/ UNCHANGED hvVars \/ \E e \in HvEvents : Unheard(e)
             \/ RelateFocus \/ OfferChanges \/ FocusDeparts \/ FocusBreaks
             \/ \E x \in AllCores : OthersTake(x)
      PROVE  /\ UNCHANGED <<settings, knobs, ports, epa, pages, health, hvhook>>
             /\ "config" \in hvdue => "config" \in hvdue'
  BY <1>8 DEF hvVars, Unheard, RelateFocus, OfferChanges, FocusDeparts, FocusBreaks, OthersTake
<1> QED
  BY <1>1, <1>2, <1>3, <1>4, <1>5, <1>6, <1>7, <1>8 DEF HypervisorNext, HvEvents

-----------------------------------------------------------------------------
(* The settings follow the relation.                                       *)

\* What a relation offers, as a hook of event e has it for its setting.
LEMMA KeyWritten ==
    ASSUME HvShape, hvplan.focus # "options", NEW seen, NEW e,
           hvplan.focus = "ceph-access" => seen["ceph-access"] # 0
    PROVE  /\ FocusKey \in DOMAIN Data(seen, e)
           /\ Data(seen, e)[FocusKey] =
                CASE hvplan.focus = "cos-agent" -> AsNumber(EnableMonitoring(e))
                  [] hvplan.focus = "ceilometer-service" -> AsNumber(EnableTelemetry(e))
                  [] OTHER -> seen[hvplan.focus]
<1>1. hvplan.focus \in HvRelations
  BY HypervisorAssumption DEF HvShape
<1>2. CASE hvplan.focus = "cos-agent"
  BY <1>2, DataHas DEF FocusKey
<1>3. CASE hvplan.focus = "ceilometer-service"
  BY <1>3, DataHas DEF FocusKey
<1>4. CASE hvplan.focus \notin {"cos-agent", "ceilometer-service"}
  <2>1. FocusKey = hvplan.focus
    BY <1>4 DEF FocusKey
  <2>2. hvplan.focus \in HvRelations \ {"cos-agent", "ceilometer-service"}
    BY <1>1, <1>4
  <2>3. hvplan.focus \in DOMAIN Data(seen, e) /\ Data(seen, e)[hvplan.focus] = seen[hvplan.focus]
    BY <2>2, DataHas
  <2> QED
    BY <1>4, <2>1, <2>3
<1> QED
  BY <1>2, <1>3, <1>4

\* The setting that a behaviour is about is one of the snap and none of DPDK.
LEMMA KeyIsSetting ==
    ASSUME HvShape, hvplan.focus # "options"
    PROVE  /\ FocusKey \in HvSettings /\ FocusSetting = settings[FocusKey]
           /\ FocusKey \notin {"dpdk", "memory"} \cup Services
<1>1. hvplan.focus \in HvRelations
  BY HypervisorAssumption DEF HvShape
<1>2. FocusSetting = settings[FocusKey]
  BY DEF FocusSetting, FocusKey
<1>3. FocusKey \in HvRelations \cup {"monitoring", "telemetry"} /\ FocusKey # "cos-agent"
  BY <1>1 DEF FocusKey
<1> QED
  BY <1>2, <1>3 DEF HvSettings, HvRelations, HvNeeded, HvMandatory, HvOptional, Services

\* What the hook of a configured unit writes.
LEMMA KeyApplied ==
    ASSUME HvShape, hvplan.focus # "options", HvApply, FocusKey \in DOMAIN hvhook.data
    PROVE  FocusSetting' = hvhook.data[FocusKey]
<1>1. hvplan' = hvplan
  BY DEF HvApply
<1>2. FocusKey \in HvSettings /\ FocusKey \notin DOMAIN DpdkSettings
  BY KeyIsSetting, DpdkKeys
<1> DEFINE old == hvhook.data
           new == DpdkSettings
           k == FocusKey
<1>3. settings' = SetSnapData(settings, Updated(old, new))
  BY DEF HvApply
<1>4. k \in HvSettings /\ k \in DOMAIN old /\ k \notin DOMAIN new
  BY <1>2
<1> HIDE DEF old, new, k
<1>5. k \in DOMAIN Updated(old, new) /\ Updated(old, new)[k] = old[k]
  BY <1>4 DEF Updated
<1>6. settings'[k] = old[k]
  BY <1>3, <1>4, <1>5, SettingsWritten
<1>7. FocusSetting' = settings'[FocusKey]
  BY <1>1 DEF FocusSetting, FocusKey
<1> QED
  BY <1>6, <1>7 DEF k, old

\* Nothing is missing while the relation is up and offers something.
LEMMA UpIsReady ==
    ASSUME HvShape, LinkInv, hvplan.focus # "options", link = "up", offer # 0,
           NEW e \in hvdue, NEW there \in BOOLEAN
    PROVE  LET seen == [r \in HvRelations |-> Seen(r, e, there)]
           IN  /\ NotReady(seen, e) = {} /\ seen["certificates"] # 0
               /\ \A r \in HvRelations : r = hvplan.focus => seen[r] = offer
<1> DEFINE seen == [r \in HvRelations |-> Seen(r, e, there)]
<1>1. e # "broken" /\ e # "departed"
  BY DEF LinkInv
<1>2. HvNeeded \subseteq HvRelations /\ HvMandatory \subseteq HvNeeded /\ "certificates" \in HvNeeded
  BY DEF HvNeeded, HvRelations
<1>3. \A r \in HvRelations : r = hvplan.focus => seen[r] = offer
  BY DEF Seen
<1>4. \A r \in HvNeeded : seen[r] # 0
  BY <1>2, <1>3 DEF Seen
<1>5. NotReady(seen, e) = {}
  BY <1>1, <1>2, <1>4 DEF NotReady
<1> QED
  BY <1>2, <1>3, <1>4, <1>5

LEMMA UpConfigured ==
    ASSUME HvShape, HypervisorTypeOK, LinkInv, NEW e \in HvEvents, HvConfigure(e)
    PROVE  UpInv'
<1>1. e \in hvdue /\ UNCHANGED <<hvplan, link, offer>>
  BY DEF HvConfigure
<1>2. SUFFICES ASSUME hvplan.focus # "options", link = "up", offer # 0
               PROVE  \/ Running' /\ FocusKey \in DOMAIN hvhook'.data /\ hvhook'.data[FocusKey] = Offered
                      \/ ~ Running' /\ health' = "blocked"
  BY <1>1 DEF UpInv, FocusKey, Offered
<1>3. PICK there \in BOOLEAN :
          LET seen == [r \in HvRelations |-> Seen(r, e, there)]
              notReady == NotReady(seen, e)
          IN \/ notReady # {} \/ seen["certificates"] = 0
             \/ health' = "blocked" /\ (EndsWith("blocked") \/ UNCHANGED hvhook)
             \/ hvhook' = [event |-> e, data |-> Data(seen, e)]
  BY DEF HvConfigure, Data, EndsWith
<1> DEFINE seen == [r \in HvRelations |-> Seen(r, e, there)]
<1>4. /\ NotReady(seen, e) = {} /\ seen["certificates"] # 0
      /\ \A r \in HvRelations : r = hvplan.focus => seen[r] = offer
  BY <1>1, <1>2, UpIsReady
<1>5. CASE health' = "blocked" /\ (EndsWith("blocked") \/ UNCHANGED hvhook)
  BY <1>5 DEF EndsWith, NoHook, Running, HvConfigure
<1>6. CASE hvhook' = [event |-> e, data |-> Data(seen, e)]
  <2>1. hvplan.focus \in HvRelations /\ seen[hvplan.focus] = offer
    BY <1>2, <1>4, HypervisorAssumption DEF HvShape
  <2> HIDE DEF seen
  <2>2. /\ FocusKey \in DOMAIN Data(seen, e)
        /\ Data(seen, e)[FocusKey] =
             CASE hvplan.focus = "cos-agent" -> AsNumber(EnableMonitoring(e))
               [] hvplan.focus = "ceilometer-service" -> AsNumber(EnableTelemetry(e))
               [] OTHER -> seen[hvplan.focus]
    BY <1>2, <2>1, KeyWritten
  <2>3. e # "broken" /\ e # "departed"
    BY <1>1, <1>2 DEF LinkInv
  <2>4. /\ hvplan.focus = "cos-agent" => AsNumber(EnableMonitoring(e)) = 1 /\ offer = 1
        /\ hvplan.focus = "ceilometer-service" => AsNumber(EnableTelemetry(e)) = 1
    BY <1>2, <2>3 DEF AsNumber, EnableMonitoring, EnableTelemetry, LinkInv
  <2>5. Data(seen, e)[FocusKey] = Offered
    BY <2>1, <2>2, <2>4 DEF Offered
  <2>6. hvhook'.event # "none" /\ hvhook'.data = Data(seen, e)
    BY <1>6 DEF HvEvents
  <2> QED
    BY <2>2, <2>5, <2>6 DEF Running
<1> QED
  BY <1>3, <1>4, <1>5, <1>6

LEMMA UpStep ==
    ASSUME HvShape, HypervisorTypeOK, LinkInv, CallsInv, UpInv, [HypervisorNext]_hvVars
    PROVE  UpInv'
<1>0. hvplan' = hvplan /\ FocusKey' = FocusKey
  BY LinkStep DEF FocusKey
<1>1. CASE \E e \in HvEvents : HvConfigure(e)
  BY <1>1, UpConfigured
<1>2. CASE HvApply
  <2>1. UNCHANGED <<link, offer, hvdue>> /\ Running /\ ~ Running' /\ health' = "active" /\ agents' = TRUE
    BY <1>2 DEF HvApply, Running, NoHook
  <2>2. SUFFICES ASSUME hvplan.focus # "options", link = "up", offer # 0, Heard
                 PROVE  FocusSetting' = Offered
    BY <1>0, <2>1 DEF UpInv, Heard, Offered, HvHears
  <2>3. FocusKey \in DOMAIN hvhook.data /\ hvhook.data[FocusKey] = Offered
    BY <2>1, <2>2 DEF UpInv
  <2> QED
    BY <1>2, <2>2, <2>3, KeyApplied
<1>3. CASE RelateFocus
  <2>1. hvplan.focus = "cos-agent" \/ offer' = 0
    BY <1>3 DEF RelateFocus
  <2>2. hvplan.focus = "cos-agent" => ~ Heard'
    BY <1>0, <1>3 DEF RelateFocus, Heard, HvHears
  <2> QED
    BY <1>0, <2>1, <2>2 DEF UpInv
<1>4. CASE OfferChanges
  <2>1. "changed" \in hvdue' /\ hvplan.focus # "cos-agent"
    BY <1>4 DEF OfferChanges
  <2>2. "changed" \in HvHears(hvplan.focus)
    BY <2>1 DEF HvHears
  <2> QED
    BY <1>0, <2>1, <2>2 DEF UpInv, Heard
<1>5. CASE FocusDeparts \/ FocusBreaks
  BY <1>5 DEF FocusDeparts, FocusBreaks, UpInv
<1>6. CASE EpaFails
  BY <1>6 DEF EpaFails, NoHook, Running, UpInv
<1>7. CASE /\ UNCHANGED <<settings, agents, health, hvhook, link, offer>>
           /\ hvdue \cap HvHears(hvplan.focus) \subseteq hvdue'
  <2>1. Heard' => Heard
    BY <1>0, <1>7 DEF Heard, HvHears
  <2>2. Offered' = Offered /\ FocusSetting' = FocusSetting /\ (Running' <=> Running)
    BY <1>0, <1>7 DEF Offered, FocusSetting, Running
  <2> QED
    BY <1>0, <1>7, <2>1, <2>2 DEF UpInv
<1>8. ASSUME \/ UNCHANGED hvVars \/ \E e \in HvEvents : Unheard(e)
             \/ EpaCall \/ OptionsChange \/ \E x \in AllCores : OthersTake(x)
      PROVE  /\ UNCHANGED <<settings, agents, health, hvhook, link, offer>>
             /\ hvdue \cap HvHears(hvplan.focus) \subseteq hvdue'
  BY <1>8 DEF hvVars, Unheard, EpaCall, OptionsChange, OthersTake
<1> QED
  BY <1>1, <1>2, <1>3, <1>4, <1>5, <1>6, <1>7, <1>8 DEF HypervisorNext, HvEvents

\* Where a relation that nothing waits for is the focus, a hook goes on.
LEMMA NeededAreThere ==
    ASSUME HvShape, hvplan.focus \notin HvNeeded, NEW e, NEW there
    PROVE  LET seen == [r \in HvRelations |-> Seen(r, e, there)]
           IN  NotReady(seen, e) = {} /\ seen["certificates"] # 0
BY DEF NotReady, Seen, HvNeeded, HvRelations

LEMMA GoneConfigured ==
    ASSUME HvShape, HypervisorTypeOK, LinkInv, GoneInv, NEW e \in HvEvents, HvConfigure(e)
    PROVE  GoneInv'
<1>1. /\ e \in hvdue /\ hvdue' = hvdue \ {e} /\ UNCHANGED <<hvplan, link, offer>> /\ ~ Running
      /\ between' = (between \/ (e = "config" /\ link = "leaving" /\ "departed" \notin hvdue))
      /\ e = "config" \/ e \in HvHears(hvplan.focus)
  BY DEF HvConfigure
<1>2. SUFFICES ASSUME hvplan.focus # "options", GoesWithRelation', Gone'
               PROVE  \/ Running' /\ FocusKey \in DOMAIN hvhook'.data /\ hvhook'.data[FocusKey] = 0
                      \/ ~ Running' /\ (health' = "blocked" \/ FocusSetting' = 0)
  BY <1>1 DEF GoneInv, FocusKey
<1>3. PICK there \in BOOLEAN :
          LET seen == [r \in HvRelations |-> Seen(r, e, there)]
              notReady == NotReady(seen, e)
          IN \/ notReady # {} /\ StopServices(notReady) /\ UNCHANGED hvhook
             \/ notReady = {} /\ health' = "blocked" /\ (EndsWith("blocked") \/ UNCHANGED hvhook)
             \/ notReady = {} /\ seen["certificates"] = 0
             \/ notReady = {} /\ hvhook' = [event |-> e, data |-> Data(seen, e)]
  BY DEF HvConfigure, Data, EndsWith
<1> DEFINE seen == [r \in HvRelations |-> Seen(r, e, there)]
<1>4. hvplan.focus \in HvRelations /\ hvplan.focus \in DOMAIN seen
  BY <1>2, HypervisorAssumption DEF HvShape
<1>5. CASE hvplan.focus \in {"amqp", "ovsdb-cms"}
  <2>1. link = "none"
    BY <1>1, <1>2, <1>5 DEF Gone
  <2>2. hvplan.focus \in HvMandatory /\ hvplan.focus \in HvBreaks
    BY <1>5 DEF HvMandatory, HvBreaks
  <2>3. e # "broken" => seen[hvplan.focus] = 0
    BY <1>4, <2>1 DEF Seen
  <2>4. hvplan.focus \in NotReady(seen, e)
    BY <2>2, <2>3 DEF NotReady
  <2>5. StopServices(NotReady(seen, e)) /\ UNCHANGED hvhook
    BY <1>3, <2>4
  <2> DEFINE gone == NotReady(seen, e) \cap {"amqp", "ovsdb-cms"}
  <2>6. hvplan.focus \in gone /\ settings' = SetSnapData(settings, Unset(gone))
    BY <1>5, <2>4, <2>5 DEF StopServices
  <2> HIDE DEF gone
  <2>7. FocusKey = hvplan.focus /\ FocusKey \in HvSettings /\ FocusSetting' = settings'[FocusKey]
    BY <1>1, <1>2, <1>5, KeyIsSetting DEF FocusKey, FocusSetting
  <2>8. settings'[FocusKey] = 0
    <3> DEFINE new == Unset(gone)
    <3>1. FocusKey \in DOMAIN new /\ new[FocusKey] = 0 /\ settings' = SetSnapData(settings, new)
      BY <2>6, <2>7 DEF Unset
    <3> HIDE DEF new
    <3> QED
      BY <2>7, <3>1, SettingsWritten
  <2> QED
    BY <1>1, <2>5, <2>7, <2>8 DEF Running
<1>6. CASE hvplan.focus \notin {"amqp", "ovsdb-cms"}
  <2>1. hvplan.focus \in {"ceilometer-service", "cos-agent", "masakari-service", "barbican-service", "receive-ca-cert"}
    BY <1>1, <1>2, <1>6 DEF GoesWithRelation
  <2>2. hvplan.focus \notin HvNeeded
    BY <2>1 DEF HvNeeded, HvMandatory
  <2>3. NotReady(seen, e) = {} /\ seen["certificates"] # 0
    BY <2>2, NeededAreThere
  <2>4. CASE health' = "blocked" /\ (EndsWith("blocked") \/ UNCHANGED hvhook)
    BY <1>1, <2>4 DEF EndsWith, NoHook, Running
  <2>5. CASE hvhook' = [event |-> e, data |-> Data(seen, e)]
    <3>1. hvplan.focus = "cos-agent" => ~ EnableMonitoring(e)
      <4> SUFFICES ASSUME hvplan.focus = "cos-agent", link # "none", e # "departed" PROVE FALSE
        BY DEF EnableMonitoring
      <4>1. ~ between' /\ link = "leaving" /\ "departed" \notin hvdue
        BY <1>1, <1>2 DEF Gone
      <4>2. e = "joined"
        BY <1>1, <4>1 DEF HvHears
      <4> QED
        BY <1>1, <4>1, <4>2 DEF LinkInv
    <3>2. hvplan.focus = "ceilometer-service" => ~ EnableTelemetry(e)
      BY <1>1, <1>2 DEF EnableTelemetry, Gone
    <3>3. hvplan.focus \notin {"cos-agent", "ceilometer-service"} => seen[hvplan.focus] = 0
      <4> SUFFICES ASSUME hvplan.focus \notin {"cos-agent", "ceilometer-service"}
                   PROVE  seen[hvplan.focus] = 0
        OBVIOUS
      <4>1. link = "none" /\ ~ hvplan.readable
        BY <1>1, <1>2, <2>1 DEF Gone, GoesWithRelation
      <4> QED
        BY <1>4, <4>1 DEF Seen
    <3>4. hvplan.focus # "ceph-access"
      BY <2>1
    <3> HIDE DEF seen
    <3>5. /\ FocusKey \in DOMAIN Data(seen, e)
          /\ Data(seen, e)[FocusKey] =
               CASE hvplan.focus = "cos-agent" -> AsNumber(EnableMonitoring(e))
                 [] hvplan.focus = "ceilometer-service" -> AsNumber(EnableTelemetry(e))
                 [] OTHER -> seen[hvplan.focus]
      BY <1>2, <3>4, KeyWritten
    <3>6. Data(seen, e)[FocusKey] = 0
      BY <3>1, <3>2, <3>3, <3>5 DEF AsNumber
    <3>7. hvhook'.event # "none" /\ hvhook'.data = Data(seen, e)
      BY <2>5 DEF HvEvents
    <3> QED
      BY <3>5, <3>6, <3>7 DEF Running
  <2> QED
    BY <1>3, <2>3, <2>4, <2>5
<1> QED
  BY <1>5, <1>6

LEMMA GoneStep ==
    ASSUME HvShape, HypervisorTypeOK, LinkInv, CallsInv, GoneInv, [HypervisorNext]_hvVars
    PROVE  GoneInv'
<1>0. hvplan' = hvplan /\ FocusKey' = FocusKey
  BY LinkStep DEF FocusKey
<1>1. CASE \E e \in HvEvents : HvConfigure(e)
  BY <1>1, GoneConfigured
<1>2. CASE HvApply
  <2>1. UNCHANGED <<link, offer, hvdue, between>> /\ Running /\ ~ Running' /\ health' = "active"
    BY <1>2 DEF HvApply, Running, NoHook
  <2>2. SUFFICES ASSUME hvplan.focus # "options", GoesWithRelation, Gone
                 PROVE  FocusSetting' = 0
    BY <1>0, <2>1 DEF GoneInv, Gone, GoesWithRelation
  <2>3. FocusKey \in DOMAIN hvhook.data /\ hvhook.data[FocusKey] = 0
    BY <2>1, <2>2 DEF GoneInv
  <2> QED
    BY <1>2, <2>2, <2>3, KeyApplied
<1>3. CASE RelateFocus
  BY <1>3 DEF RelateFocus, GoneInv, Gone
<1>4. CASE OfferChanges
  BY <1>4 DEF OfferChanges, GoneInv, Gone
<1>5. CASE FocusDeparts
  BY <1>5 DEF FocusDeparts, GoneInv, Gone
<1>6. CASE EpaFails
  BY <1>6 DEF EpaFails, NoHook, Running, GoneInv
<1>7. CASE UNCHANGED <<settings, health, hvhook, between>> /\ (GoesWithRelation /\ Gone' => Gone)
  <2>1. FocusSetting' = FocusSetting /\ (Running' <=> Running) /\ (GoesWithRelation' <=> GoesWithRelation)
    BY <1>0, <1>7 DEF FocusSetting, Running, GoesWithRelation
  <2> QED
    BY <1>0, <1>7, <2>1 DEF GoneInv
<1>8. ASSUME FocusBreaks
      PROVE  UNCHANGED <<settings, health, hvhook, between>> /\ (Gone' => Gone)
  BY <1>0, <1>8 DEF FocusBreaks, Gone
<1>9. ASSUME NEW e \in HvEvents, Unheard(e)
      PROVE  UNCHANGED <<settings, health, hvhook, between>> /\ (GoesWithRelation /\ Gone' => Gone)
  <2>1. UNCHANGED <<link, settings, health, hvhook, between>> /\ hvdue' = hvdue \ {e}
        /\ e \notin HvHears(hvplan.focus)
    BY <1>9 DEF Unheard
  <2>2. GoesWithRelation => IF hvplan.focus = "cos-agent" THEN "departed" \in HvHears(hvplan.focus)
                            ELSE "broken" \in HvHears(hvplan.focus)
    BY DEF GoesWithRelation, HvHears
  <2> QED
    BY <1>0, <2>1, <2>2 DEF Gone
<1>10. ASSUME UNCHANGED hvVars \/ EpaCall \/ OptionsChange \/ \E x \in AllCores : OthersTake(x)
       PROVE  UNCHANGED <<settings, health, hvhook, between>> /\ (Gone' => Gone)
  <2>1. /\ UNCHANGED <<link, settings, health, hvhook, between>>
        /\ hvdue \subseteq hvdue'
    BY <1>10 DEF hvVars, EpaCall, OptionsChange, OthersTake
  <2> QED
    BY <1>0, <2>1 DEF Gone
<1> QED
  BY <1>1, <1>2, <1>3, <1>4, <1>5, <1>6, <1>7, <1>8, <1>9, <1>10 DEF HypervisorNext, HvEvents

-----------------------------------------------------------------------------
(* Together.                                                               *)

HvInv == /\ HvShape /\ HypervisorTypeOK /\ LinkInv /\ CallsInv
         /\ BalanceInv /\ UpInv /\ GoneInv

LEMMA HvInitInv == HypervisorInit => HvInv
<1> SUFFICES ASSUME HypervisorInit PROVE HvInv
  OBVIOUS
<1>1. HvShape /\ HypervisorTypeOK
  BY HvInitType
<1>2. /\ link = "none" /\ hvdue = {"config"} /\ health = "new" /\ ~ Running /\ calls = << >>
      /\ (knobs.epa <=> hvplan.focus = "options")
  BY DEF HypervisorInit, Running, NoHook
<1>3. LinkInv /\ BalanceInv /\ UpInv
  BY <1>2 DEF LinkInv, BalanceInv, UpInv
<1>4. CallsInv
  BY <1>2, EmptySeq DEF CallsInv
<1>5. GoneInv
  <2>1. SUFFICES ASSUME hvplan.focus # "options" PROVE FocusSetting = 0
    BY <1>2 DEF GoneInv
  <2>2. FocusKey \in HvSettings /\ FocusSetting = settings[FocusKey] /\ FocusKey \notin {"dpdk", "memory"} \cup Services
    BY <1>1, <2>1, KeyIsSetting
  <2> QED
    BY <2>2 DEF HypervisorInit
<1> QED
  BY <1>1, <1>3, <1>4, <1>5 DEF HvInv

LEMMA HvStepInv == HvInv /\ [HypervisorNext]_hvVars => HvInv'
<1> SUFFICES ASSUME HvInv, [HypervisorNext]_hvVars PROVE HvInv'
  OBVIOUS
<1>1. HvShape /\ HypervisorTypeOK /\ LinkInv /\ CallsInv /\ BalanceInv /\ UpInv /\ GoneInv
  BY DEF HvInv
<1>2. HvShape' /\ HypervisorTypeOK'
  <2>1. CASE UNCHANGED hvVars
    <3>1. \A s : Allocated(s)' = Allocated(s)
      BY <2>1 DEF hvVars, Allocated
    <3> QED
      BY <1>1, <2>1, <3>1 DEF hvVars, HvShape, HypervisorTypeOK
  <2> QED
    BY <1>1, <2>1, ConfigureType, ApplyType, RelationType, OptionsType, OthersType, EpaCallType
       DEF HypervisorNext, HvEvents
<1>3. LinkInv'
  BY <1>1, LinkStep
<1>4. CallsInv'
  BY <1>1, CallsStep
<1>5. BalanceInv'
  BY <1>1, BalanceStep
<1>6. UpInv' /\ GoneInv'
  BY <1>1, UpStep, GoneStep
<1> QED
  BY <1>2, <1>3, <1>4, <1>5, <1>6 DEF HvInv

LEMMA HvInvAlways == HypervisorSpec => []HvInv
BY HvInitInv, HvStepInv, PTL DEF HypervisorSpec

\* The types hold for any nodes, cores, options and failures.
THEOREM HypervisorTypeCorrect == HypervisorSpec => []HypervisorTypeOK
<1>1. HvInv => HypervisorTypeOK
  BY DEF HvInv
<1> QED
  BY <1>1, HvInvAlways, PTL

\* The snap has what the relation offers and nothing of one that is gone, and
\* the cores and pages that EPA has allocated are those that the options ask
\* for, for any machine and any options (configure_unit, _handle_ovs_dpdk).
THEOREM SnapSettledHolds == HypervisorSpec => []SnapSettled
<1>1. HvInv => SettingsFollow
  <2> SUFFICES ASSUME HvInv, HvAtRest, health # "blocked", hvplan.focus # "options"
               PROVE  /\ link = "up" /\ offer # 0 =>
                           /\ health = "active" /\ agents
                           /\ FocusSetting = IF hvplan.focus = "ceilometer-service" THEN 1 ELSE offer
                      /\ link = "none" /\ GoesWithRelation => FocusSetting = 0
    BY DEF SettingsFollow
  <2>1. ~ Running /\ hvdue = {}
    BY DEF HvAtRest
  <2>2. link = "none" /\ GoesWithRelation => Gone
    BY <2>1 DEF Gone, GoesWithRelation
  <2>3. UpInv /\ GoneInv /\ Heard
    BY <2>1 DEF HvInv, Heard
  <2> QED
    BY <2>1, <2>2, <2>3 DEF UpInv, GoneInv, Offered
<1>2. HvInv => CoresAccounted
  <2> SUFFICES ASSUME HvInv, HvAtRest, health = "active", knobs.epa
               PROVE  Balanced /\ \A s \in Services : Allocated(s) \cap others = {}
    BY DEF CoresAccounted, Balanced
  <2> QED
    BY DEF HvInv, BalanceInv, HvAtRest, HvShape
<1> QED
  BY <1>1, <1>2, HvInvAlways, PTL DEF SnapSettled

-----------------------------------------------------------------------------
(* VolumeBackends.                                                         *)

\* A hook of the charm waits.
CharmWaits(e, d) == <<e, d>> \in volumeDue

-----------------------------------------------------------------------------
(* What the operations of the two sides do.                                *)

LEMMA VolFaultCounts ==
    ASSUME VolumeTypeOK, NEW k, VolFault(k)
    PROVE  vfaults' \in 0..vplan.most
<1>1. vplan.most \in Nat
  BY VolumeAssumption DEF VolumeTypeOK
<1> QED
  BY <1>1 DEF VolFault, VolumeTypeOK

\* The name of the snap stays, and a driver is told of it when it is new.
LEMMA Published ==
    ASSUME VolumeTypeOK, NEW new, PublishSnap(new)
    PROVE  /\ snapName' \in [Drivers -> BOOLEAN]
           /\ driverDue' \in [Drivers -> SUBSET {"config", "fed", "changed", "departed"}]
           /\ \A d \in Drivers :
                 /\ snapName'[d] <=> snapName[d] \/ d \in new
                 /\ driverDue'[d] = driverDue[d] \cup
                       (IF d \in new /\ ~ snapName[d] /\ driverEnd[d] = "up" THEN {"changed"} ELSE {})
<1>1. snapName \in [Drivers -> BOOLEAN] /\ driverDue \in [Drivers -> SUBSET {"config", "fed", "changed", "departed"}]
  BY DEF VolumeTypeOK
<1>2. snapName' \in [Drivers -> BOOLEAN] /\ \A d \in Drivers : snapName'[d] <=> snapName[d] \/ d \in new
  BY <1>1 DEF PublishSnap
<1>3. \A d \in Drivers :
         driverDue'[d] = driverDue[d] \cup
             (IF d \in new /\ ~ snapName[d] /\ driverEnd[d] = "up" THEN {"changed"} ELSE {})
  BY DEF PublishSnap
<1>4. driverDue' = [d \in Drivers |-> driverDue'[d]]
  BY DEF PublishSnap
<1>5. \A d \in Drivers : driverDue'[d] \in SUBSET {"config", "fed", "changed", "departed"}
  BY <1>1, <1>3
<1> QED
  BY <1>2, <1>3, <1>4, <1>5

\* Services run after a configuration as the relations and the backends say.
RunsAsRelated ==
    volRunning' = IF ~ snapThere' THEN volRunning
                  ELSE (api /\ bus) /\ (volRunning \/ Backends # {})

LEMMA Configured ==
    ASSUME VolumeTypeOK, ConfigureVolume
    PROVE  /\ PublishSnap({d \in Drivers : Related(d)})
           /\ RunsAsRelated
           /\ {snapThere', volRunning'} \subseteq BOOLEAN
           /\ snapThere => snapThere'
           /\ vfaults' \in 0..vplan.most
<1>1. vfaults' \in 0..vplan.most
  BY VolFaultCounts DEF ConfigureVolume, EnsureSnap, VolumeTypeOK
<1>2. snapThere' \in BOOLEAN /\ (snapThere => snapThere')
  BY DEF ConfigureVolume, EnsureSnap, VolumeTypeOK
<1>3. RunsAsRelated
  BY DEF ConfigureVolume, RunsAsRelated
<1>4. volRunning' \in BOOLEAN
  BY <1>3 DEF RunsAsRelated, VolumeTypeOK
<1> QED
  BY <1>1, <1>2, <1>3, <1>4 DEF ConfigureVolume

\* A backend that is gone leaves the list, and the snap unless that refuses.
LEMMA BackendsChange ==
    ASSUME VolumeTypeOK, BackendChanges
    PROVE  /\ PublishSnap({d \in Drivers : Related(d)})
           /\ RunsAsRelated
           /\ {snapThere', volRunning'} \subseteq BOOLEAN
           /\ snapThere => snapThere'
           /\ vfaults' \in 0..vplan.most
           /\ backends' = Backends /\ backends' \subseteq Drivers
           /\ namespace' \in [Drivers -> 0..MaxOption] /\ left' \in [Drivers -> BOOLEAN]
           /\ \A d \in Drivers : IF d \in backends \ Backends THEN namespace'[d] = 0 \/ left'[d]
                                 ELSE namespace'[d] = namespace[d] /\ (left'[d] <=> left[d])
<1>1. backends' = Backends /\ backends' \subseteq Drivers
  BY DEF BackendChanges, Backends
<1>2. CASE /\ namespace' = [d \in Drivers |-> IF d \in backends \ Backends THEN 0 ELSE namespace[d]]
           /\ ConfigureVolume /\ UNCHANGED left
  <2>1. namespace' \in [Drivers -> 0..MaxOption]
    BY <1>2, VolumeAssumption DEF VolumeTypeOK
  <2>2. left' \in [Drivers -> BOOLEAN]
    BY <1>2 DEF VolumeTypeOK
  <2>3. \A d \in Drivers : IF d \in backends \ Backends THEN namespace'[d] = 0 \/ left'[d]
                           ELSE namespace'[d] = namespace[d] /\ (left'[d] <=> left[d])
    BY <1>2
  <2> QED
    BY <1>1, <1>2, <2>1, <2>2, <2>3, Configured
<1>3. CASE /\ VolFault("unset")
           /\ UNCHANGED <<namespace, snapThere>>
           /\ left' = [d \in Drivers |-> left[d] \/ d \in backends \ Backends]
           /\ PublishSnap({d \in Drivers : Related(d)})
           /\ volRunning' = IF ~ snapThere THEN volRunning
                            ELSE (api /\ bus) /\ (volRunning \/ Backends # {})
  <2>1. RunsAsRelated /\ volRunning' \in BOOLEAN /\ snapThere' \in BOOLEAN
    BY <1>3 DEF RunsAsRelated, VolumeTypeOK
  <2>2. left' \in [Drivers -> BOOLEAN] /\ namespace' \in [Drivers -> 0..MaxOption]
    BY <1>3 DEF VolumeTypeOK
  <2>3. \A d \in Drivers : IF d \in backends \ Backends THEN namespace'[d] = 0 \/ left'[d]
                           ELSE namespace'[d] = namespace[d] /\ (left'[d] <=> left[d])
    BY <1>3
  <2> QED
    BY <1>1, <1>3, <2>1, <2>2, <2>3, VolFaultCounts
<1> QED
  BY <1>2, <1>3 DEF BackendChanges

\* A driver that is configured writes its options and publishes, or is stuck, or waits.
LEMMA DriverConfigured ==
    ASSUME VolumeTypeOK, NEW d \in Drivers, NEW ready \in BOOLEAN, ConfigureDriver(d, ready)
    PROVE  /\ \A c \in Drivers \ {d} : /\ namespace'[c] = namespace[c] /\ (backend'[c] <=> backend[c])
                                       /\ (stuck'[c] <=> stuck[c]) /\ (left'[c] <=> left[c])
           /\ namespace' \in [Drivers -> 0..MaxOption]
           /\ {backend', stuck', left'} \subseteq [Drivers -> BOOLEAN]
           /\ backend[d] => backend'[d]
           /\ \/ ~ (driverEnd[d] = "up" /\ snapName[d] /\ fed[d] /\ ready)
              \/ stuck'[d]
              \/ namespace'[d] = option[d] /\ backend'[d]
           /\ \/ namespace'[d] = namespace[d] /\ (left'[d] <=> left[d])
              \/ left'[d] \/ charmEnd[d] = "up"
           /\ \/ UNCHANGED <<backend, volumeDue>>
              \/ snapThere /\ volumeDue' = (IF backend[d] \/ charmEnd[d] # "up" THEN volumeDue
                                            ELSE volumeDue \cup {<<"changed", d>>})
<1>0. /\ namespace \in [Drivers -> 0..MaxOption] /\ option \in [Drivers -> 0..MaxOption]
      /\ backend \in [Drivers -> BOOLEAN] /\ stuck \in [Drivers -> BOOLEAN] /\ left \in [Drivers -> BOOLEAN]
  BY DEF VolumeTypeOK
<1> DEFINE waits == ~ (driverEnd[d] = "up" /\ snapName[d] /\ fed[d] /\ ready)
           fails == option[d] = 0 \/ ~ snapThere
           b     == ~ waits /\ fails
<1>1. /\ stuck' = [stuck EXCEPT ![d] = b] /\ b \in BOOLEAN
      /\ \/ ~ waits /\ ~ fails /\ ConfigureSnap(d)
         \/ (waits \/ fails) /\ UNCHANGED <<namespace, backend, volumeDue, left>>
  BY DEF ConfigureDriver
<1>2. /\ stuck' \in [Drivers -> BOOLEAN] /\ (stuck'[d] <=> b)
      /\ \A c \in Drivers \ {d} : stuck'[c] <=> stuck[c]
  <2> HIDE DEF b
  <2> QED
    BY <1>0, <1>1
<1>3. CASE ~ waits /\ ~ fails /\ ConfigureSnap(d)
  <2> DEFINE l == left[d] \/ charmEnd[d] # "up"
  <2>1. /\ namespace' = [namespace EXCEPT ![d] = option[d]]
        /\ backend' = [backend EXCEPT ![d] = TRUE]
        /\ left' = [left EXCEPT ![d] = l] /\ l \in BOOLEAN
        /\ volumeDue' = IF backend[d] \/ charmEnd[d] # "up" THEN volumeDue
                        ELSE volumeDue \cup {<<"changed", d>>}
    BY <1>3 DEF ConfigureSnap
  <2>2. /\ left' \in [Drivers -> BOOLEAN] /\ (left'[d] <=> l)
        /\ \A c \in Drivers \ {d} : left'[c] <=> left[c]
    <3> HIDE DEF l
    <3> QED
      BY <1>0, <2>1
  <2>3. /\ namespace' \in [Drivers -> 0..MaxOption] /\ namespace'[d] = option[d]
        /\ backend' \in [Drivers -> BOOLEAN] /\ backend'[d]
        /\ \A c \in Drivers \ {d} : namespace'[c] = namespace[c] /\ (backend'[c] <=> backend[c])
    BY <1>0, <2>1
  <2> QED
    BY <1>2, <1>3, <2>1, <2>2, <2>3
<1>4. CASE (waits \/ fails) /\ UNCHANGED <<namespace, backend, volumeDue, left>>
  BY <1>0, <1>2, <1>4
<1> QED
  BY <1>1, <1>3, <1>4

-----------------------------------------------------------------------------
(* Types.                                                                  *)

LEMMA Events ==
    /\ \A e \in {"install", "config", "relations", "api"} : <<e, "charm">> \in VolumeEvents
    /\ \A e \in {"joined", "changed", "departed", "broken"}, d \in Drivers : <<e, d>> \in VolumeEvents
BY DEF VolumeEvents

LEMMA InitType == VolumeInit => VolumeTypeOK
<1> SUFFICES ASSUME VolumeInit PROVE VolumeTypeOK
  OBVIOUS
<1>1. vplan \in VolumePlans /\ vplan.most \in Nat /\ vplan.ready \in BOOLEAN
  BY VolumeAssumption DEF VolumeInit
<1>2. volumeDue \subseteq VolumeEvents
  BY Events DEF VolumeInit
<1>3. fed \in [Drivers -> BOOLEAN]
  BY DEF VolumeInit
<1>4. /\ namespace \in [Drivers -> 0..MaxOption] /\ option \in [Drivers -> 0..MaxOption]
      /\ vfaults \in 0..vplan.most
  BY <1>1, VolumeAssumption DEF VolumeInit
<1>5. /\ charmEnd \in [Drivers -> {"none", "up", "departed"}]
      /\ driverEnd \in [Drivers -> {"none", "up"}]
      /\ {snapName, backend, volumeReady, stuck, left} \subseteq [Drivers -> BOOLEAN]
      /\ driverDue \in [Drivers -> SUBSET {"config", "fed", "changed", "departed"}]
      /\ backends \subseteq Drivers
  BY DEF VolumeInit
<1>6. {snapThere, volRunning, api, bus} \subseteq BOOLEAN
  BY <1>1 DEF VolumeInit
<1> QED
  BY <1>1, <1>2, <1>3, <1>4, <1>5, <1>6 DEF VolumeTypeOK

LEMMA CharmHookType ==
    ASSUME VolumeTypeOK,
           \/ \E e \in {"install", "config", "relations", "api"} : VolumeHook(e)
           \/ \E d \in Drivers : DriverJoined(d) \/ DriverReady(d) \/ DriverDeparted(d) \/ DriverGone(d)
    PROVE  VolumeTypeOK'
<1>1. ASSUME NEW e, VolumeHook(e) PROVE VolumeTypeOK'
  <2>1. /\ UNCHANGED <<vplan, namespace, api, bus, backends, charmEnd, driverSide>>
        /\ volumeDue' = volumeDue \ {<<e, "charm">>}
        /\ \/ EnsureSnap /\ UNCHANGED <<snapName, driverDue, volRunning>>
           \/ ConfigureVolume
    BY <1>1 DEF VolumeHook
  <2>2. CASE EnsureSnap /\ UNCHANGED <<snapName, driverDue, volRunning>>
    <3>1. snapThere' \in BOOLEAN /\ vfaults' \in 0..vplan.most
      BY <2>2, VolFaultCounts DEF EnsureSnap, VolumeTypeOK
    <3> QED
      BY <2>1, <2>2, <3>1 DEF VolumeTypeOK, driverSide
  <2>3. CASE ConfigureVolume
    BY <2>1, <2>3, Configured, Published DEF VolumeTypeOK, driverSide
  <2> QED
    BY <2>1, <2>2, <2>3
<1>2. ASSUME NEW d \in Drivers, DriverJoined(d) PROVE VolumeTypeOK'
  <2>1. /\ UNCHANGED <<vplan, snapThere, volRunning, namespace, api, bus, backends, charmEnd,
                       driverSide, vfaults>>
        /\ volumeDue' = volumeDue \ {<<"joined", d>>}
        /\ PublishSnap({d})
    BY <1>2 DEF DriverJoined
  <2> QED
    BY <2>1, Published DEF VolumeTypeOK, driverSide
<1>3. ASSUME NEW d \in Drivers, DriverReady(d) \/ DriverGone(d) PROVE VolumeTypeOK'
  <2>1. /\ UNCHANGED <<vplan, api, bus, driverEnd, backend, volumeReady, fed, option, stuck>>
        /\ volumeDue' \subseteq volumeDue /\ BackendChanges
        /\ UNCHANGED charmEnd \/ charmEnd' = [charmEnd EXCEPT ![d] = "none"]
    BY <1>3 DEF DriverReady, DriverGone
  <2>2. charmEnd' \in [Drivers -> {"none", "up", "departed"}]
    BY <2>1 DEF VolumeTypeOK
  <2> QED
    BY <2>1, <2>2, BackendsChange, Published DEF VolumeTypeOK
<1>4. ASSUME NEW d \in Drivers, DriverDeparted(d) PROVE VolumeTypeOK'
  <2> DEFINE l == d \notin backends /\ namespace[d] # 0
  <2>1. /\ UNCHANGED <<vplan, snapThere, volRunning, namespace, api, bus, backends, snapName,
                       driverEnd, backend, volumeReady, fed, option, stuck, driverDue, vfaults>>
        /\ volumeDue' = (volumeDue \ {<<"departed", d>>}) \cup {<<"broken", d>>}
        /\ charmEnd' = [charmEnd EXCEPT ![d] = "departed"]
        /\ left' = [left EXCEPT ![d] = l]
    BY <1>4 DEF DriverDeparted
  <2>2. left' \in [Drivers -> BOOLEAN]
    <3>1. l \in BOOLEAN
      OBVIOUS
    <3> HIDE DEF l
    <3> QED
      BY <2>1, <3>1 DEF VolumeTypeOK
  <2>3. volumeDue' \subseteq VolumeEvents
    BY <2>1, Events DEF VolumeTypeOK
  <2> QED
    BY <2>1, <2>2, <2>3 DEF VolumeTypeOK
<1> QED
  BY <1>1, <1>2, <1>3, <1>4

LEMMA DriverHookType ==
    ASSUME VolumeTypeOK, NEW d \in Drivers,
           \/ \E e \in {"config", "fed"} : DriverHook(d, e)
           \/ VolumeReady(d) \/ DriverEnds(d)
    PROVE  VolumeTypeOK'
<1>1. ASSUME NEW ready \in BOOLEAN, ConfigureDriver(d, ready),
             UNCHANGED <<vplan, snapThere, charmSide, driverEnd, fed, option, vfaults>>,
             \E e : driverDue' = [driverDue EXCEPT ![d] = @ \ {e}],
             volumeReady' \in [Drivers -> BOOLEAN]
      PROVE  VolumeTypeOK'
  <2>1. volumeDue' \subseteq VolumeEvents
    <3>1. volumeDue' = volumeDue \/ volumeDue' = volumeDue \cup {<<"changed", d>>}
      BY <1>1, DriverConfigured
    <3> QED
      BY <3>1, Events DEF VolumeTypeOK
  <2>2. driverDue' \in [Drivers -> SUBSET {"config", "fed", "changed", "departed"}]
    BY <1>1 DEF VolumeTypeOK
  <2> QED
    BY <1>1, <2>1, <2>2, DriverConfigured DEF VolumeTypeOK, charmSide
<1>2. ASSUME NEW e \in {"config", "fed"}, DriverHook(d, e) PROVE VolumeTypeOK'
  BY <1>1, <1>2 DEF DriverHook, VolumeTypeOK
<1>3. CASE VolumeReady(d)
  BY <1>1, <1>3 DEF VolumeReady, VolumeTypeOK
<1>4. CASE DriverEnds(d)
  BY <1>4 DEF DriverEnds, VolumeTypeOK, charmSide
<1> QED
  BY <1>2, <1>3, <1>4

LEMMA WorldType ==
    ASSUME VolumeTypeOK,
           \/ \E d \in Drivers : RelateDriver(d) \/ RemoveDriver(d) \/ Feed(d) \/ SetOption(d)
           \/ RelationsOfVolume \/ ApiReady
    PROVE  VolumeTypeOK'
<1>1. ASSUME NEW d \in Drivers, RelateDriver(d) PROVE VolumeTypeOK'
  <2>1. volumeDue' \subseteq VolumeEvents
    BY <1>1, Events DEF RelateDriver, VolumeTypeOK
  <2> QED
    BY <1>1, <2>1 DEF RelateDriver, VolumeTypeOK
<1>2. ASSUME NEW d \in Drivers, RemoveDriver(d) PROVE VolumeTypeOK'
  <2>1. volumeDue' \subseteq VolumeEvents
    BY <1>2, Events DEF RemoveDriver, VolumeTypeOK
  <2>2. driverDue' \in [Drivers -> SUBSET {"config", "fed", "changed", "departed"}]
    BY <1>2 DEF RemoveDriver, VolumeTypeOK
  <2>3. vfaults' \in 0..vplan.most
    BY <1>2, VolFaultCounts DEF RemoveDriver
  <2> QED
    BY <1>2, <2>1, <2>2, <2>3 DEF RemoveDriver, VolumeTypeOK, charmSide, driverSide
<1>3. ASSUME NEW d \in Drivers, Feed(d) PROVE VolumeTypeOK'
  <2>1. driverDue' \in [Drivers -> SUBSET {"config", "fed", "changed", "departed"}]
    BY <1>3 DEF Feed, VolumeTypeOK
  <2> QED
    BY <1>3, <2>1 DEF Feed, VolumeTypeOK, charmSide
<1>4. ASSUME NEW d \in Drivers, SetOption(d) PROVE VolumeTypeOK'
  <2>1. /\ driverDue' \in [Drivers -> SUBSET {"config", "fed", "changed", "departed"}]
        /\ option' \in [Drivers -> 0..MaxOption]
    BY <1>4 DEF SetOption, VolumeTypeOK
  <2>2. vfaults' \in 0..vplan.most
    BY <1>4, VolFaultCounts DEF SetOption
  <2> QED
    BY <1>4, <2>1, <2>2 DEF SetOption, VolumeTypeOK, charmSide
<1>5. CASE RelationsOfVolume
  <2>1. volumeDue' \subseteq VolumeEvents
    BY <1>5, Events DEF RelationsOfVolume, VolumeTypeOK
  <2>2. vfaults' \in 0..vplan.most /\ bus' \in BOOLEAN
    BY <1>5, VolFaultCounts DEF RelationsOfVolume, VolumeTypeOK
  <2> QED
    BY <1>5, <2>1, <2>2 DEF RelationsOfVolume, VolumeTypeOK, driverSide
<1>6. CASE ApiReady
  <2>1. volumeDue' \subseteq VolumeEvents
    BY <1>6, Events DEF ApiReady, VolumeTypeOK
  <2> QED
    BY <1>6, <2>1 DEF ApiReady, VolumeTypeOK, driverSide
<1> QED
  BY <1>1, <1>2, <1>3, <1>4, <1>5, <1>6

LEMMA StepType == VolumeTypeOK /\ [VolumeNext]_volumeVars => VolumeTypeOK'
<1> SUFFICES ASSUME VolumeTypeOK, [VolumeNext]_volumeVars PROVE VolumeTypeOK'
  OBVIOUS
<1>1. CASE UNCHANGED volumeVars
  BY <1>1 DEF volumeVars, VolumeTypeOK
<1> QED
  BY <1>1, CharmHookType, DriverHookType, WorldType DEF VolumeNext

\* The types hold for any drivers, plans and options.
THEOREM VolumeTypeCorrect == VolumeSpec => []VolumeTypeOK
BY InitType, StepType, PTL DEF VolumeSpec

-----------------------------------------------------------------------------
(* The invariant.                                                          *)

\* The two ends of a relation: the charm hears of a driver that goes, publishes the
\* name of the snap to one that has come, and the driver hears of that.
EndsInv ==
    \A d \in Drivers :
        /\ CharmWaits("broken", d) => charmEnd[d] = "departed"
        /\ charmEnd[d] = "up" => \/ CharmWaits("departed", d)
                                 \/ driverEnd[d] = "up" /\ "departed" \notin driverDue[d]
        /\ charmEnd[d] = "up" => \/ snapName[d]
                                 \/ CharmWaits("joined", d) \/ CharmWaits("departed", d)
        /\ volumeReady[d] => snapName[d] /\ driverEnd[d] = "up"
        /\ driverEnd[d] = "up" /\ snapName[d] =>
              volumeReady[d] \/ "changed" \in driverDue[d] \/ "departed" \in driverDue[d]

\* A driver that can be configured, and has no hook that would do so, is.
DriverInv ==
    \A d \in Drivers :
        /\ backend[d] => snapThere
        /\ /\ charmEnd[d] = "up" /\ fed[d] /\ volumeReady[d] /\ ~ stuck[d]
           /\ "config" \notin driverDue[d] /\ "fed" \notin driverDue[d]
           => backend[d] /\ namespace[d] = option[d]

\* The charm counts what has been published, and cleans up.
CharmInv ==
    \A d \in Drivers :
        /\ charmEnd[d] = "up" /\ backend[d] =>
              d \in backends \/ CharmWaits("changed", d) \/ CharmWaits("departed", d)
        /\ charmEnd[d] = "none" => d \notin backends
        /\ charmEnd[d] # "up" => d \in backends \/ namespace[d] = 0 \/ left[d]

\* A hook that configures the charm, or is followed by one.
Wakes ==
    \/ \E e \in {"config", "relations", "api"} : CharmWaits(e, "charm")
    \/ \E e \in {"changed", "departed", "broken"}, d \in Drivers : CharmWaits(e, d)

\* The services run as relations and backends say, or such a hook waits.
RunInv ==
    /\ volRunning => snapThere
    /\ \/ Wakes
       \/ /\ snapThere /\ api /\ bus /\ Backends # {} => volRunning
          /\ volRunning => bus

Inv == VolumeTypeOK /\ EndsInv /\ DriverInv /\ CharmInv /\ RunInv

LEMMA InitInv == VolumeInit => Inv
<1> SUFFICES ASSUME VolumeInit PROVE Inv
  OBVIOUS
<1>1. \A d \in Drivers : /\ charmEnd[d] = "none" /\ driverEnd[d] = "none" /\ ~ backend[d]
                         /\ ~ volumeReady[d] /\ namespace[d] = 0
  BY DEF VolumeInit
<1>2. \A d \in Drivers : ~ CharmWaits("broken", d)
  BY DEF VolumeInit, CharmWaits
<1>3. ~ volRunning /\ backends = {} /\ Backends = {}
  BY <1>1 DEF VolumeInit, Backends, Related
<1> QED
  BY <1>1, <1>2, <1>3, InitType DEF Inv, EndsInv, DriverInv, CharmInv, RunInv

\* A hook that runs no longer waits, the others do.
LEMMA HookTaken ==
    ASSUME NEW e, NEW d, volumeDue' = volumeDue \ {<<e, d>>}, NEW f, NEW c
    PROVE  CharmWaits(f, c)' <=> CharmWaits(f, c) /\ ~ (f = e /\ c = d)
BY DEF CharmWaits

\* One that is added waits too.
LEMMA HookAdded ==
    ASSUME NEW e, NEW d, volumeDue' = volumeDue \cup {<<e, d>>}, NEW f, NEW c
    PROVE  CharmWaits(f, c)' <=> CharmWaits(f, c) \/ (f = e /\ c = d)
BY DEF CharmWaits

\* The services after a configuration
LEMMA RunsThen ==
    ASSUME VolumeTypeOK, RunInv, RunsAsRelated, snapThere => snapThere',
           UNCHANGED <<api, bus>>, Backends' = Backends
    PROVE  RunInv'
<1>1. volRunning' => snapThere'
  BY DEF RunInv, RunsAsRelated
<1>2. snapThere' /\ api' /\ bus' /\ Backends' # {} => volRunning'
  BY DEF RunsAsRelated
<1>3. volRunning' => bus'
  BY <1>1 DEF RunsAsRelated
<1> QED
  BY <1>1, <1>2, <1>3 DEF RunInv

-----------------------------------------------------------------------------
(* Hooks of the charm.                                                     *)

\* The part of EndsInv that publishing the name of the snap disturbs.
LEMMA PublishedEnds ==
    ASSUME VolumeTypeOK, EndsInv, NEW new, PublishSnap(new), NEW d \in Drivers,
           UNCHANGED <<driverEnd, volumeReady>>
    PROVE  /\ snapName[d] => snapName'[d]
           /\ d \in new => snapName'[d]
           /\ \A e \in {"config", "fed", "departed"} : e \in driverDue'[d] <=> e \in driverDue[d]
           /\ volumeReady'[d] => snapName'[d] /\ driverEnd'[d] = "up"
           /\ driverEnd'[d] = "up" /\ snapName'[d] =>
                 volumeReady'[d] \/ "changed" \in driverDue'[d] \/ "departed" \in driverDue'[d]
<1>1. /\ snapName'[d] <=> snapName[d] \/ d \in new
      /\ driverDue'[d] = driverDue[d] \cup
            (IF d \in new /\ ~ snapName[d] /\ driverEnd[d] = "up" THEN {"changed"} ELSE {})
  BY Published
<1>2. /\ volumeReady[d] => snapName[d] /\ driverEnd[d] = "up"
      /\ driverEnd[d] = "up" /\ snapName[d] =>
            volumeReady[d] \/ "changed" \in driverDue[d] \/ "departed" \in driverDue[d]
  BY DEF EndsInv
<1> QED
  BY <1>1, <1>2

LEMMA VolumeHookStep ==
    ASSUME Inv, NEW e \in {"install", "config", "relations", "api"}, VolumeHook(e)
    PROVE  Inv'
<1>0. VolumeTypeOK /\ EndsInv /\ DriverInv /\ CharmInv /\ RunInv
  BY DEF Inv
<1>1. /\ UNCHANGED <<vplan, namespace, api, bus, backends, charmEnd, driverEnd, backend,
                     volumeReady, fed, option, stuck, left>>
      /\ volumeDue' = volumeDue \ {<<e, "charm">>}
      /\ \/ e = "install" /\ EnsureSnap /\ UNCHANGED <<snapName, driverDue, volRunning>>
         \/ ConfigureVolume
  BY DEF VolumeHook, driverSide
<1>2. \A f, c : c \in Drivers => (CharmWaits(f, c)' <=> CharmWaits(f, c))
  BY <1>1, HookTaken, VolumeAssumption
<1>3. VolumeTypeOK'
  BY <1>0, CharmHookType
<1>4. snapThere => snapThere'
  BY <1>0, <1>1, Configured DEF EnsureSnap
<1>5. EndsInv'
  <2>1. CASE UNCHANGED <<snapName, driverDue>>
    BY <1>0, <1>1, <1>2, <2>1 DEF EndsInv
  <2>2. CASE PublishSnap({d \in Drivers : Related(d)})
    BY <1>0, <1>1, <1>2, <2>2, PublishedEnds DEF EndsInv
  <2> QED
    BY <1>0, <1>1, <2>1, <2>2, Configured
<1>6. DriverInv'
  <2>1. CASE UNCHANGED driverDue
    BY <1>0, <1>1, <1>4, <2>1 DEF DriverInv
  <2>2. CASE PublishSnap({d \in Drivers : Related(d)})
    BY <1>0, <1>1, <1>4, <2>2, PublishedEnds DEF DriverInv
  <2> QED
    BY <1>0, <1>1, <2>1, <2>2, Configured
<1>7. CharmInv'
  BY <1>0, <1>1, <1>2 DEF CharmInv
<1>8. RunInv'
  <2>1. Backends' = Backends
    BY <1>1 DEF Backends, Related
  <2>2. CASE ConfigureVolume
    BY <1>0, <1>1, <2>1, <2>2, Configured, RunsThen
  <2>3. CASE e = "install" /\ UNCHANGED volRunning
    <3>1. Wakes => Wakes'
      BY <1>1, <1>2, <2>3, HookTaken DEF Wakes
    <3>2. Backends # {} => snapThere
      BY <1>0 DEF DriverInv, Backends
    <3> QED
      BY <1>0, <1>1, <1>4, <2>1, <2>3, <3>1, <3>2 DEF RunInv
  <2> QED
    BY <1>1, <2>2, <2>3
<1> QED
  BY <1>3, <1>5, <1>6, <1>7, <1>8 DEF Inv

LEMMA DriverJoinedStep ==
    ASSUME Inv, NEW d \in Drivers, DriverJoined(d)
    PROVE  Inv'
<1>0. VolumeTypeOK /\ EndsInv /\ DriverInv /\ CharmInv /\ RunInv
  BY DEF Inv
<1>1. /\ UNCHANGED <<vplan, snapThere, volRunning, namespace, api, bus, backends, charmEnd, driverEnd,
                     backend, volumeReady, fed, option, stuck, left>>
      /\ volumeDue' = volumeDue \ {<<"joined", d>>}
      /\ PublishSnap({d})
  BY DEF DriverJoined, driverSide
<1>2. \A f, c : CharmWaits(f, c)' <=> CharmWaits(f, c) /\ ~ (f = "joined" /\ c = d)
  BY <1>1, HookTaken
<1>3. VolumeTypeOK'
  BY <1>0, CharmHookType
<1>4. EndsInv'
  BY <1>0, <1>1, <1>2, PublishedEnds DEF EndsInv
<1>5. DriverInv'
  BY <1>0, <1>1, PublishedEnds DEF DriverInv
<1>6. CharmInv'
  BY <1>0, <1>1, <1>2 DEF CharmInv
<1>7. RunInv'
  <2>1. Wakes => Wakes'
    BY <1>2 DEF Wakes
  <2> QED
    BY <1>0, <1>1, <2>1 DEF RunInv, Backends, Related
<1> QED
  BY <1>3, <1>4, <1>5, <1>6, <1>7 DEF Inv

\* The charm hears that a backend has come or gone.
LEMMA BackendChangesStep ==
    ASSUME Inv, NEW d \in Drivers, DriverReady(d) \/ DriverGone(d)
    PROVE  Inv'
<1>0. VolumeTypeOK /\ EndsInv /\ DriverInv /\ CharmInv /\ RunInv
  BY DEF Inv
<1>1. /\ UNCHANGED <<vplan, api, bus, driverEnd, backend, volumeReady, fed, option, stuck>>
      /\ BackendChanges
      /\ \/ /\ volumeDue' = volumeDue \ {<<"changed", d>>}
            /\ UNCHANGED charmEnd
         \/ /\ CharmWaits("broken", d)
            /\ volumeDue' = volumeDue \ {<<"broken", d>>}
            /\ charmEnd' = [charmEnd EXCEPT ![d] = "none"]
  BY DEF DriverReady, DriverGone, CharmWaits
<1>2. PICK e \in {"changed", "broken"} :
         /\ \A f, c : CharmWaits(f, c)' <=> CharmWaits(f, c) /\ ~ (f = e /\ c = d)
         /\ IF e = "changed" THEN UNCHANGED charmEnd
            ELSE charmEnd[d] = "departed" /\ charmEnd' = [charmEnd EXCEPT ![d] = "none"]
  BY <1>0, <1>1, HookTaken DEF EndsInv
<1>3. VolumeTypeOK'
  BY <1>0, CharmHookType
<1>4. \A c \in Drivers : /\ charmEnd'[c] = "up" <=> charmEnd[c] = "up"
                         /\ charmEnd'[c] # charmEnd[c] => c = d /\ e = "broken"
                         /\ charmEnd'[c] = "departed" => charmEnd[c] = "departed"
  BY <1>0, <1>2 DEF VolumeTypeOK
<1>5. EndsInv'
  BY <1>0, <1>1, <1>2, <1>4, BackendsChange, PublishedEnds DEF EndsInv
<1>6. \A c \in Drivers : IF c \in backends \ Backends THEN namespace'[c] = 0 \/ left'[c]
                         ELSE namespace'[c] = namespace[c] /\ (left'[c] <=> left[c])
  BY <1>0, <1>1, BackendsChange
<1>7. DriverInv'
  <2> SUFFICES ASSUME NEW c \in Drivers
               PROVE  /\ backend'[c] => snapThere'
                      /\ /\ charmEnd'[c] = "up" /\ fed'[c] /\ volumeReady'[c] /\ ~ stuck'[c]
                         /\ "config" \notin driverDue'[c] /\ "fed" \notin driverDue'[c]
                         => backend'[c] /\ namespace'[c] = option'[c]
    BY DEF DriverInv
  <2>1. \A f \in {"config", "fed"} : f \in driverDue'[c] <=> f \in driverDue[c]
    BY <1>0, <1>1, BackendsChange, PublishedEnds
  <2>2. charmEnd[c] = "up" /\ backend[c] => namespace'[c] = namespace[c]
    BY <1>6 DEF Backends, Related
  <2>3. snapThere => snapThere'
    BY <1>0, <1>1, BackendsChange
  <2> QED
    BY <1>0, <1>1, <1>4, <2>1, <2>2, <2>3 DEF DriverInv
<1>8. backends' = Backends
  BY <1>0, <1>1, BackendsChange
<1>9. CharmInv'
  <2> SUFFICES ASSUME NEW c \in Drivers
               PROVE  /\ charmEnd'[c] = "up" /\ backend'[c] =>
                            c \in backends' \/ CharmWaits("changed", c)' \/ CharmWaits("departed", c)'
                      /\ charmEnd'[c] = "none" => c \notin backends'
                      /\ charmEnd'[c] # "up" => c \in backends' \/ namespace'[c] = 0 \/ left'[c]
    BY DEF CharmInv
  <2>1. c \in backends' <=> charmEnd[c] = "up" /\ backend[c]
    BY <1>8 DEF Backends, Related
  <2>2. charmEnd[c] # "up" => c \in backends \/ namespace[c] = 0 \/ left[c]
    BY <1>0 DEF CharmInv
  <2> QED
    BY <1>1, <1>4, <1>6, <1>8, <2>1, <2>2
<1>10. RunInv'
  <2>1. Backends' = Backends
    BY <1>1, <1>4 DEF Backends, Related
  <2> QED
    BY <1>0, <1>1, <2>1, BackendsChange, RunsThen
<1> QED
  BY <1>3, <1>5, <1>7, <1>9, <1>10 DEF Inv

LEMMA DriverDepartedStep ==
    ASSUME Inv, NEW d \in Drivers, DriverDeparted(d)
    PROVE  Inv'
<1>0. VolumeTypeOK /\ EndsInv /\ DriverInv /\ CharmInv /\ RunInv
  BY DEF Inv
<1> DEFINE l == d \notin backends /\ namespace[d] # 0
<1>1. /\ UNCHANGED <<vplan, snapThere, volRunning, namespace, api, bus, backends, snapName,
                     driverEnd, backend, volumeReady, fed, option, stuck, driverDue, vfaults>>
      /\ volumeDue' = (volumeDue \ {<<"departed", d>>}) \cup {<<"broken", d>>}
      /\ charmEnd' = [charmEnd EXCEPT ![d] = "departed"]
      /\ left' = [left EXCEPT ![d] = l]
  BY DEF DriverDeparted
<1>2. \A f, c : CharmWaits(f, c)' <=> \/ CharmWaits(f, c) /\ ~ (f = "departed" /\ c = d)
                                      \/ f = "broken" /\ c = d
  BY <1>1 DEF CharmWaits
<1>3. VolumeTypeOK'
  BY <1>0, CharmHookType
<1>4. \A c \in Drivers : charmEnd'[c] = IF c = d THEN "departed" ELSE charmEnd[c]
  BY <1>0, <1>1 DEF VolumeTypeOK
<1>5. EndsInv'
  BY <1>0, <1>1, <1>2, <1>4 DEF EndsInv
<1>6. DriverInv'
  BY <1>0, <1>1, <1>4 DEF DriverInv
<1>7. CharmInv'
  <2>1. \A c \in Drivers : left'[c] <=> IF c = d THEN l ELSE left[c]
    <3>1. l \in BOOLEAN
      OBVIOUS
    <3> HIDE DEF l
    <3> QED
      BY <1>0, <1>1, <3>1 DEF VolumeTypeOK
  <2> QED
    BY <1>0, <1>1, <1>2, <1>4, <2>1 DEF CharmInv
<1>8. RunInv'
  <2>1. Wakes'
    BY <1>2 DEF Wakes
  <2> QED
    BY <1>0, <1>1, <2>1 DEF RunInv
<1> QED
  BY <1>3, <1>5, <1>6, <1>7, <1>8 DEF Inv

-----------------------------------------------------------------------------
(* Hooks of a driver.                                                      *)

LEMMA ConfigureDriverStep ==
    ASSUME Inv, VolumeTypeOK', NEW d \in Drivers, NEW ready \in BOOLEAN,
           ConfigureDriver(d, ready),
           NEW e \in {"config", "fed", "changed"}, driverDue' = [driverDue EXCEPT ![d] = @ \ {e}],
           UNCHANGED <<vplan, snapThere, charmSide, driverEnd, fed, option, vfaults>>,
           \A c \in Drivers : volumeReady'[c] <=> IF c = d THEN ready ELSE volumeReady[c],
           ready => snapName[d] /\ driverEnd[d] = "up",
           volumeReady[d] \/ e = "changed" => ready
    PROVE  Inv'
<1>0. VolumeTypeOK /\ EndsInv /\ DriverInv /\ CharmInv /\ RunInv
  BY DEF Inv
<1>1. UNCHANGED <<volRunning, backends, charmEnd, snapName, api, bus>>
  BY DEF charmSide
<1>2. /\ \A c \in Drivers \ {d} : driverDue'[c] = driverDue[c]
      /\ driverDue'[d] = driverDue[d] \ {e}
  BY <1>0 DEF VolumeTypeOK
<1>3. \/ UNCHANGED <<backend, volumeDue>>
      \/ snapThere /\ volumeDue' = (IF backend[d] \/ charmEnd[d] # "up" THEN volumeDue
                                    ELSE volumeDue \cup {<<"changed", d>>})
  BY <1>0, DriverConfigured
<1>4. \A f, c : CharmWaits(f, c)' <=>
         \/ CharmWaits(f, c)
         \/ f = "changed" /\ c = d /\ volumeDue' = volumeDue \cup {<<"changed", d>>}
  BY <1>3, HookAdded DEF CharmWaits
<1>5. EndsInv'
  BY <1>0, <1>1, <1>2, <1>4 DEF EndsInv
<1>6. /\ \A c \in Drivers \ {d} : /\ namespace'[c] = namespace[c] /\ (backend'[c] <=> backend[c])
                                  /\ (stuck'[c] <=> stuck[c]) /\ (left'[c] <=> left[c])
      /\ backend[d] => backend'[d]
      /\ \/ ~ (driverEnd[d] = "up" /\ snapName[d] /\ fed[d] /\ ready)
         \/ stuck'[d]
         \/ namespace'[d] = option[d] /\ backend'[d]
      /\ \/ namespace'[d] = namespace[d] /\ (left'[d] <=> left[d])
         \/ left'[d] \/ charmEnd[d] = "up"
  BY <1>0, DriverConfigured
<1>7. \A c \in Drivers : backend'[c] => backend[c] \/ (c = d /\ snapThere)
  BY <1>3, <1>6
<1>8. DriverInv'
  <2> SUFFICES ASSUME NEW c \in Drivers
               PROVE  /\ backend'[c] => snapThere'
                      /\ /\ charmEnd'[c] = "up" /\ fed'[c] /\ volumeReady'[c] /\ ~ stuck'[c]
                         /\ "config" \notin driverDue'[c] /\ "fed" \notin driverDue'[c]
                         => backend'[c] /\ namespace'[c] = option'[c]
    BY DEF DriverInv
  <2>1. backend'[c] => snapThere'
    BY <1>0, <1>7 DEF DriverInv
  <2>2. CASE c = d
    BY <1>6, <2>1, <2>2
  <2>3. CASE c # d
    BY <1>0, <1>1, <1>2, <1>6, <2>1, <2>3 DEF DriverInv
  <2> QED
    BY <2>2, <2>3
<1>9. CharmInv'
  <2> SUFFICES ASSUME NEW c \in Drivers
               PROVE  /\ charmEnd'[c] = "up" /\ backend'[c] =>
                            c \in backends' \/ CharmWaits("changed", c)' \/ CharmWaits("departed", c)'
                      /\ charmEnd'[c] = "none" => c \notin backends'
                      /\ charmEnd'[c] # "up" => c \in backends' \/ namespace'[c] = 0 \/ left'[c]
    BY DEF CharmInv
  <2>1. CASE c = d
    BY <1>0, <1>1, <1>3, <1>4, <1>6, <2>1 DEF CharmInv
  <2>2. CASE c # d
    BY <1>0, <1>1, <1>4, <1>6, <2>2 DEF CharmInv
  <2> QED
    BY <2>1, <2>2
<1>10. RunInv'
  <2>1. Wakes => Wakes'
    BY <1>4 DEF Wakes
  <2>2. Backends' = Backends \/ Wakes'
    <3>1. CASE volumeDue' = volumeDue \cup {<<"changed", d>>}
      BY <1>4, <3>1 DEF Wakes
    <3>2. CASE UNCHANGED backend \/ backend[d] \/ charmEnd[d] # "up"
      BY <1>1, <1>6, <3>2 DEF Backends, Related
    <3> QED
      BY <1>3, <3>1, <3>2
  <2> QED
    BY <1>0, <1>1, <2>1, <2>2 DEF RunInv
<1> QED
  BY <1>5, <1>8, <1>9, <1>10 DEF Inv

LEMMA DriverHookStep ==
    ASSUME Inv, NEW d \in Drivers,
           \/ \E e \in {"config", "fed"} : DriverHook(d, e)
           \/ VolumeReady(d)
    PROVE  Inv'
<1>0. VolumeTypeOK /\ EndsInv /\ VolumeTypeOK'
  BY DriverHookType DEF Inv
<1>1. ASSUME NEW e \in {"config", "fed"}, DriverHook(d, e) PROVE Inv'
  <2>1. /\ ConfigureDriver(d, volumeReady[d]) /\ driverDue' = [driverDue EXCEPT ![d] = @ \ {e}]
        /\ UNCHANGED <<vplan, snapThere, charmSide, driverEnd, volumeReady, fed, option, vfaults>>
    BY <1>1 DEF DriverHook
  <2>2. volumeReady[d] \in BOOLEAN /\ (volumeReady[d] => snapName[d] /\ driverEnd[d] = "up")
    BY <1>0 DEF VolumeTypeOK, EndsInv
  <2>3. \A c \in Drivers : volumeReady'[c] <=> IF c = d THEN volumeReady[d] ELSE volumeReady[c]
    BY <2>1
  <2> QED
    BY <1>0, <2>1, <2>2, <2>3, ConfigureDriverStep
<1>2. CASE VolumeReady(d)
  <2>1. /\ ConfigureDriver(d, TRUE) /\ driverDue' = [driverDue EXCEPT ![d] = @ \ {"changed"}]
        /\ UNCHANGED <<vplan, snapThere, charmSide, driverEnd, fed, option, vfaults>>
        /\ driverEnd[d] = "up" /\ snapName[d]
        /\ volumeReady' = [volumeReady EXCEPT ![d] = TRUE]
    BY <1>2 DEF VolumeReady
  <2>2. \A c \in Drivers : volumeReady'[c] <=> IF c = d THEN TRUE ELSE volumeReady[c]
    BY <1>0, <2>1 DEF VolumeTypeOK
  <2> QED
    BY <1>0, <2>1, <2>2, ConfigureDriverStep
<1> QED
  BY <1>1, <1>2

LEMMA DriverEndsStep ==
    ASSUME Inv, NEW d \in Drivers, DriverEnds(d)
    PROVE  Inv'
<1>0. VolumeTypeOK /\ EndsInv /\ DriverInv /\ CharmInv /\ RunInv
  BY DEF Inv
<1>1. /\ UNCHANGED <<vplan, snapThere, volRunning, backends, charmEnd, snapName, api, bus, namespace,
                     volumeDue, backend, fed, option, stuck, left, vfaults>>
      /\ "departed" \in driverDue[d]
      /\ driverDue' = [driverDue EXCEPT ![d] = {}]
      /\ driverEnd' = [driverEnd EXCEPT ![d] = "none"]
      /\ volumeReady' = [volumeReady EXCEPT ![d] = FALSE]
  BY DEF DriverEnds, charmSide
<1>2. \A c \in Drivers : /\ driverDue'[c] = IF c = d THEN {} ELSE driverDue[c]
                         /\ driverEnd'[c] = IF c = d THEN "none" ELSE driverEnd[c]
                         /\ volumeReady'[c] <=> c # d /\ volumeReady[c]
  BY <1>0, <1>1 DEF VolumeTypeOK
<1>3. VolumeTypeOK'
  BY <1>0, DriverHookType
<1>4. EndsInv'
  <2>1. \A f, c : CharmWaits(f, c)' <=> CharmWaits(f, c)
    BY <1>1 DEF CharmWaits
  <2> QED
    BY <1>0, <1>1, <1>2, <2>1 DEF EndsInv
<1>5. DriverInv'
  BY <1>0, <1>1, <1>2 DEF DriverInv
<1>6. CharmInv' /\ RunInv'
  BY <1>0, <1>1 DEF CharmInv, RunInv, Wakes, CharmWaits, Backends, Related
<1> QED
  BY <1>3, <1>4, <1>5, <1>6 DEF Inv

-----------------------------------------------------------------------------
(* Operators of the model, and the related applications.                  *)

LEMMA RelateDriverStep ==
    ASSUME Inv, NEW d \in Drivers, RelateDriver(d)
    PROVE  Inv'
<1>0. VolumeTypeOK /\ EndsInv /\ DriverInv /\ CharmInv /\ RunInv
  BY DEF Inv
<1>1. /\ UNCHANGED <<vplan, snapThere, volRunning, namespace, api, bus, backends,
                     volumeReady, fed, option, vfaults>>
      /\ charmEnd[d] = "none" /\ driverEnd[d] = "none"
      /\ volumeDue' = volumeDue \cup {<<"joined", d>>}
      /\ charmEnd' = [charmEnd EXCEPT ![d] = "up"]
      /\ driverEnd' = [driverEnd EXCEPT ![d] = "up"]
      /\ snapName' = [snapName EXCEPT ![d] = FALSE]
      /\ backend' = [backend EXCEPT ![d] = FALSE]
      /\ left' = [left EXCEPT ![d] = FALSE]
      /\ stuck' = [stuck EXCEPT ![d] = FALSE]
      /\ driverDue' = [driverDue EXCEPT ![d] = {"config"}]
  BY DEF RelateDriver
<1>2. \A f, c : CharmWaits(f, c)' <=> CharmWaits(f, c) \/ (f = "joined" /\ c = d)
  BY <1>1, HookAdded
<1>3. VolumeTypeOK'
  BY <1>0, WorldType
<1>4. \A c \in Drivers \ {d} :
         /\ charmEnd'[c] = charmEnd[c] /\ driverEnd'[c] = driverEnd[c] /\ driverDue'[c] = driverDue[c]
         /\ (snapName'[c] <=> snapName[c]) /\ (backend'[c] <=> backend[c])
         /\ (left'[c] <=> left[c]) /\ (stuck'[c] <=> stuck[c])
  BY <1>0, <1>1 DEF VolumeTypeOK
<1>5. /\ charmEnd'[d] = "up" /\ driverEnd'[d] = "up" /\ driverDue'[d] = {"config"}
      /\ ~ snapName'[d] /\ ~ backend'[d]
  BY <1>0, <1>1 DEF VolumeTypeOK
<1>6. ~ volumeReady[d] /\ ~ CharmWaits("broken", d)
  BY <1>0, <1>1 DEF EndsInv
<1>7. EndsInv'
  BY <1>0, <1>1, <1>2, <1>4, <1>5, <1>6 DEF EndsInv
<1>8. DriverInv'
  BY <1>0, <1>1, <1>4, <1>5 DEF DriverInv
<1>9. CharmInv'
  BY <1>0, <1>1, <1>2, <1>4, <1>5 DEF CharmInv
<1>10. RunInv'
  <2>1. Backends' = Backends
    BY <1>1, <1>4, <1>5 DEF Backends, Related
  <2>2. Wakes => Wakes'
    BY <1>2 DEF Wakes
  <2> QED
    BY <1>0, <1>1, <2>1, <2>2 DEF RunInv
<1> QED
  BY <1>3, <1>7, <1>8, <1>9, <1>10 DEF Inv

LEMMA RemoveDriverStep ==
    ASSUME Inv, NEW d \in Drivers, RemoveDriver(d)
    PROVE  Inv'
<1>0. VolumeTypeOK /\ EndsInv /\ DriverInv /\ CharmInv /\ RunInv
  BY DEF Inv
<1>1. /\ UNCHANGED <<vplan, snapThere, volRunning, backends, charmEnd, snapName, api, bus, namespace,
                     driverEnd, backend, volumeReady, fed, option, stuck, left>>
      /\ charmEnd[d] = "up"
      /\ volumeDue' = (volumeDue \ {<<"joined", d>>, <<"changed", d>>}) \cup {<<"departed", d>>}
      /\ driverDue' = [driverDue EXCEPT ![d] = (@ \ {"changed"}) \cup {"departed"}]
  BY DEF RemoveDriver, charmSide, driverSide
<1>2. \A f, c : CharmWaits(f, c)' <=> \/ CharmWaits(f, c) /\ ~ (f \in {"joined", "changed"} /\ c = d)
                                      \/ f = "departed" /\ c = d
  BY <1>1 DEF CharmWaits
<1>3. VolumeTypeOK'
  BY <1>0, WorldType
<1>4. \A c \in Drivers : driverDue'[c] = IF c = d THEN (driverDue[c] \ {"changed"}) \cup {"departed"}
                                         ELSE driverDue[c]
  BY <1>0, <1>1 DEF VolumeTypeOK
<1>5. EndsInv'
  BY <1>0, <1>1, <1>2, <1>4 DEF EndsInv
<1>6. DriverInv'
  BY <1>0, <1>1, <1>4 DEF DriverInv
<1>7. CharmInv'
  BY <1>0, <1>1, <1>2 DEF CharmInv
<1>8. RunInv'
  <2>1. Wakes'
    BY <1>2 DEF Wakes
  <2> QED
    BY <1>0, <1>1, <2>1 DEF RunInv
<1> QED
  BY <1>3, <1>5, <1>6, <1>7, <1>8 DEF Inv

LEMMA RelationsStep ==
    ASSUME Inv, RelationsOfVolume \/ ApiReady
    PROVE  Inv'
<1>0. VolumeTypeOK /\ EndsInv /\ DriverInv /\ CharmInv /\ RunInv
  BY DEF Inv
<1>1. /\ UNCHANGED <<vplan, snapThere, volRunning, namespace, backends, charmEnd, snapName, driverEnd,
                     backend, volumeReady, fed, option, stuck, left, driverDue>>
      /\ \E e \in {"relations", "api"} : volumeDue' = volumeDue \cup {<<e, "charm">>}
  BY DEF RelationsOfVolume, ApiReady, driverSide
<1>2. Wakes' /\ \A f, c : c \in Drivers => (CharmWaits(f, c)' <=> CharmWaits(f, c))
  BY <1>1, HookAdded, VolumeAssumption DEF Wakes
<1>3. VolumeTypeOK'
  BY <1>0, WorldType
<1>4. EndsInv' /\ DriverInv' /\ CharmInv'
  BY <1>0, <1>1, <1>2 DEF EndsInv, DriverInv, CharmInv
<1>5. RunInv'
  BY <1>0, <1>1, <1>2 DEF RunInv
<1> QED
  BY <1>3, <1>4, <1>5 DEF Inv

LEMMA DriverWorldStep ==
    ASSUME Inv, NEW d \in Drivers, Feed(d) \/ SetOption(d)
    PROVE  Inv'
<1>0. VolumeTypeOK /\ EndsInv /\ DriverInv /\ CharmInv /\ RunInv
  BY DEF Inv
<1>1. UNCHANGED <<vplan, snapThere, volRunning, backends, charmEnd, snapName, api, bus, namespace,
                  volumeDue, driverEnd, backend, volumeReady, stuck, left>>
  BY DEF Feed, SetOption, charmSide
<1>2. PICK e \in {"fed", "config"} : driverDue' = [driverDue EXCEPT ![d] = @ \cup {e}]
  BY DEF Feed, SetOption
<1>3. \A c \in Drivers \ {d} : (fed'[c] <=> fed[c]) /\ option'[c] = option[c]
  BY <1>0 DEF Feed, SetOption, VolumeTypeOK
<1>4. \A c \in Drivers : driverDue'[c] = IF c = d THEN driverDue[c] \cup {e} ELSE driverDue[c]
  BY <1>0, <1>2 DEF VolumeTypeOK
<1>5. VolumeTypeOK'
  BY <1>0, WorldType
<1>6. EndsInv'
  <2>1. \A f, c : CharmWaits(f, c)' <=> CharmWaits(f, c)
    BY <1>1 DEF CharmWaits
  <2>2. \A c \in Drivers, f \in {"changed", "departed"} : f \in driverDue'[c] <=> f \in driverDue[c]
    BY <1>4
  <2> QED
    BY <1>0, <1>1, <2>1, <2>2 DEF EndsInv
<1>7. DriverInv'
  BY <1>0, <1>1, <1>3, <1>4 DEF DriverInv
<1>8. CharmInv' /\ RunInv'
  BY <1>0, <1>1 DEF CharmInv, RunInv, Wakes, CharmWaits, Backends, Related
<1> QED
  BY <1>5, <1>6, <1>7, <1>8 DEF Inv

LEMMA StepInv == Inv /\ [VolumeNext]_volumeVars => Inv'
<1> SUFFICES ASSUME Inv, [VolumeNext]_volumeVars PROVE Inv'
  OBVIOUS
<1>1. CASE UNCHANGED volumeVars
  BY <1>1, StepType DEF volumeVars, Inv, EndsInv, DriverInv, CharmInv, RunInv, Wakes, CharmWaits,
     Backends, Related
<1>2. CASE \E e \in {"install", "config", "relations", "api"} : VolumeHook(e)
  BY <1>2, VolumeHookStep
<1>3. CASE \E d \in Drivers :
              \/ DriverJoined(d) \/ DriverReady(d) \/ DriverDeparted(d) \/ DriverGone(d)
  BY <1>3, DriverJoinedStep, BackendChangesStep, DriverDepartedStep
<1>4. CASE \E d \in Drivers :
              \/ VolumeReady(d) \/ DriverEnds(d)
              \/ \E e \in {"config", "fed"} : DriverHook(d, e)
  BY <1>4, DriverHookStep, DriverEndsStep
<1>5. CASE \E d \in Drivers : RelateDriver(d) \/ RemoveDriver(d) \/ Feed(d) \/ SetOption(d)
  BY <1>5, RelateDriverStep, RemoveDriverStep, DriverWorldStep
<1>6. CASE RelationsOfVolume \/ ApiReady
  BY <1>6, RelationsStep
<1> QED
  BY <1>1, <1>2, <1>3, <1>4, <1>5, <1>6 DEF VolumeNext

LEMMA InvAlways == VolumeSpec => []Inv
BY InitInv, StepInv, PTL DEF VolumeSpec

\* When no hook waits the snap, the charm and the drivers agree, in whatever order
\* they were related, installed, configured and removed.
THEOREM BackendsServedHolds == VolumeSpec => []BackendsServed
<1>1. Inv => BackendsServed
  <2> SUFFICES ASSUME Inv, VolumeAtRest
               PROVE  /\ \A d \in Drivers :
                            /\ charmEnd[d] = "up" /\ fed[d] /\ ~ stuck[d] =>
                                  namespace[d] = option[d] /\ d \in backends
                            /\ charmEnd[d] = "none" =>
                                  d \notin backends /\ (namespace[d] = 0 \/ left[d])
                      /\ snapThere /\ api /\ bus /\ Backends # {} => volRunning
                      /\ snapThere /\ ~ bus => ~ volRunning
    BY DEF BackendsServed
  <2>1. /\ \A e, d : ~ CharmWaits(e, d)
        /\ \A d \in Drivers : driverDue[d] = {}
    BY DEF VolumeAtRest, CharmWaits
  <2>2. ~ Wakes
    BY <2>1 DEF Wakes
  <2>3. ASSUME NEW d \in Drivers
        PROVE  /\ charmEnd[d] = "up" /\ fed[d] /\ ~ stuck[d] =>
                     namespace[d] = option[d] /\ d \in backends
               /\ charmEnd[d] = "none" =>
                     d \notin backends /\ (namespace[d] = 0 \/ left[d])
    <3>1. charmEnd[d] = "up" => driverEnd[d] = "up" /\ snapName[d] /\ volumeReady[d]
      BY <2>1 DEF Inv, EndsInv
    <3> QED
      BY <2>1, <3>1 DEF Inv, DriverInv, CharmInv
  <2> QED
    BY <2>2, <2>3 DEF Inv, RunInv
<1> QED
  BY <1>1, InvAlways, PTL

=============================================================================
