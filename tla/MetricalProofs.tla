---------------------------- MODULE MetricalProofs ----------------------------
(***************************************************************************)
(* Proofs about the components that gather and send - the inputs opcua,    *)
(* net, diskio and disk and the output ndjson - and about the daemon as a  *)
(* whole: what runs is the whole configuration, and what is served tells   *)
(* what runs.                                                              *)
(***************************************************************************)
EXTENDS LoadingProofs

-----------------------------------------------------------------------------
(* The OPC UA input *)

OpcuaStep ==
    \/ \E ok \in BOOLEAN : O!InputInit(ok)
    \/ O!Gather \/ O!GatherStep \/ O!DeInit

\* What happens to the OPC UA input is one of its operations.
LEMMA OpcuaStepKinds ==
  ASSUME [Next]_vars PROVE OpcuaStep \/ UNCHANGED opcua
<1>1. CASE Main
  <2>1. CASE MainAlone \/ Unwind \/ NewCollector \/ BuildFails \/ Start \/ LoadPanics \/ Serve
             \/ Stopped
    BY <2>1 DEF MainAlone, Unwind, NewCollector, BuildFails, Start, LoadPanics, Serve, Stopped,
                Unchanged
  <2>2. CASE LoadStep \/ AddOther \/ \E ok \in BOOLEAN : AddDevices(ok)
    BY <2>2 DEF LoadStep, AddOther, AddDevices
  <2>3. ASSUME NEW ok \in BOOLEAN, AddOpcua(ok) PROVE OpcuaStep
    <3>1. (ok /\ load' = "loading") \in BOOLEAN
      OBVIOUS
    <3> QED  BY <2>3, <3>1 DEF AddOpcua, OpcuaStep
  <2> QED  BY <1>1, <2>1, <2>2, <2>3 DEF Main
<1>2. CASE Collector
  BY <1>2 DEF Collector, GatherStarts, GatherGoesOn, DeInit, GatherNet, GatherDiskIO, GatherDisk,
              PeriodEnds, OtherProduct, PostEnds, OpcuaStep
<1>3. CASE \E d \in Devices : Plug(d)
  BY <1>3 DEF Plug
<1>4. CASE UNCHANGED vars
  BY <1>4 DEF vars
<1> QED  BY <1>1, <1>2, <1>3, <1>4 DEF Next

\* The nodes of the configuration, and the retries allowed.
LEMMA NodesType ==
  /\ NodeList \in Seq(Range(NodeList)) /\ Len(NodeList) \in Nat /\ Len(NodeList) >= 1
  /\ DOMAIN NodeList = 1..Len(NodeList)
  /\ ConnRetryCount \in Nat /\ ReadRetryCount \in Nat
<1>1. NodeList \in Seq(Range(NodeList)) /\ NodeList # <<>>
  BY MetricalAssumption DEF O!OpcuaAssumption, Range
<1> QED  BY <1>1, MetricalAssumption DEF O!OpcuaAssumption

\* Opcua selects as Selections does.
LEMMA OpcuaSelects == \A s, S : O!Select(s, S) = Select(s, S)
<1>1. \A S : O!Cardinality(S) = Cardinality(S)
  BY DEF O!Cardinality, Cardinality
<1>2. \A S : O!Ordered(S) = Ordered(S)
  BY <1>1 DEF O!Ordered, Ordered, O!Listing, Listing
<1> QED  BY <1>1, <1>2 DEF O!Select, Select

\* The nodes before the one that Gather reads, but for those it ignored.
Before == (1..(node - 1)) \ ignored

OpcuaType ==
    /\ O!TypeOK
    /\ gathered \in Seq(Range(NodeList))
    /\ connects \in Nat /\ reads \in Nat
    /\ ignored \subseteq DOMAIN NodeList

\* The counters of retries are the attempts made since they were reset, and
\* while Gather reads it has added all nodes before the one it is at.
OpcuaInv ==
    /\ OpcuaType
    /\ O!AttemptsBounded
    /\ pc = "connect" =>
          /\ connects = connRetry /\ reads = 0 /\ retry = 0
          /\ node = 1 /\ gathered = <<>> /\ ignored = {}
    /\ pc = "read" =>
          /\ reads = retry
          /\ ignored \subseteq 1..(node - 1)
          /\ gathered = Select(NodeList, Before)
    /\ O!GatherComplete

\* Reading a node moves Gather to the next one, or to its end, with what it
\* added so far.
LEMMA NodeRead ==
  ASSUME OpcuaInv, pc = "read", NEW added \in BOOLEAN, O!NextNode(added),
         UNCHANGED <<client, connRetry, connects>>,
         \/ gathered' = Append(gathered, NodeList[node]) /\ ignored' = ignored
         \/ gathered' = gathered /\ ignored' = ignored \cup {node}
  PROVE  OpcuaInv'
<1>1. /\ node \in 1..Len(NodeList) /\ node \in DOMAIN NodeList /\ ignored \subseteq 1..(node - 1)
      /\ gathered = Select(NodeList, Before) /\ client = "connected"
      /\ gathered \in Seq(Range(NodeList))
  BY NodesType DEF OpcuaInv, OpcuaType, O!TypeOK
<1>2. gathered' = Select(NodeList, (1..node) \ ignored')
  <2>1. CASE gathered' = Append(gathered, NodeList[node]) /\ ignored' = ignored
    <3>1. Before \subseteq DOMAIN NodeList /\ \A x \in Before : x < node
      BY <1>1, NodesType DEF Before
    <3>2. Select(NodeList, Before \cup {node}) = Append(gathered, NodeList[node])
      BY <1>1, <3>1, NodesType, SelectNext
    <3>3. Before \cup {node} = (1..node) \ ignored'
      BY <1>1, <2>1 DEF Before
    <3> QED  BY <2>1, <3>2, <3>3
  <2>2. CASE gathered' = gathered /\ ignored' = ignored \cup {node}
    <3>1. Before = (1..node) \ ignored'
      BY <1>1, <2>2 DEF Before
    <3> QED  BY <1>1, <2>2, <3>1
  <2> QED  BY <2>1, <2>2
<1>3. /\ gathered' \in Seq(Range(NodeList))
      /\ ignored' \subseteq 1..node /\ ignored' \subseteq DOMAIN NodeList
  <2>1. NodeList[node] \in Range(NodeList)
    BY <1>1 DEF Range
  <2>2. gathered' \in Seq(Range(NodeList))
    BY <1>1, <2>1
  <2>3. ignored' \subseteq 1..node
    <3>1. node \in 1..node /\ 1..(node - 1) \subseteq 1..node
      BY <1>1, NodesType
    <3> QED  BY <1>1, <3>1
  <2>4. ignored' \subseteq DOMAIN NodeList
    BY <1>1 DEF OpcuaInv, OpcuaType
  <2> QED  BY <2>2, <2>3, <2>4
<1>4. reads' = 0 /\ retry' = 0
  BY DEF O!NextNode
<1>5. CASE node = Len(NodeList)
  <2>1. pc' = "idle" /\ outcome' = "nil" /\ node' = node
    BY <1>5 DEF O!NextNode, O!Returns
  <2>2. OpcuaType'
    BY <1>1, <1>3, <1>4, <2>1, NodesType DEF OpcuaInv, OpcuaType, O!TypeOK
  <2>3. O!GatherComplete'
    BY <1>2, <1>5, NodesType, OpcuaSelects DEF O!GatherComplete
  <2>4. O!AttemptsBounded'
    BY <1>4, NodesType DEF OpcuaInv, O!AttemptsBounded
  <2> QED  BY <2>1, <2>2, <2>3, <2>4 DEF OpcuaInv
<1>6. CASE node # Len(NodeList)
  <2>1. pc' = "read" /\ outcome' = outcome /\ node' = node + 1
    BY <1>6 DEF O!NextNode
  <2>2. OpcuaType'
    BY <1>1, <1>3, <1>4, <1>6, <2>1, NodesType DEF OpcuaInv, OpcuaType, O!TypeOK
  <2>3. node' - 1 = node
    BY <1>1, <2>1
  <2>4. Before' = (1..node) \ ignored'
    BY <2>3 DEF Before
  <2>5. O!GatherComplete'
    BY <2>1 DEF O!GatherComplete
  <2>6. O!AttemptsBounded'
    BY <1>4, NodesType DEF OpcuaInv, O!AttemptsBounded
  <2> QED  BY <1>2, <1>3, <1>4, <2>1, <2>2, <2>3, <2>4, <2>5, <2>6 DEF OpcuaInv
<1> QED  BY <1>5, <1>6

\* Every operation of the OPC UA input keeps OpcuaInv.
LEMMA OpcuaInvStep ==
  ASSUME OpcuaInv, OpcuaStep \/ UNCHANGED opcua PROVE OpcuaInv'
<1> USE NodesType
<1>1. ASSUME NEW ok \in BOOLEAN, O!InputInit(ok) PROVE OpcuaInv'
  BY <1>1 DEF O!InputInit, O!call, OpcuaInv, OpcuaType, O!TypeOK, O!AttemptsBounded, O!GatherComplete
<1>2. CASE O!DeInit
  BY <1>2 DEF O!DeInit, O!call, OpcuaInv, OpcuaType, O!TypeOK, O!AttemptsBounded, O!GatherComplete
<1>3. CASE O!Gather
  <2>1. Before' = {}
    BY <1>3 DEF O!Gather, Before
  <2>2. Select(NodeList, {}) = <<>>
    BY SelectNone
  <2>3. OpcuaType'
    BY <1>3 DEF O!Gather, OpcuaInv, OpcuaType, O!TypeOK
  <2> QED
    BY <1>3, <2>1, <2>2, <2>3 DEF O!Gather, OpcuaInv, O!AttemptsBounded, O!GatherComplete
<1>4. CASE O!ConnectOk
  <2>1. Before = {} /\ Before' = {}
    BY <1>4 DEF O!ConnectOk, OpcuaInv, Before
  <2>2. Select(NodeList, {}) = <<>>
    BY SelectNone
  <2>3. OpcuaType' /\ O!AttemptsBounded'
    BY <1>4 DEF O!ConnectOk, O!OneMore, OpcuaInv, OpcuaType, O!TypeOK, O!AttemptsBounded
  <2> QED  BY <1>4, <2>1, <2>2, <2>3 DEF O!ConnectOk, OpcuaInv, O!GatherComplete
<1>5. CASE O!ConnectFails
  <2>1. OpcuaType' /\ O!AttemptsBounded'
    BY <1>5 DEF O!ConnectFails, O!Returns, O!OneMore, OpcuaInv, OpcuaType, O!TypeOK,
                O!AttemptsBounded
  <2>2. pc' = "connect" => connects' = connRetry'
    BY <1>5 DEF O!ConnectFails, O!Returns, O!OneMore, OpcuaInv, OpcuaType, O!TypeOK
  <2> QED
    BY <1>5, <2>1, <2>2 DEF O!ConnectFails, O!Returns, OpcuaInv, O!GatherComplete
<1>6. CASE O!ReadNumber
  BY <1>6, NodeRead DEF O!ReadNumber
<1>7. CASE O!ReadOther
  BY <1>7, NodeRead DEF O!ReadOther
<1>8. ASSUME NEW passes \in BOOLEAN, O!ReadFails(passes) PROVE OpcuaInv'
  <2>1. OpcuaType' /\ O!AttemptsBounded'
    BY <1>8 DEF O!ReadFails, O!Returns, O!OneMore, OpcuaInv, OpcuaType, O!TypeOK,
                O!AttemptsBounded
  <2>2. pc' = "read" => reads' = retry'
    BY <1>8 DEF O!ReadFails, O!Returns, O!OneMore, OpcuaInv, OpcuaType, O!TypeOK
  <2>3. Before' = Before
    BY <1>8 DEF O!ReadFails, Before
  <2> QED
    BY <1>8, <2>1, <2>2, <2>3 DEF O!ReadFails, O!Returns, OpcuaInv, O!GatherComplete
<1>9. CASE UNCHANGED opcua
  BY <1>9 DEF opcua, OpcuaInv, OpcuaType, O!TypeOK, O!AttemptsBounded, O!GatherComplete, Before
<1> QED  BY <1>1, <1>2, <1>3, <1>4, <1>5, <1>6, <1>7, <1>8, <1>9 DEF OpcuaStep, O!GatherStep

\* OpcuaInv holds of every state of the daemon.
THEOREM OpcuaHolds == Spec => []OpcuaInv
<1>1. Init => OpcuaInv
  <2>1. O!Init => OpcuaType
    BY NodesType DEF O!Init, OpcuaType, O!TypeOK
  <2>2. O!Init => OpcuaInv
    BY <2>1, NodesType DEF O!Init, OpcuaInv, O!AttemptsBounded, O!GatherComplete
  <2> QED  BY <2>2 DEF Init
<1>2. OpcuaInv /\ [Next]_vars => OpcuaInv'
  BY OpcuaInvStep, OpcuaStepKinds
<1> QED  BY <1>1, <1>2, PTL DEF Spec

\* AttemptsBounded: a Gather calls Connect, and Read for each node, at most once
\* more than the retries that are configured.
THEOREM AttemptsAreBounded == Spec => []AttemptsBounded
  BY OpcuaHolds, PTL DEF OpcuaInv, AttemptsBounded

\* GatherComplete: a Gather that reports no error has added all nodes of the
\* configuration in their order, but for those whose value was not a number.
THEOREM GathersAll == Spec => []GatherComplete
  BY OpcuaHolds, PTL DEF OpcuaInv, GatherComplete

-----------------------------------------------------------------------------
(* The ndjson output *)

NdjsonStep ==
    \/ \E pd \in N!Product : N!Process(pd)
    \/ N!PostFails \/ \E code \in Statuses : N!Answered(code)

\* What happens to the ndjson output is Process, or the end of its post.
LEMMA NdjsonStepKinds ==
  ASSUME [Next]_vars PROVE NdjsonStep \/ UNCHANGED ndjson
<1>1. CASE Main
  <2>1. CASE MainAlone \/ Unwind \/ NewCollector \/ BuildFails \/ Start \/ LoadPanics \/ Serve
             \/ Stopped
    BY <2>1 DEF MainAlone, Unwind, NewCollector, BuildFails, Start, LoadPanics, Serve, Stopped,
                Unchanged
  <2>2. CASE LoadStep \/ AddOther \/ \E ok \in BOOLEAN : AddOpcua(ok) \/ AddDevices(ok)
    BY <2>2 DEF LoadStep, AddOther, AddOpcua, AddDevices
  <2> QED  BY <1>1, <2>1, <2>2 DEF Main
<1>2. CASE Collector
  <2>1. ASSUME NEW n \in Range(NodeList), PeriodEnds(n) PROVE NdjsonStep
    <3>1. PICK finite \in BOOLEAN :
             N!Process([kind |-> "gauge", sampled |-> n \in sampled, finite |-> finite])
      BY <2>1 DEF PeriodEnds
    <3>2. [kind |-> "gauge", sampled |-> n \in sampled, finite |-> finite] \in N!Product
      BY MetricalAssumption DEF N!Product
    <3> QED  BY <3>1, <3>2 DEF NdjsonStep
  <2>2. CASE \E pd \in N!Product : OtherProduct(pd)
    BY <2>2 DEF OtherProduct, NdjsonStep
  <2>3. CASE PostEnds
    BY <2>3 DEF PostEnds, NdjsonStep
  <2>4. CASE GatherStarts \/ GatherGoesOn \/ DeInit \/ GatherNet \/ GatherDiskIO
             \/ \E l \in Listings : GatherDisk(l)
    BY <2>4 DEF GatherStarts, GatherGoesOn, DeInit, GatherNet, GatherDiskIO, GatherDisk
  <2> QED  BY <1>2, <2>1, <2>2, <2>3, <2>4 DEF Collector
<1>3. CASE \E d \in Devices : Plug(d)
  BY <1>3 DEF Plug
<1>4. CASE UNCHANGED vars
  BY <1>4 DEF vars
<1> QED  BY <1>1, <1>2, <1>3, <1>4 DEF Next

NdjsonInv ==
    /\ N!TypeOK
    /\ N!UnansweredReported
    /\ result = "posting" => product.kind \in N!Known

\* Process and the end of a post keep NdjsonInv.
LEMMA NdjsonInvStep ==
  ASSUME NdjsonInv, NdjsonStep \/ UNCHANGED ndjson PROVE NdjsonInv'
<1> USE DEF NdjsonInv, N!TypeOK, N!UnansweredReported
<1>1. ASSUME NEW pd \in N!Product, N!Process(pd) PROVE NdjsonInv'
  <2>1. N!Convert(pd) # "unknown" => pd.kind \in N!Known
    BY DEF N!Convert
  <2>2. N!Convert(pd) \in {"unknown", "nothing", "record"}
    BY DEF N!Convert
  <2>3. /\ dest' = dest /\ product' = pd /\ status' = None
        /\ left' \in {"no", "printed"} /\ result' \in {"nil", "error", "posting"}
        /\ result' \in {"nil", "posting"} => N!Convert(pd) # "unknown"
        /\ result' = "nil" /\ N!Convert(pd) = "record" /\ pd.finite => dest = ""
    BY <1>1, <2>2 DEF N!Process
  <2>4. N!Convert(product)' = N!Convert(pd)
    BY <2>3 DEF N!Convert
  <2> QED  BY <2>1, <2>3, <2>4
<1>2. CASE N!PostFails
  BY <1>2 DEF N!PostFails
<1>3. ASSUME NEW code \in Statuses, N!Answered(code) PROVE NdjsonInv'
  BY <1>3 DEF N!Answered
<1>4. CASE UNCHANGED ndjson
  BY <1>4 DEF ndjson
<1> QED  BY <1>1, <1>2, <1>3, <1>4 DEF NdjsonStep

\* NdjsonInv holds of every state of the daemon.
THEOREM NdjsonHolds == Spec => []NdjsonInv
<1>1. Init => NdjsonInv
  BY DEF Init, N!Init, NdjsonInv, N!TypeOK, N!UnansweredReported
<1>2. NdjsonInv /\ [Next]_vars => NdjsonInv'
  BY NdjsonInvStep, NdjsonStepKinds
<1> QED  BY <1>1, <1>2, PTL DEF Spec

\* UnansweredReported: a product that Process does not know, and a record whose
\* post has got no answer, are never reported as sent.
THEOREM ReportsUnanswered == Spec => []UnansweredReported
  BY NdjsonHolds, PTL DEF NdjsonInv, UnansweredReported

-----------------------------------------------------------------------------
(* The inputs net and diskio *)

\* Gather is called by the collector, Init while main loads it.
DevicesStep ==
    \/ main = "load" /\ V!InputInit
    \/ collector = "running" /\ Has("input", "net") /\ V!NetGather
    \/ collector = "running" /\ Has("input", "diskio") /\ V!DiskIOGather
    \/ \E d \in Devices : V!Plug(d)

\* What happens to net and diskio, and the stage at which it does.
LEMMA DevicesStepKinds ==
  ASSUME [Next]_vars
  PROVE  \/ DevicesStep /\ UNCHANGED wiring
         \/ UNCHANGED devices
<1>1. CASE Main
  <2>1. CASE MainAlone \/ Unwind \/ NewCollector \/ BuildFails \/ Start \/ LoadPanics \/ Serve
             \/ Stopped
    BY <2>1 DEF MainAlone, Unwind, NewCollector, BuildFails, Start, LoadPanics, Serve, Stopped,
                Unchanged
  <2>2. CASE LoadStep \/ AddOther \/ \E ok \in BOOLEAN : AddOpcua(ok)
    BY <2>2 DEF LoadStep, AddOther, AddOpcua
  <2>3. ASSUME NEW ok \in BOOLEAN, AddDevices(ok)
        PROVE  (DevicesStep /\ UNCHANGED wiring) \/ UNCHANGED devices
    BY <2>3 DEF AddDevices, Adding, DevicesStep
  <2> QED  BY <1>1, <2>1, <2>2, <2>3 DEF Main
<1>2. CASE Collector
  <2>1. CASE GatherStarts \/ GatherGoesOn \/ DeInit \/ PostEnds
             \/ (\E l \in Listings : GatherDisk(l)) \/ (\E n \in Range(NodeList) : PeriodEnds(n))
             \/ (\E pd \in N!Product : OtherProduct(pd))
    BY <2>1 DEF GatherStarts, GatherGoesOn, DeInit, PostEnds, GatherDisk, PeriodEnds, OtherProduct
  <2>2. CASE GatherNet \/ GatherDiskIO
    BY <2>2 DEF GatherNet, GatherDiskIO, Running, DevicesStep
  <2> QED  BY <1>2, <2>1, <2>2 DEF Collector
<1>3. CASE \E d \in Devices : Plug(d)
  BY <1>3 DEF Plug, DevicesStep
<1>4. CASE UNCHANGED vars
  BY <1>4 DEF vars
<1> QED  BY <1>1, <1>2, <1>3, <1>4 DEF Next

\* An input that the collector has is in the document.
LEMMA HasInDocument ==
  ASSUME LoadInv, NEW kind, NEW name, Has(kind, name) PROVE InDocument(name)
<1>1. PICK j \in DOMAIN instances : R!Named(doc[instances[j].section]) = <<kind, name>>
  BY DEF Has
<1>2. instances[j].section \in DOMAIN doc
  BY GivenType DEF LoadInv, LoadType, Given
<1>3. doc[instances[j].section].name = name
  BY <1>1 DEF R!Named
<1> QED  BY <1>2, <1>3 DEF InDocument

\* A document has only one of net and diskio.
LEMMA OneOfTwo ==
  ASSUME doc \in Documents PROVE ~(InDocument("net") /\ InDocument("diskio"))
<1> SUFFICES ASSUME NEW i \in DOMAIN doc, doc[i].name = "net",
                    NEW j \in DOMAIN doc, doc[j].name = "diskio"
             PROVE  FALSE
  BY DEF InDocument
<1>1. i = j
  BY MetricalAssumption DEF DeviceNames
<1> QED  BY <1>1

\* What Init found is what is kept, nothing is gathered before the collector
\* runs, and only net sums up.
DevicesInv ==
    /\ V!TypeOK
    /\ V!FoundFollowed
    /\ kept = found
    /\ collector \in {"nil", "made"} => listed = {} /\ each = {} /\ all = {}
    /\ perNIC => InDocument("net")
    /\ InDocument("diskio") => all = {}

\* The steps of main do not undo that the collector runs.
LEMMA CollectorGoesOn ==
  ASSUME StageInv, WiringStep \/ UNCHANGED wiring,
         collector' \in {"nil", "made"}
  PROVE  collector \in {"nil", "made"}
<1>1. CASE W!NewCollector
  BY <1>1 DEF W!NewCollector, StageInv
<1>2. CASE W!Start \/ W!Stopped
  BY <1>2 DEF W!Start, W!Stopped
<1> QED
  BY <1>1, <1>2 DEF WiringStep, wiring, W!ReadConfig, W!ConfigEnds, W!SignalEarly,
         W!MakeStorage, W!OpenStorage, W!NoStorage, W!StorageFails,
         W!NoServer, W!ServerFails, W!Notify, W!Signal, W!CloseServer, W!CallStop, W!CloseStorage, W!Exit,
         W!LoadFails, W!Serve, W!WirePanics

\* The inputs net and diskio keep DevicesInv.
LEMMA DevicesInvStep ==
  ASSUME DevicesInv, StageInv, LoadInv, doc' = doc,
         WiringStep \/ UNCHANGED wiring,
         (DevicesStep /\ UNCHANGED wiring) \/ UNCHANGED devices
  PROVE  DevicesInv'
<1>0. /\ \A name : InDocument(name)' <=> InDocument(name)
      /\ ~(InDocument("net") /\ InDocument("diskio"))
  BY OneOfTwo DEF InDocument, LoadInv, LoadType
<1>1. CASE main = "load" /\ V!InputInit /\ UNCHANGED wiring
  <2>1. collector = "made"
    BY <1>1 DEF StageInv
  <2> QED
    BY <1>0, <1>1, <2>1 DEF V!InputInit, DevicesInv, V!TypeOK, V!FoundFollowed, V!Configured, wiring
<1>2. CASE collector = "running" /\ Has("input", "net") /\ V!NetGather /\ UNCHANGED wiring
  <2>1. ~InDocument("diskio")
    BY <1>0, <1>2, HasInDocument
  <2> QED
    BY <1>0, <1>2, <2>1 DEF V!NetGather, V!Taken, DevicesInv, V!TypeOK, V!FoundFollowed,
                            V!Configured, wiring
<1>3. CASE collector = "running" /\ Has("input", "diskio") /\ V!DiskIOGather /\ UNCHANGED wiring
  <2>1. ~perNIC /\ all = {}
    BY <1>0, <1>3, HasInDocument DEF DevicesInv
  <2> QED
    BY <1>0, <1>3, <2>1 DEF V!DiskIOGather, V!Taken, DevicesInv, V!TypeOK, V!FoundFollowed,
                            V!Configured, wiring
<1>4. ASSUME NEW d \in Devices, V!Plug(d), UNCHANGED wiring PROVE DevicesInv'
  BY <1>0, <1>4 DEF V!Plug, DevicesInv, V!TypeOK, V!FoundFollowed, V!Configured, wiring
<1>5. CASE UNCHANGED devices
  BY <1>0, <1>5, CollectorGoesOn DEF devices, DevicesInv, V!TypeOK, V!FoundFollowed, V!Configured
<1> QED  BY <1>1, <1>2, <1>3, <1>4, <1>5 DEF DevicesStep

\* No step changes the document.
LEMMA DocStays ==
  ASSUME [Next]_vars PROVE doc' = doc
  BY LoadingStepKinds DEF LoadingStep, loading, R!NextKey, R!UnknownName, R!NotAnArray, R!Loaded,
     R!AddSection

\* DevicesInv holds of every state of the daemon.
THEOREM DevicesHold == Spec => []DevicesInv
<1>1. Init => DevicesInv
  BY DEF Init, V!Init, W!Init, DevicesInv, V!TypeOK, V!FoundFollowed, V!Configured
<1>2. DevicesInv /\ (StageType /\ StageInv) /\ LoadInv /\ [Next]_vars => DevicesInv'
  BY DevicesInvStep, DevicesStepKinds, WiringStepKinds, DocStays
<1> QED  BY <1>1, <1>2, StagesHold, LoadingHolds, PTL DEF Spec

\* FoundFollowed: what Init found is gathered whenever it is there; once it found
\* something nothing outside of the patterns is; what net sums up is what it
\* reports one by one.
THEOREM FollowsFound == Spec => []FoundFollowed
  BY DevicesHold, PTL DEF DevicesInv, FoundFollowed

-----------------------------------------------------------------------------
(* The disk input *)

DiskStep == \E l \in Listings : K!Gather(l)

\* What happens to the disk input is Gather.
LEMMA DiskStepKinds ==
  ASSUME [Next]_vars PROVE DiskStep \/ UNCHANGED disk
<1>1. CASE Main
  <2>1. CASE MainAlone \/ Unwind \/ NewCollector \/ BuildFails \/ Start \/ LoadPanics \/ Serve
             \/ Stopped
    BY <2>1 DEF MainAlone, Unwind, NewCollector, BuildFails, Start, LoadPanics, Serve, Stopped,
                Unchanged
  <2>2. CASE LoadStep \/ AddOther \/ \E ok \in BOOLEAN : AddOpcua(ok) \/ AddDevices(ok)
    BY <2>2 DEF LoadStep, AddOther, AddOpcua, AddDevices
  <2> QED  BY <1>1, <2>1, <2>2 DEF Main
<1>2. CASE Collector
  <2>1. CASE \E l \in Listings : GatherDisk(l)
    BY <2>1 DEF GatherDisk, DiskStep
  <2>2. CASE GatherStarts \/ GatherGoesOn \/ DeInit \/ GatherNet \/ GatherDiskIO \/ PostEnds
             \/ (\E n \in Range(NodeList) : PeriodEnds(n))
             \/ (\E pd \in N!Product : OtherProduct(pd))
    BY <2>2 DEF GatherStarts, GatherGoesOn, DeInit, GatherNet, GatherDiskIO, PostEnds,
                PeriodEnds, OtherProduct
  <2> QED  BY <1>2, <2>1, <2>2 DEF Collector
<1>3. CASE \E d \in Devices : Plug(d)
  BY <1>3 DEF Plug
<1>4. CASE UNCHANGED vars
  BY <1>4 DEF vars
<1> QED  BY <1>1, <1>2, <1>3, <1>4 DEF Next

\* Disk selects as Selections does.
LEMMA DiskSelects == \A s, S : K!Select(s, S) = Select(s, S)
<1>1. \A S : K!Cardinality(S) = Cardinality(S)
  BY DEF K!Cardinality, Cardinality
<1>2. \A S : K!Ordered(S) = Ordered(S)
  BY <1>1 DEF K!Ordered, Ordered, K!Listing, Listing
<1> QED  BY <1>1, <1>2 DEF K!Select, Select

\* The positions in parts of what is looked up, and of what is reported.
WantedAt == {i \in DOMAIN parts : K!Wanted(parts, parts[i])}
UsableAt == {i \in WantedAt : K!Reported(parts[i])}

AskedOf == Select(parts, WantedAt)
ShownOf == Select(parts, UsableAt)

\* asked and shown are made of the partitions of the last Gather.
DiskInv ==
    /\ setting \in Settings
    /\ parts \in Listings \cup {<<>>}
    /\ asked = [i \in DOMAIN AskedOf |-> K!Lookup(AskedOf[i])]
    /\ shown = [i \in DOMAIN ShownOf |-> K!Path(ShownOf[i])]

\* Gather of the disk input keeps DiskInv.
LEMMA DiskInvStep ==
  ASSUME DiskInv, DiskStep \/ UNCHANGED disk PROVE DiskInv'
<1>1. ASSUME NEW l \in Listings, K!Gather(l) PROVE DiskInv'
  <2>1. parts' = l /\ setting' = setting
    BY <1>1 DEF K!Gather
  <2>2. \A p : /\ K!Lookup(p)' = K!Lookup(p) /\ K!Path(p)' = K!Path(p)
               /\ K!Wanted(l, p)' = K!Wanted(l, p)
    BY <2>1 DEF K!Lookup, K!Path, K!Wanted, K!Conflict
  <2> DEFINE positions == {i \in DOMAIN l : K!Wanted(l, l[i])}
             usable == {i \in positions : K!Reported(l[i])}
  <2>3. WantedAt' = positions /\ UsableAt' = usable
    <3>1. WantedAt' = positions
      BY <2>1 DEF WantedAt, K!Wanted, K!Conflict, K!Lookup
    <3> QED  BY <2>1, <3>1 DEF UsableAt, K!Reported
  <2>4. /\ asked' = [i \in DOMAIN Select(l, positions) |-> K!Lookup(Select(l, positions)[i])]
        /\ shown' = [i \in DOMAIN Select(l, usable) |-> K!Path(Select(l, usable)[i])]
    BY <1>1, DiskSelects DEF K!Gather
  <2> HIDE DEF positions, usable
  <2>5. AskedOf' = Select(l, positions) /\ ShownOf' = Select(l, usable)
    BY <2>1, <2>3 DEF AskedOf, ShownOf
  <2> QED  BY <2>1, <2>2, <2>4, <2>5 DEF DiskInv
<1>2. CASE UNCHANGED disk
  <2>1. UNCHANGED <<setting, parts, asked, shown>>
    BY <1>2 DEF disk
  <2>2. WantedAt' = WantedAt /\ UsableAt' = UsableAt
    BY <2>1 DEF WantedAt, UsableAt, K!Wanted, K!Conflict, K!Lookup
  <2>3. AskedOf' = AskedOf /\ ShownOf' = ShownOf
    BY <2>1, <2>2 DEF AskedOf, ShownOf
  <2>4. \A p : K!Lookup(p)' = K!Lookup(p) /\ K!Path(p)' = K!Path(p)
    BY <2>1 DEF K!Lookup, K!Path
  <2> QED  BY <2>1, <2>3, <2>4 DEF DiskInv
<1> QED  BY <1>1, <1>2 DEF DiskStep

\* DiskInv holds of every state of the daemon.
THEOREM DiskHolds == Spec => []DiskInv
<1>1. Init => DiskInv
  <2> SUFFICES ASSUME K!Init PROVE DiskInv
    BY DEF Init
  <2>1. setting \in Settings /\ parts = <<>> /\ asked = <<>> /\ shown = <<>>
    BY DEF K!Init
  <2>2. WantedAt = {} /\ UsableAt = {}
    BY <2>1 DEF WantedAt, UsableAt
  <2>3. AskedOf = <<>> /\ ShownOf = <<>>
    BY <2>2, SelectNone DEF AskedOf, ShownOf
  <2> QED  BY <2>1, <2>3 DEF DiskInv
<1>2. DiskInv /\ [Next]_vars => DiskInv'
  BY DiskInvStep, DiskStepKinds
<1> QED  BY <1>1, <1>2, PTL DEF Spec

\* The partitions listed, and those asked for and shown, by their positions.
LEMMA PartsAt ==
  ASSUME DiskInv
  PROVE  /\ parts \in Seq(K!Partition)
         /\ \A i \in DOMAIN parts : parts[i].mount \in K!Mount
         /\ DOMAIN asked = 1..Cardinality(WantedAt)
         /\ \A i \in DOMAIN asked :
               Ordered(WantedAt)[i] \in WantedAt /\ asked[i] = K!Lookup(parts[Ordered(WantedAt)[i]])
         /\ DOMAIN shown = 1..Cardinality(UsableAt)
         /\ \A i \in DOMAIN shown :
               Ordered(UsableAt)[i] \in UsableAt /\ shown[i] = K!Path(parts[Ordered(UsableAt)[i]])
         /\ \A i, j \in DOMAIN shown : Ordered(UsableAt)[i] = Ordered(UsableAt)[j] => i = j
         /\ WantedAt \subseteq DOMAIN parts /\ UsableAt \subseteq WantedAt
         /\ Cardinality(WantedAt) \in Nat /\ Cardinality(UsableAt) \in Nat
<1> DEFINE T == K!Partition
<1>1. parts \in Seq(T)
  <2>1. \A l \in Listings : l \in Seq(T)
    BY MetricalAssumption DEF K!DiskAssumption
  <2>2. parts \in Listings \/ parts = <<>>
    BY DEF DiskInv
  <2> HIDE DEF T
  <2>3. CASE parts \in Listings
    BY <2>1, <2>3
  <2>4. CASE parts = <<>>
    BY <2>4
  <2> QED  BY <2>2, <2>3, <2>4
<1>2. WantedAt \subseteq DOMAIN parts /\ UsableAt \subseteq WantedAt
  BY DEF WantedAt, UsableAt
<1>3. \A p \in T : p.mount \in K!Mount
  BY DEF K!Partition
<1> HIDE DEF T
<1>4. \A i \in DOMAIN parts : parts[i] \in T
  BY <1>1
<1>5. ASSUME NEW S \in SUBSET (DOMAIN parts)
      PROVE  /\ Cardinality(S) \in Nat
             /\ DOMAIN Select(parts, S) = 1..Cardinality(S)
             /\ \A i \in 1..Cardinality(S) :
                   Ordered(S)[i] \in S /\ Select(parts, S)[i] = parts[Ordered(S)[i]]
             /\ \A i, j \in 1..Cardinality(S) : Ordered(S)[i] = Ordered(S)[j] => i = j
  <2>1. /\ S \in SUBSET Int /\ IsFiniteSet(S) /\ Cardinality(S) \in Nat
        /\ Select(parts, S) \in Seq(T) /\ Len(Select(parts, S)) = Cardinality(S)
        /\ \A i \in 1..Cardinality(S) : Select(parts, S)[i] = parts[Ordered(S)[i]]
    BY <1>1, SelectElems
  <2>2. /\ \A i \in 1..Cardinality(S) : Ordered(S)[i] \in S
        /\ \A i, j \in 1..Cardinality(S) : Ordered(S)[i] = Ordered(S)[j] => i = j
    BY <2>1, OrderedFacts
  <2> QED  BY <2>1, <2>2
<1>6. /\ Cardinality(WantedAt) \in Nat /\ DOMAIN asked = 1..Cardinality(WantedAt)
      /\ \A i \in DOMAIN asked :
            Ordered(WantedAt)[i] \in WantedAt /\ asked[i] = K!Lookup(parts[Ordered(WantedAt)[i]])
  BY <1>2, <1>5 DEF DiskInv, AskedOf
<1>7. /\ Cardinality(UsableAt) \in Nat /\ DOMAIN shown = 1..Cardinality(UsableAt)
      /\ \A i \in DOMAIN shown :
            Ordered(UsableAt)[i] \in UsableAt /\ shown[i] = K!Path(parts[Ordered(UsableAt)[i]])
      /\ \A i, j \in DOMAIN shown : Ordered(UsableAt)[i] = Ordered(UsableAt)[j] => i = j
  <2>1. UsableAt \in SUBSET (DOMAIN parts)
    BY <1>2
  <2> QED  BY <1>5, <2>1 DEF DiskInv, ShownOf
<1> QED  BY <1>1, <1>2, <1>3, <1>4, <1>6, <1>7 DEF T

Places == {"host", "outside", "beside"}

\* A mount point at another place.
LEMMA MountAt ==
  ASSUME NEW T, NEW m \in [at : Places, name : T], NEW u
  PROVE  /\ [m EXCEPT !.at = u] = [at |-> u, name |-> m.name]
         /\ m = [at |-> m.at, name |-> m.name] /\ m.at \in Places
OBVIOUS

\* Two mount points with one path, none of them beside the prefix, differ by the
\* prefix, so that one of them is looked up where the other is.
LEMMA OnePathTwoMounts ==
  ASSUME NEW p, NEW q, p.mount \in K!Mount, q.mount \in K!Mount,
         setting.prefix => p.mount.at # "beside" /\ q.mount.at # "beside",
         p.mount # q.mount, K!Path(p) = K!Path(q)
  PROVE  \/ K!Lookup(p) = q.mount /\ K!Lookup(p) # p.mount
         \/ K!Lookup(q) = p.mount /\ K!Lookup(q) # q.mount
<1> DEFINE m == p.mount
           n == q.mount
<1>1. /\ setting.prefix
      /\ [m EXCEPT !.at = "outside"] = [n EXCEPT !.at = "outside"]
      /\ m.at = "outside" => K!Lookup(p) = [m EXCEPT !.at = "host"]
      /\ n.at = "outside" => K!Lookup(q) = [n EXCEPT !.at = "host"]
  BY DEF K!Path, K!Lookup
<1>2. /\ m.at \in Places /\ n.at \in Places
      /\ m = [at |-> m.at, name |-> m.name] /\ n = [at |-> n.at, name |-> n.name]
  BY MountAt DEF K!Mount, Places
<1>3. /\ [m EXCEPT !.at = "host"] = [at |-> "host", name |-> m.name]
      /\ [n EXCEPT !.at = "host"] = [at |-> "host", name |-> n.name]
      /\ [m EXCEPT !.at = "outside"] = [at |-> "outside", name |-> m.name]
      /\ [n EXCEPT !.at = "outside"] = [at |-> "outside", name |-> n.name]
  BY MountAt DEF K!Mount, Places
<1>4. m.at \in {"host", "outside"} /\ n.at \in {"host", "outside"}
  BY <1>1, <1>2 DEF Places
<1> HIDE DEF m, n
<1>5. m.name = n.name
  BY <1>1, <1>3
<1>6. m # n
  BY DEF m, n
<1>7. m.at # n.at
  BY <1>2, <1>5, <1>6
<1>8. \/ m.at = "outside" /\ [m EXCEPT !.at = "host"] = n
      \/ n.at = "outside" /\ [n EXCEPT !.at = "host"] = m
  BY <1>2, <1>3, <1>4, <1>5, <1>7
<1> QED  BY <1>1, <1>6, <1>8 DEF m, n

\* OncePerPath: no path is reported twice when no mount point is listed twice
\* and none is beside the prefix, for of two mount points with one path the one
\* outside of the prefix is left out.
THEOREM PathsOnce == Spec => []OncePerPath
<1>1. DiskInv => OncePerPath
  <2> SUFFICES ASSUME DiskInv, K!MountedOnce, K!NoneBeside,
                      NEW i \in DOMAIN shown, NEW j \in DOMAIN shown, shown[i] = shown[j]
               PROVE  i = j
    BY DEF OncePerPath, K!OncePerPath, K!IsInjective
  <2> DEFINE a == Ordered(UsableAt)[i]
             b == Ordered(UsableAt)[j]
  <2>1. /\ a \in WantedAt /\ a \in DOMAIN parts /\ shown[i] = K!Path(parts[a])
        /\ b \in WantedAt /\ b \in DOMAIN parts /\ shown[j] = K!Path(parts[b])
        /\ parts[a].mount \in K!Mount /\ parts[b].mount \in K!Mount
        /\ a = b => i = j
    BY PartsAt
  <2> HIDE DEF a, b
  <2>2. /\ ~K!Conflict(parts, parts[a])
        /\ ~K!Conflict(parts, parts[b])
    BY <2>1 DEF WantedAt, K!Wanted
  <2>3. parts[a].mount = parts[b].mount
    <3> SUFFICES ASSUME parts[a].mount # parts[b].mount PROVE FALSE
      OBVIOUS
    <3>1. \/ K!Lookup(parts[a]) = parts[b].mount /\ K!Lookup(parts[a]) # parts[a].mount
          \/ K!Lookup(parts[b]) = parts[a].mount /\ K!Lookup(parts[b]) # parts[b].mount
      BY <2>1, OnePathTwoMounts DEF K!NoneBeside
    <3> QED  BY <2>1, <2>2, <3>1 DEF K!Conflict
  <2> QED  BY <2>1, <2>3 DEF K!MountedOnce
<1> QED  BY <1>1, DiskHolds, PTL

\* NoMountTriggered: the usage of a mount point where only autofs is mounted is
\* not asked for, whichever name it is looked up by.
THEOREM TriggersNoMount == Spec => []NoMountTriggered
<1>1. DiskInv => NoMountTriggered
  <2> SUFFICES ASSUME DiskInv, NEW i \in DOMAIN asked,
                      NEW k \in DOMAIN parts, parts[k].mount = asked[i]
               PROVE  \E j \in DOMAIN parts : parts[j].mount = asked[i] /\ parts[j].fstype # "autofs"
    BY DEF NoMountTriggered, K!NoMountTriggered
  <2> DEFINE a == Ordered(WantedAt)[i]
  <2>1. a \in WantedAt /\ a \in DOMAIN parts /\ asked[i] = K!Lookup(parts[a])
    BY PartsAt
  <2> HIDE DEF a
  <2>2. parts[a].fstype # "autofs" /\ ~K!Conflict(parts, parts[a])
    BY <2>1 DEF WantedAt, K!Wanted
  <2>3. K!Lookup(parts[a]) = parts[a].mount
    BY <2>1, <2>2 DEF K!Conflict
  <2> QED  BY <2>1, <2>2, <2>3
<1> QED  BY <1>1, DiskHolds, PTL

-----------------------------------------------------------------------------
(* The daemon *)

\* Which instances the collector has, as HasInput tells it.
LEMMA PanelsTell ==
  ASSUME LoadInv PROVE Panels = {n \in PanelInputs : Has("input", n)}
<1>1. ASSUME NEW n PROVE n \in Range(inputs) <=> Has("input", n)
  <2> DEFINE S == OfKind("input")
             c == Cardinality(S)
             of == Select(instances, S)
             T == [section : DOMAIN doc, filtered : BOOLEAN]
  <2>1. inputs = [j \in DOMAIN of |-> doc[of[j].section].name]
    BY NamesToldIs DEF LoadInv, Names
  <2>2. instances \in Seq(T) /\ S \in SUBSET (DOMAIN instances)
    BY DEF LoadInv, LoadType, OfKind
  <2> HIDE DEF T
  <2>3. /\ S \in SUBSET Int /\ IsFiniteSet(S) /\ c \in Nat
        /\ of \in Seq(T) /\ Len(of) = c
        /\ \A i \in 1..c : of[i] = instances[Ordered(S)[i]]
    BY <2>2, SelectElems
  <2>4. /\ \A i \in 1..c : Ordered(S)[i] \in S
        /\ \A x \in S : \E i \in 1..c : Ordered(S)[i] = x
    BY <2>3, OrderedFacts
  <2>5. DOMAIN of = 1..c
    BY <2>3
  <2> HIDE DEF of, c
  <2>6. Range(inputs) = {doc[of[j].section].name : j \in 1..c}
    BY <2>1, <2>5 DEF Range
  <2>7. \A j \in DOMAIN instances :
          R!Named(doc[instances[j].section]) = <<"input", n>>
            <=> j \in S /\ doc[Given(j)].name = n
    BY DEF R!Named, OfKind, Given
  <2> HIDE DEF S
  <2>8. Has("input", n) <=> \E j \in S : doc[Given(j)].name = n
    BY <2>2, <2>7 DEF Has
  <2>9. \A i \in 1..c : doc[of[i].section].name = doc[Given(Ordered(S)[i])].name
    BY <2>3 DEF Given
  <2> QED  BY <2>4, <2>6, <2>8, <2>9
<1> QED  BY <1>1 DEF Panels

\* The collector runs with what LoadConfig loaded without an error.
LoadedInv == collector \in {"running", "stopped"} => load = "ok"

\* The OPC UA input, once added, is connected until the collector stops.
ConnectedInv ==
    /\ main \in {"config", "store", "build", "load", "wire", "serve", "run"}
    /\ Has("input", "opcua")
    => client = "connected"

\* The handlers are those of the configuration, each under a path of its own.
MuxInv == server # "nil" => mux = W!MuxOf(Panels) /\ ~W!Refused(Panels)

\* The configuration that is in use is the one that was read.
THEOREM HttpHolds == Spec => []HttpInv
<1>1. Init => HttpInv
  BY DEF Init, W!Init, HttpInv
<1>2. HttpInv /\ (StageType /\ StageInv) /\ [Next]_vars => HttpInv'
  BY HttpStep, WiringStepKinds
<1> QED  BY <1>1, <1>2, StagesHold, PTL DEF Spec

\* The collector is started only after LoadConfig, and what was loaded stays.
THEOREM LoadedHolds == Spec => []LoadedInv
<1>1. Init => LoadedInv
  BY DEF Init, W!Init, LoadedInv
<1>2. LoadedInv /\ (StageType /\ StageInv) /\ [Next]_vars => LoadedInv'
  <2> SUFFICES ASSUME LoadedInv, StageInv, [Next]_vars,
                      collector' \in {"running", "stopped"}
               PROVE  load' = "ok"
    BY DEF LoadedInv
  <2>1. CASE Start
    BY <2>1 DEF Start, Unchanged, loading
  <2>2. CASE Stopped
    BY <2>2 DEF Stopped, W!Stopped, Unchanged, loading, LoadedInv, StageInv
  <2>3. CASE collector' = collector
    <3>1. main # "load"
      BY <2>3 DEF StageInv
    <3> QED  BY <2>3, <3>1, LoadingStepKinds DEF LoadedInv, loading
  <2>4. CASE NewCollector
    BY <2>4 DEF NewCollector, W!NewCollector
  <2>5. Start \/ Stopped \/ NewCollector \/ collector' = collector
    <3>1. CASE Main
      BY <3>1 DEF Main, MainAlone, Unwind, BuildFails, LoadStep, AddOther, AddOpcua,
         AddDevices, LoadPanics, Serve, wiring, W!ReadConfig, W!ConfigEnds, W!SignalEarly,
         W!MakeStorage, W!OpenStorage, W!NoStorage, W!StorageFails, W!NoServer, W!ServerFails,
         W!Notify, W!Signal, W!CloseServer, W!CallStop, W!CloseStorage, W!Exit, W!LoadFails, W!Serve,
         W!WirePanics
    <3>2. CASE Collector
      BY <3>2 DEF Collector, GatherStarts, GatherGoesOn, DeInit, GatherNet, GatherDiskIO,
         GatherDisk, PeriodEnds, OtherProduct, PostEnds, wiring
    <3>3. CASE (\E d \in Devices : Plug(d)) \/ UNCHANGED vars
      BY <3>3 DEF Plug, vars, wiring
    <3> QED  BY <3>1, <3>2, <3>3 DEF Next
  <2> QED  BY <2>1, <2>2, <2>3, <2>4, <2>5
<1> QED  BY <1>1, <1>2, StagesHold, PTL DEF Spec

Early == {"config", "store", "build", "load", "wire", "serve", "run"}

\* main does not go back from its end.
LEMMA EarlyBefore ==
  ASSUME WiringStep \/ UNCHANGED wiring, main' \in Early PROVE main \in Early
  BY DEF Early, WiringStep, wiring, W!ReadConfig, W!ConfigEnds, W!SignalEarly,
     W!MakeStorage, W!OpenStorage, W!NoStorage, W!StorageFails, W!NoServer, W!ServerFails,
     W!Notify, W!Signal, W!CloseServer, W!CallStop, W!CloseStorage, W!Exit, W!NewCollector, W!LoadFails,
     W!Start, W!Serve, W!WirePanics, W!Stopped

\* A section adds an instance of its own name, or none and an error.
LEMMA HasGrows ==
  ASSUME LoadType, NEW ok \in BOOLEAN, R!AddSection(ok)
  PROVE  /\ \/ load' = "error" /\ instances' = instances
            \/ load' = "loading" /\ ok
         /\ \A kind, name : Has(kind, name)' =>
               Has(kind, name) \/ R!Named(doc[Head(sections)]) = <<kind, name>>
         /\ Head(sections) \in DOMAIN doc
<1> DEFINE h == Head(sections)
           e == [section |-> h, filtered |-> R!Filtered(h)]
           T == [section : DOMAIN doc, filtered : BOOLEAN]
<1>1. /\ load = "loading" /\ sections # <<>> /\ doc' = doc
      /\ IF R!SectionFails(h, ok)
         THEN load' = "error" /\ instances' = instances
         ELSE load' = load /\ instances' = Append(instances, e)
  BY DEF R!AddSection
<1>2. h \in DOMAIN doc
  BY <1>1 DEF LoadType
<1>3. CASE R!SectionFails(h, ok)
  BY <1>1, <1>2, <1>3 DEF Has
<1>4. CASE ~R!SectionFails(h, ok)
  <2>1. ok
    BY <1>4 DEF R!SectionFails
  <2>2. e \in T /\ e.section = h /\ instances \in Seq(T)
    BY <1>2 DEF R!Filtered, LoadType
  <2> HIDE DEF e, T, h
  <2>3. \A j \in DOMAIN instances' :
          \/ j \in DOMAIN instances /\ instances'[j] = instances[j]
          \/ instances'[j] = e
    BY <1>1, <1>4, <2>2, AppendAt
  <2>4. \A kind, name : Has(kind, name)' => Has(kind, name) \/ R!Named(doc[h]) = <<kind, name>>
    BY <1>1, <2>2, <2>3 DEF Has
  <2> QED  BY <1>1, <1>2, <1>4, <2>1, <2>4 DEF h
<1> QED  BY <1>3, <1>4

\* What was added is still there when LoadConfig rests.
LEMMA HasStays ==
  ASSUME UNCHANGED <<doc, instances>>
  PROVE  \A kind, name : Has(kind, name)' <=> Has(kind, name)
  BY DEF Has

\* ConnectedInv holds of every state of the daemon.
THEOREM ConnectedHolds == Spec => []ConnectedInv
<1>1. Init => ConnectedInv
  <2>1. R!Init => ~Has("input", "opcua")
    BY DEF R!Init, Has
  <2> QED  BY <2>1 DEF Init, ConnectedInv
<1>2. ConnectedInv /\ LoadInv /\ [Next]_vars => ConnectedInv'
  <2> SUFFICES ASSUME ConnectedInv, LoadInv, [Next]_vars,
                      main' \in Early, Has("input", "opcua")'
               PROVE  client' = "connected"
    BY DEF ConnectedInv, Early
  <2>1. main \in Early
    BY EarlyBefore, WiringStepKinds
  <2>2. LoadType
    BY DEF LoadInv
  <2>3. CASE Has("input", "opcua") /\ client' \in {client, "connected"}
    BY <2>1, <2>3 DEF ConnectedInv, Early
  <2>4. ASSUME NEW ok \in BOOLEAN, AddOpcua(ok) PROVE client' = "connected"
    <3>1. R!AddSection(ok) /\ client' = IF ok /\ load' = "loading" THEN "connected" ELSE client
      BY <2>4 DEF AddOpcua, O!InputInit
    <3>2. CASE load' = "loading" /\ ok
      BY <3>1, <3>2
    <3>3. CASE load' = "error" /\ instances' = instances
      <4>1. doc' = doc
        BY <3>1 DEF R!AddSection
      <4> QED  BY <2>3, <3>1, <3>3, <4>1, HasStays
    <3> QED  BY <2>2, <3>1, <3>2, <3>3, HasGrows
  <2>5. ASSUME NEW ok \in BOOLEAN, R!AddSection(ok), ~IsInput(Head(sections), {"opcua"}),
               client' = client
        PROVE  client' = "connected"
    <3>1. R!Named(doc[Head(sections)]) # <<"input", "opcua">>
      BY <2>5 DEF R!Named, IsInput
    <3> QED  BY <2>2, <2>3, <2>5, <3>1, HasGrows
  <2>6. CASE AddOther \/ \E ok \in BOOLEAN : AddDevices(ok)
    <3>1. \E ok \in BOOLEAN : R!AddSection(ok)
      BY <2>6 DEF AddOther, AddDevices
    <3>2. ~IsInput(Head(sections), {"opcua"}) /\ client' = client
      BY <2>6 DEF AddOther, AddDevices, Adding, IsInput, DeviceNames, opcua
    <3> QED  BY <2>5, <3>1, <3>2
  <2>7. CASE UNCHANGED <<doc, instances>> /\ client' \in {client, "connected"}
    BY <2>3, <2>7, HasStays
  <2>8. CASE LoadStep
    BY <2>7, <2>8 DEF LoadStep, opcua, R!NextKey, R!UnknownName, R!NotAnArray, R!Loaded
  <2>9. CASE MainAlone \/ Unwind \/ NewCollector \/ BuildFails \/ Start \/ LoadPanics \/ Serve
             \/ Stopped
    BY <2>7, <2>9 DEF MainAlone, Unwind, NewCollector, BuildFails, Start, LoadPanics, Serve,
                      Stopped, Unchanged, loading, opcua
  <2>10. CASE GatherGoesOn
    <3>1. client' \in {client, "connected"}
      BY <2>10 DEF GatherGoesOn, O!GatherStep, O!ConnectOk, O!ConnectFails, O!ReadNumber,
                   O!ReadOther, O!ReadFails
    <3> QED  BY <2>7, <2>10, <3>1 DEF GatherGoesOn, loading
  <2>11. CASE DeInit
    BY <2>1, <2>11 DEF DeInit, Early
  <2>12. CASE GatherStarts
    BY <2>7, <2>12 DEF GatherStarts, O!Gather, loading
  <2>13. CASE GatherNet \/ GatherDiskIO \/ (\E l \in Listings : GatherDisk(l))
              \/ (\E n \in Range(NodeList) : PeriodEnds(n))
              \/ (\E pd \in N!Product : OtherProduct(pd)) \/ PostEnds
    BY <2>7, <2>13 DEF GatherNet, GatherDiskIO, GatherDisk, PeriodEnds, OtherProduct, PostEnds,
                       loading, opcua
  <2>14. CASE (\E d \in Devices : Plug(d)) \/ UNCHANGED vars
    BY <2>7, <2>14 DEF Plug, vars, loading, opcua
  <2> QED
    BY <2>4, <2>6, <2>8, <2>9, <2>10, <2>11, <2>12, <2>13, <2>14 DEF Next, Main, Collector
<1> QED  BY <1>1, <1>2, LoadingHolds, PTL DEF Spec

\* RunsWhole: while the collector runs it has every input and output of the
\* configuration, and the OPC UA input, if there is one, is connected.
THEOREM RunsAll == Spec => []RunsWhole
<1>1. LoadedInv /\ LoadInv /\ EachSectionOnce /\ ConnectedInv => RunsWhole
  <2> SUFFICES ASSUME LoadedInv, LoadInv, EachSectionOnce, ConnectedInv, collector = "running"
               PROVE  /\ \A i \in DOMAIN doc :
                            R!Plugin(doc[i]) => \E j \in DOMAIN instances : instances[j].section = i
                      /\ main \in {"wire", "serve", "run"} /\ Has("input", "opcua") => client = "connected"
    BY DEF RunsWhole
  <2>1. R!Range([j \in DOMAIN instances |-> instances[j].section])
           = {i \in DOMAIN doc : R!Plugin(doc[i])}
    BY DEF LoadedInv, EachSectionOnce, R!EachSectionOnce
  <2>2. \A i \in DOMAIN doc :
           R!Plugin(doc[i]) => \E j \in DOMAIN instances : instances[j].section = i
    BY <2>1 DEF R!Range
  <2> QED  BY <2>2 DEF ConnectedInv
<1> QED  BY <1>1, LoadedHolds, LoadingHolds, LoadsEachOnce, ConnectedHolds, PTL

\* The handlers that main would register depend on the configuration read and
\* on the names of the inputs.
LEMMA MuxStays ==
  ASSUME UNCHANGED <<http, inputs>>
  PROVE  W!MuxOf(Panels)' = W!MuxOf(Panels) /\ (W!Refused(Panels)' <=> W!Refused(Panels))
<1>1. Panels' = Panels
  BY DEF Panels
<1>2. W!DashboardsServed' = W!DashboardsServed /\ W!HandlersServed' = W!HandlersServed
  BY DEF W!DashboardsServed, W!HandlersServed, W!WithPath, W!Made
<1>3. W!Registrations(Panels)' = W!Registrations(Panels)
  BY <1>1, <1>2 DEF W!Registrations
<1> QED  BY <1>3 DEF W!MuxOf, W!Refused

\* MuxInv holds of every state of the daemon.
THEOREM MuxHolds == Spec => []MuxInv
<1>1. Init => MuxInv
  BY DEF Init, W!Init, MuxInv
<1>2. MuxInv /\ (StageType /\ StageInv) /\ [Next]_vars => MuxInv'
  <2> SUFFICES ASSUME MuxInv, StageInv, [Next]_vars, server' # "nil"
               PROVE  mux' = W!MuxOf(Panels)' /\ ~W!Refused(Panels)'
    BY DEF MuxInv
  <2>1. main # "load" => UNCHANGED inputs
    BY LoadingStepKinds DEF loading
  <2>2. CASE W!Serve(Panels)
    <3>1. UNCHANGED <<http, inputs>> /\ mux' = W!MuxOf(Panels) /\ ~W!Refused(Panels)
      BY <2>1, <2>2 DEF W!Serve
    <3> QED  BY <3>1, MuxStays
  <2>3. CASE ~W!Serve(Panels)
    <3>1. server # "nil" /\ mux' = mux
      BY <2>3, WiringStepKinds DEF WiringStep, wiring, W!ReadConfig, W!ConfigEnds, W!SignalEarly,
         W!MakeStorage, W!OpenStorage, W!NoStorage, W!StorageFails, W!NoServer, W!ServerFails,
         W!Notify, W!Signal, W!CloseServer, W!CallStop, W!CloseStorage, W!Exit, W!NewCollector, W!LoadFails,
         W!Start, W!WirePanics, W!Stopped
    <3>2. main \notin {"config", "load"}
      BY <3>1 DEF StageInv
    <3>3. http' = http
      BY <2>3, <3>2, WiringStepKinds DEF WiringStep, wiring, W!ReadConfig, W!ConfigEnds,
         W!SignalEarly, W!MakeStorage, W!OpenStorage, W!NoStorage, W!StorageFails, W!NoServer,
         W!ServerFails, W!Notify, W!Signal, W!CloseServer, W!CallStop, W!CloseStorage, W!Exit,
         W!NewCollector, W!LoadFails, W!Start, W!WirePanics, W!Stopped
    <3> QED  BY <2>1, <3>1, <3>2, <3>3, MuxStays DEF MuxInv
  <2> QED  BY <2>2, <2>3
<1> QED  BY <1>1, <1>2, StagesHold, PTL DEF Spec

\* RoutesServed: while the server is up each path of the configuration has its
\* handler and no other has it, and a dashboard shows the inputs that gather.
THEOREM ServesRoutes == Spec => []RoutesServed
<1>1. (StageType /\ StageInv) /\ HttpInv /\ LoadInv /\ MuxInv => RoutesServed
  <2> SUFFICES ASSUME StageType, StageInv, HttpInv, LoadInv, MuxInv PROVE RoutesServed
    OBVIOUS
  <2>1. CASE server # "up"
    BY <2>1 DEF RoutesServed, W!RoutesServed
  <2>2. CASE server = "up"
    <3>1. file \in Files /\ http = HttpRead
      BY <2>2 DEF StageType, HttpInv
    <3>2. mux = W!MuxOf(Panels) /\ ~W!Refused(Panels)
      BY <2>2 DEF MuxInv
    <3>3. /\ W!RoutesServed
          /\ \A p \in DOMAIN mux : mux[p].kind = "dashboard" => mux[p].panels = Panels
      BY <3>1, <3>2, RoutesMade
    <3> QED  BY <3>3, PanelsTell DEF RoutesServed
  <2> QED  BY <2>1, <2>2
<1> QED  BY <1>1, StagesHold, HttpHolds, LoadingHolds, MuxHolds, PTL

-----------------------------------------------------------------------------
(* Types *)

\* The collector is given samples of configured nodes only.
SampledInv == sampled \subseteq Range(NodeList)

\* SampledInv holds of every state of the daemon.
THEOREM SampledHolds == Spec => []SampledInv
<1>1. Init => SampledInv
  BY DEF Init, SampledInv
<1>2. SampledInv /\ OpcuaInv /\ OpcuaInv' /\ [Next]_vars => SampledInv'
  <2> SUFFICES ASSUME SampledInv, OpcuaInv', [Next]_vars PROVE SampledInv'
    OBVIOUS
  <2>1. Range(gathered') \subseteq Range(NodeList)
    <3>1. gathered' \in Seq(Range(NodeList))
      BY DEF OpcuaInv, OpcuaType
    <3> HIDE DEF OpcuaInv
    <3>2. \A i \in DOMAIN gathered' : gathered'[i] \in Range(NodeList)
      BY <3>1
    <3> QED  BY <3>2 DEF Range
  <2>2. CASE Main
    BY <2>2 DEF Main, MainAlone, Unwind, NewCollector, BuildFails, Start, LoadPanics, Serve,
                Stopped, Unchanged, LoadStep, AddOther, AddOpcua, AddDevices, SampledInv
  <2>3. CASE GatherGoesOn
    BY <2>1, <2>3 DEF GatherGoesOn, SampledInv
  <2>4. CASE \E n \in Range(NodeList) : PeriodEnds(n)
    BY <2>4 DEF PeriodEnds, SampledInv
  <2>5. CASE Collector /\ ~GatherGoesOn /\ ~(\E n \in Range(NodeList) : PeriodEnds(n))
    BY <2>5 DEF Collector, GatherStarts, DeInit, GatherNet, GatherDiskIO, GatherDisk,
                OtherProduct, PostEnds, SampledInv
  <2>6. CASE (\E d \in Devices : Plug(d)) \/ UNCHANGED vars
    BY <2>6 DEF Plug, vars, SampledInv
  <2> QED  BY <2>2, <2>3, <2>4, <2>5, <2>6 DEF Next
<1> QED  BY <1>1, <1>2, OpcuaHolds, PTL DEF Spec

\* What Gather looks up and reports are mount points.
LEMMA DiskType == ASSUME DiskInv PROVE K!TypeOK
<1>1. \A p : p.mount \in K!Mount => K!Lookup(p) \in K!Mount /\ K!Path(p) \in K!Mount
  BY DEF K!Mount, K!Lookup, K!Path
<1> DEFINE M == K!Mount
<1>2. /\ \A i \in 1..Cardinality(WantedAt) : asked[i] \in M
      /\ \A i \in 1..Cardinality(UsableAt) : shown[i] \in M
  BY <1>1, PartsAt
<1> HIDE DEF M
<1>3. /\ Cardinality(WantedAt) \in Nat /\ Cardinality(UsableAt) \in Nat
      /\ asked = [i \in 1..Cardinality(WantedAt) |-> asked[i]]
      /\ shown = [i \in 1..Cardinality(UsableAt) |-> shown[i]]
  BY PartsAt DEF DiskInv
<1>4. asked \in Seq(M) /\ shown \in Seq(M)
  BY <1>2, <1>3, FunctionIsSeq
<1> QED  BY <1>4 DEF M, K!TypeOK, DiskInv

\* The configuration and what main defers have their types.
LEMMA WiringType ==
  ASSUME StageType, HttpInv PROVE W!TypeOK
<1>1. file.store \in {"", "sqlite", "files"}
  BY MetricalAssumption DEF W!WiringAssumption, StageType
<1>2. http # None =>
        http.dashboards \in Seq(W!Path \cup {W!NoPath, W!DefaultPath}) /\ http.handlers \in W!Handlers
  BY HttpType DEF HttpInv, StageType, Paths
<1>3. deferred \in Seq({"server", "stop"})
  <2>1. <<>> \in Seq({"server", "stop"}) /\ <<"stop">> \in Seq({"server", "stop"})
    OBVIOUS
  <2>2. <<"server", "stop">> \in Seq({"server", "stop"})
    OBVIOUS
  <2> QED  BY <2>1, <2>2, Zenon DEF StageType
<1> QED  BY <1>1, <1>2, <1>3 DEF StageType, W!TypeOK

\* TypeOK: the types of all variables of the daemon.
THEOREM TypeCorrect == Spec => []TypeOK
<1>1. /\ (StageType /\ StageInv) /\ HttpInv /\ LoadInv /\ OpcuaInv /\ NdjsonInv
      /\ DevicesInv /\ DiskInv /\ SampledInv
      => TypeOK
  <2>1. LoadInv => R!TypeOK
    BY DocType DEF LoadInv, LoadType, R!TypeOK
  <2> QED
    BY <2>1, WiringType, DiskType DEF OpcuaInv, OpcuaType, NdjsonInv, DevicesInv, SampledInv, TypeOK
<1> QED
  BY <1>1, StagesHold, HttpHolds, LoadingHolds, OpcuaHolds, NdjsonHolds, DevicesHold, DiskHolds,
     SampledHolds, PTL

=============================================================================
