------------------------------ MODULE Metrical ------------------------------
(***************************************************************************)
(* The daemon from its configuration to its output: main opens the         *)
(* storage, loads the collector (loadCollector and registry.LoadConfig),   *)
(* serves the dashboards and undoes it all at the end; the collector calls *)
(* Gather of the inputs opcua, net, diskio and disk, and gives the         *)
(* products of each period to the ndjson output.  The collector is         *)
(* external.  Other inputs and outputs only appear as sections of the      *)
(* configuration.                                                          *)
(***************************************************************************)
EXTENDS Integers, Sequences, Functions

CONSTANTS
    Types,                                     \* of Registry
    Files, Openable,                           \* of Wiring; a file has a doc too
    NodeList, ConnRetryCount, ReadRetryCount,  \* of Opcua
    Kinds, Statuses, Dests, None,              \* of Ndjson
    Devices,                                   \* of Devices
    Settings, Listings                         \* of Disk

VARIABLES
    sampled,  \* external: the nodes with a sample in the current period
    \* of Wiring
    file, main, http, storage, collector, mux, server, deferred,
    \* of Registry
    doc, key, processed, sections, instances, inputs, outputs, load,
    \* of Opcua
    client, pc, node, connRetry, retry, gathered, outcome, connects, reads,
    ignored,
    \* of Ndjson
    dest, product, result, left, status,
    \* of Devices, for the one input net or diskio there may be
    pattern, perNIC, present, kept, listed, each, all, found,
    \* of Disk
    setting, parts, asked, shown

Documents == {f.doc : f \in Files}

W == INSTANCE Wiring
R == INSTANCE Registry
O == INSTANCE Opcua
N == INSTANCE Ndjson
V == INSTANCE Devices
K == INSTANCE Disk

DeviceNames == {"net", "diskio"}

\* Devices and Disk hold the state of one input.  The products of the nodes are
\* gauges.
ASSUME MetricalAssumption ==
    /\ W!WiringAssumption /\ R!RegistryAssumption /\ O!OpcuaAssumption /\ N!NdjsonAssumption
    /\ K!DiskAssumption
    /\ "gauge" \in Kinds
    /\ \A d \in Documents : \A names \in {DeviceNames, {"disk"}} :
          \A i, j \in DOMAIN d :
              d[i].name \in names /\ d[j].name \in names => i = j

loading == <<doc, key, processed, sections, instances, inputs, outputs, load>>
opcua   == <<client, pc, node, connRetry, retry, gathered, outcome, connects,
             reads, ignored>>
ndjson  == <<dest, product, result, left, status>>
devices == <<pattern, perNIC, present, kept, listed, each, all, found>>
disk    == <<setting, parts, asked, shown>>
wiring  == <<file, main, http, storage, collector, mux, server, deferred>>
vars    == <<wiring, sampled, loading, opcua, ndjson, devices, disk>>

InDocument(name) == \E i \in DOMAIN doc : doc[i].name = name

\* The keys of an input or output without a section have one value.
Init ==
    /\ W!Init
    /\ sampled = {}
    /\ R!Init
    /\ doc = file.doc
    /\ O!Init
    /\ N!Init
    /\ dest # "" => InDocument("ndjson")
    /\ V!Init
    /\ pattern # None => \E name \in DeviceNames : InDocument(name)
    /\ present # {} => \E name \in DeviceNames : InDocument(name)
    /\ perNIC => InDocument("net")
    /\ K!Init
    /\ setting # K!AnySetting => InDocument("disk")

-----------------------------------------------------------------------------
(* main *)

Unchanged == UNCHANGED <<sampled, loading, opcua, ndjson, devices, disk>>

\* What main does without the parts.
MainAlone ==
    /\ \/ W!ReadConfig \/ W!ConfigEnds \/ W!SignalEarly
       \/ W!MakeStorage \/ W!OpenStorage \/ W!NoStorage \/ W!StorageFails
       \/ W!NoServer \/ W!ServerFails \/ W!Notify \/ W!Signal
    /\ Unchanged

\* The deferred calls, but for the wait in Collector.Stop.
Unwind ==
    /\ W!CloseServer \/ W!CallStop \/ W!CloseStorage \/ W!Exit
    /\ Unchanged

\* A time series that NewSeriesID (external) refuses, or patterns of the filter
\* of the time series that do not compile.
DataFails ==
    \E i \in DOMAIN doc :
        doc[i].kind = "data" /\ (~doc[i].valid \/ doc[i].filter = "malformed")

\* The collector is made before the sections are looked at.
NewCollector == ~DataFails /\ W!NewCollector /\ Unchanged
BuildFails == main = "build" /\ DataFails /\ W!LoadFails /\ Unchanged

IsInput(i, names) == doc[i].kind = "input" /\ doc[i].name \in names

\* LoadConfig goes on; the OPC UA input connects when it is added, and net and
\* diskio list the devices.  Both may fail to; Init of the others succeeds.
LoadStep ==
    /\ main = "load"
    /\ R!NextKey \/ R!UnknownName \/ R!NotAnArray \/ R!Loaded
    /\ UNCHANGED <<wiring, sampled, opcua, ndjson, devices, disk>>

Adding(names) ==
    /\ main = "load"
    /\ sections # <<>> /\ IsInput(Head(sections), names)

AddOpcua(ok) ==
    /\ Adding({"opcua"})
    /\ R!AddSection(ok)
    /\ O!InputInit(ok /\ load' = "loading")
    /\ UNCHANGED <<wiring, sampled, ndjson, devices, disk>>

AddDevices(ok) ==
    /\ Adding(DeviceNames)
    /\ R!AddSection(ok)
    /\ IF load' = "loading" THEN V!InputInit ELSE UNCHANGED devices
    /\ UNCHANGED <<wiring, sampled, opcua, ndjson, disk>>

AddOther ==
    /\ main = "load"
    /\ sections # <<>> /\ ~IsInput(Head(sections), {"opcua"} \cup DeviceNames)
    /\ R!AddSection(TRUE)
    /\ UNCHANGED <<wiring, sampled, opcua, ndjson, devices, disk>>

Start == load = "ok" /\ W!Start /\ Unchanged

\* main panics when loadCollector returns an error or panics itself.
LoadPanics ==
    main = "load" /\ load \in {"error", "panic"} /\ W!LoadFails /\ Unchanged

\* makeDashboard: the inputs that a dashboard has a panel for.
PanelInputs == {"load", "cpu", "mem", "disk", "go_runtime", "net", "netstat", "diskio"}

\* HasInput asks for the names that LoadConfig returned.
Panels == PanelInputs \cap Range(inputs)

Serve == (W!Serve(Panels) \/ W!WirePanics(Panels)) /\ Unchanged

-----------------------------------------------------------------------------
(* external: the collector *)

Has(kind, name) ==
    \E j \in DOMAIN instances : R!Named(doc[instances[j].section]) = <<kind, name>>

Running == collector = "running" /\ main \notin {"down", "killed"}

\* Gather of the input, at a sampling interval.  The order of the last Gather
\* and of DeInit is the collector's, so both are allowed.
GatherStarts ==
    /\ Running
    /\ Has("input", "opcua")
    /\ O!Gather
    /\ UNCHANGED <<wiring, sampled, loading, ndjson, devices, disk>>

\* A step of Gather; what was added counts when Gather has returned.
GatherGoesOn ==
    /\ Running
    /\ O!GatherStep
    /\ sampled' = IF pc' = "idle" THEN sampled \cup Range(gathered') ELSE sampled
    /\ UNCHANGED <<wiring, loading, ndjson, devices, disk>>

\* external: a device is plugged in, or taken away.
Plug(d) ==
    /\ main \notin {"down", "killed"}
    /\ \E name \in DeviceNames : InDocument(name)
    /\ V!Plug(d)
    /\ UNCHANGED <<wiring, sampled, loading, opcua, ndjson, disk>>

GatherNet ==
    /\ Running
    /\ Has("input", "net")
    /\ V!NetGather
    /\ UNCHANGED <<wiring, sampled, loading, opcua, ndjson, disk>>

GatherDiskIO ==
    /\ Running
    /\ Has("input", "diskio")
    /\ V!DiskIOGather
    /\ UNCHANGED <<wiring, sampled, loading, opcua, ndjson, disk>>

GatherDisk(l) ==
    /\ Running
    /\ Has("input", "disk")
    /\ K!Gather(l)
    /\ UNCHANGED <<wiring, sampled, loading, opcua, ndjson, devices>>

\* Collector.Stop calls DeInit.
DeInit ==
    /\ main = "stop"
    /\ Has("input", "opcua")
    /\ O!DeInit
    /\ UNCHANGED <<wiring, sampled, loading, ndjson, devices, disk>>

Stopped == pc = "idle" /\ result # "posting" /\ W!Stopped /\ Unchanged

\* A period of a node ends: its product, a gauge, goes to the output.
PeriodEnds(n) ==
    /\ Running
    /\ Has("output", "ndjson")
    /\ \E finite \in BOOLEAN :
          N!Process([kind |-> "gauge", sampled |-> n \in sampled, finite |-> finite])
    /\ sampled' = sampled \ {n}
    /\ UNCHANGED <<wiring, loading, opcua, devices, disk>>

\* The product of another input.
OtherProduct(pd) ==
    /\ Running
    /\ Has("output", "ndjson")
    /\ N!Process(pd)
    /\ UNCHANGED <<wiring, sampled, loading, opcua, devices, disk>>

PostEnds ==
    /\ Running
    /\ N!PostFails \/ (\E code \in Statuses : N!Answered(code))
    /\ UNCHANGED <<wiring, sampled, loading, opcua, devices, disk>>

-----------------------------------------------------------------------------
Main ==
    \/ MainAlone \/ Unwind
    \/ NewCollector \/ BuildFails
    \/ LoadStep \/ AddOther
    \/ \E ok \in BOOLEAN : AddOpcua(ok) \/ AddDevices(ok)
    \/ Start \/ LoadPanics \/ Serve \/ Stopped

Collector ==
    \/ GatherStarts \/ GatherGoesOn \/ DeInit
    \/ GatherNet \/ GatherDiskIO
    \/ \E l \in Listings : GatherDisk(l)
    \/ \E n \in Range(NodeList) : PeriodEnds(n)
    \/ \E pd \in N!Product : OtherProduct(pd)
    \/ PostEnds

Next == Main \/ Collector \/ \E d \in Devices : Plug(d)

\* The goroutine that gathers runs, and its client's Connect and Read return:
\* the library ends them with an error after a time.  Deferred calls run, and
\* the collector (external) stops when it has come between two Gathers and two
\* products often enough.  Nothing else need happen: http.DefaultClient has no
\* timeout, so a post may stay without an answer.
Fairness ==
    /\ WF_vars(GatherGoesOn)
    /\ WF_vars(Unwind)
    /\ SF_vars(Stopped)

Spec == Init /\ [][Next]_vars /\ Fairness

-----------------------------------------------------------------------------
(* Properties *)

TypeOK ==
    /\ W!TypeOK
    /\ sampled \subseteq Range(NodeList)
    /\ R!TypeOK
    /\ O!TypeOK
    /\ N!TypeOK
    /\ V!TypeOK
    /\ K!TypeOK

\* The properties of the components, with the others running beside them.
EachSectionOnce == R!EachSectionOnce
NamesTold == R!NamesTold
GatherComplete == O!GatherComplete
AttemptsBounded == O!AttemptsBounded
UnansweredReported == N!UnansweredReported
FoundFollowed == V!FoundFollowed
OncePerPath == K!OncePerPath
NoMountTriggered == K!NoMountTriggered
ReportsConfigured == V!ReportsConfigured
OpenWhileUsed == W!OpenWhileUsed
NothingLeftOn == W!NothingLeftOn

\* Gather returns, whatever the server does, unless a signal that main does
\* not yet wait for ends the process.
GatherReturns == pc # "idle" ~> (pc = "idle" \/ main = "killed")

\* A signal, or a panic while the handlers are registered, ends the daemon in
\* the end, unless the ndjson output is at a post again and again or for ever:
\* retries of a read and a lost connection do not hold it up for good.
SignalEnds == []<>(result = "posting") \/ (main = "unwind" ~> main = "down")

\* While the collector runs it has every input and output of the
\* configuration, and one that could not be initialised never runs: a daemon
\* that gathers only a part of its configuration does not exist.
RunsWhole ==
    collector = "running" =>
        /\ \A i \in DOMAIN doc :
              R!Plugin(doc[i]) => \E j \in DOMAIN instances : instances[j].section = i
        /\ main \in {"wire", "serve", "run"} /\ Has("input", "opcua") => client = "connected"

\* While the server is up every handler of the configuration has its path, and
\* each dashboard has a panel for exactly those inputs with one that gather.
RoutesServed ==
    /\ W!RoutesServed
    /\ server = "up" =>
        \A p \in DOMAIN mux : mux[p].kind = "dashboard" =>
            mux[p].panels = {n \in PanelInputs : Has("input", n)}

=============================================================================
