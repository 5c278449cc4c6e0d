------------------------------ MODULE Devices ------------------------------
(***************************************************************************)
(* The inputs net (input/ps/net.go) and diskio (input/diskio/diskio.go).   *)
(* Init lists the devices there are and keeps those its patterns match;    *)
(* Gather reports the counters of the devices kept.  Devices, network      *)
(* interfaces or disks, come and go meanwhile.                             *)
(*                                                                         *)
(* The counters are abstracted to the devices they are taken from.         *)
(***************************************************************************)
EXTENDS Integers

CONSTANTS
    Devices,
    None

VARIABLES
    pattern,  \* what "interfaces" or "devices" matches; None without patterns
    perNIC,   \* Net.PerNIC
    present,  \* external: the devices there are
    kept,     \* Net.iface, DiskIO.devices
    \* the last Gather: the devices there were, the devices reported one by
    \* one, and those summed up in net:all
    listed, each, all,
    found     \* history: the devices Init kept

vars == <<pattern, perNIC, present, kept, listed, each, all, found>>

Init ==
    /\ pattern \in SUBSET Devices \cup {None}
    /\ perNIC \in BOOLEAN
    /\ present \in SUBSET Devices
    /\ kept = {}
    /\ listed = {}
    /\ each = {}
    /\ all = {}
    /\ found = {}

\* external: a device is plugged in, or taken away.
Plug(d) ==
    /\ present' = IF d \in present THEN present \ {d} ELSE present \cup {d}
    /\ UNCHANGED <<pattern, perNIC, kept, listed, each, all, found>>

-----------------------------------------------------------------------------
Configured == IF pattern = None THEN Devices ELSE pattern

\* Init of the input.
InputInit ==
    /\ kept' = present \cap Configured
    /\ found' = kept'
    /\ UNCHANGED <<pattern, perNIC, present, listed, each, all>>

\* The devices a Gather takes: with none kept, all there are.
Taken == IF kept = {} THEN present ELSE present \cap kept

\* Faulty variant: what is not there any more is kept no longer.
NetGatherForgets ==
    /\ listed' = present
    /\ all' = Taken
    /\ each' = IF perNIC THEN Taken ELSE {}
    /\ kept' = kept \cap present
    /\ UNCHANGED <<pattern, perNIC, present, found>>

NetGather ==
    /\ listed' = present
    /\ all' = Taken
    /\ each' = IF perNIC THEN Taken ELSE {}
    /\ UNCHANGED <<pattern, perNIC, present, kept, found>>

\* IOCounters (external) takes the names, and lists all disks without names.
DiskIOGather ==
    /\ listed' = present
    /\ each' = Taken
    /\ UNCHANGED <<pattern, perNIC, present, kept, all, found>>

Next ==
    \/ \E d \in Devices : Plug(d)
    \/ InputInit
    \/ NetGather \/ DiskIOGather

Spec == Init /\ [][Next]_vars

-----------------------------------------------------------------------------
(* Properties *)

TypeOK ==
    /\ pattern \in SUBSET Devices \cup {None}
    /\ perNIC \in BOOLEAN
    /\ present \subseteq Devices
    /\ kept \subseteq Configured
    /\ listed \subseteq Devices
    /\ each \subseteq listed
    /\ all \subseteq listed
    /\ found \subseteq Configured

\* A device that Init found is in every Gather for as long as it is there, also
\* when it was away in between.  Once Init has found one, nothing outside of the
\* patterns is reported, and net:all is the sum of the interfaces that are
\* reported one by one.
FoundFollowed ==
    /\ found \cap listed \subseteq each \cup all
    /\ found # {} => each \cup all \subseteq Configured
    /\ perNIC => each = all

\* net.toml:2, diskio.toml:2, devices "to monitor, empty for all": the devices
\* reported are those that are there and that the patterns match, and all when
\* there are no patterns, whenever a device was plugged in.
ReportsConfigured == each \cup all = listed \cap Configured

=============================================================================
