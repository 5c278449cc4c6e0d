-------------------------------- MODULE Disk --------------------------------
(***************************************************************************)
(* The disk input (input/disk/disk.go).  Gather lists the partitions,      *)
(* leaves out those the configuration ignores, and asks for the usage of   *)
(* the others.  In a container HOST_MOUNT_PREFIX names the directory under *)
(* which the file systems of the host are mounted: a mount point outside   *)
(* it is looked up under it, and is reported without it.                   *)
(***************************************************************************)
EXTENDS Integers, Sequences, Functions, Selections

CONSTANTS
    Settings,  \* configurations
    Listings   \* what disk.Partitions (external) may return

VARIABLES
    setting,  \* the configuration
    parts,    \* the partitions of the last Gather
    asked,    \* the mount points it gave to disk.Usage, in order
    shown     \* the paths it reported, in order

vars == <<setting, parts, asked, shown>>

\* A mount point is under HOST_MOUNT_PREFIX ("host"), or outside of it, or it
\* only begins with its letters ("beside": "/hostile" where the prefix is
\* "/host").  usage is what disk.Usage returns: an error, a total of 0, or numbers.
Mount == [at : {"host", "outside", "beside"}, name : STRING]
Partition == [mount : Mount, fstype : STRING, opts : SUBSET STRING,
              usage : {"error", "dummy", "numbers"}]
Setting == [prefix : BOOLEAN, mountPoints : SUBSET Mount,
            ignoreFS : SUBSET STRING, ignoreMountOpts : SUBSET STRING]

DiskAssumption ==
    /\ \A l \in Listings : l \in Seq(Partition)
    /\ Settings \subseteq Setting

AnySetting == CHOOSE s \in Settings : TRUE

Init ==
    /\ setting \in Settings
    /\ parts = <<>>
    /\ asked = <<>>
    /\ shown = <<>>

-----------------------------------------------------------------------------
\* Where the usage of a partition is looked up: strings.HasPrefix takes a mount
\* point beside the prefix for one under it.
Lookup(p) ==
    IF setting.prefix /\ p.mount.at = "outside"
    THEN [p.mount EXCEPT !.at = "host"] ELSE p.mount

\* The path it is reported with, without the letters of the prefix.
Path(p) ==
    IF setting.prefix THEN [p.mount EXCEPT !.at = "outside"] ELSE p.mount

\* Faulty variant: conflicting paths are not excluded.
ConflictIgnored(l, p) == FALSE

\* The partition is looked up where another one of the list is mounted.
Conflict(l, p) ==
    Lookup(p) # p.mount /\ \E i \in DOMAIN l : l[i].mount = Lookup(p)

\* Faulty variant: ignore_fs replaces what is always excluded.
WantedAutofs(l, p) ==
    /\ p.opts \cap setting.ignoreMountOpts = {}
    /\ setting.mountPoints # {} => p.mount \in setting.mountPoints
    /\ p.fstype \notin
          IF setting.ignoreFS = {} THEN {"autofs"} ELSE setting.ignoreFS
    /\ ~Conflict(l, p)

Wanted(l, p) ==
    /\ p.opts \cap setting.ignoreMountOpts = {}
    /\ setting.mountPoints # {} => p.mount \in setting.mountPoints
    /\ p.fstype \notin setting.ignoreFS \cup {"autofs"}
    /\ ~Conflict(l, p)

Reported(p) == p.usage = "numbers" /\ "nobrowse" \notin p.opts

\* Gather, with DiskUsage.  An error of disk.Partitions ends it: no step.
Gather(l) ==
    LET positions == {i \in DOMAIN l : Wanted(l, l[i])}
        wanted == Select(l, positions)
        usable == Select(l, {i \in positions : Reported(l[i])})
    IN  /\ parts' = l
        /\ asked' = [i \in DOMAIN wanted |-> Lookup(wanted[i])]
        /\ shown' = [i \in DOMAIN usable |-> Path(usable[i])]
        /\ UNCHANGED setting

Next == \E l \in Listings : Gather(l)

Spec == Init /\ [][Next]_vars

-----------------------------------------------------------------------------
(* Properties *)

TypeOK ==
    /\ setting \in Settings
    /\ parts \in Listings \cup {<<>>}
    /\ asked \in Seq(Mount)
    /\ shown \in Seq(Mount)

MountedOnce == \A i, j \in DOMAIN parts : parts[i].mount = parts[j].mount => i = j

NoneBeside ==
    setting.prefix => \A i \in DOMAIN parts : parts[i].mount.at # "beside"

\* When no mount point is listed twice, no path is reported twice, though two
\* mount points, inside and outside of HOST_MOUNT_PREFIX, have one path: the
\* metrics of a file system are not those of another one.  A mount point that
\* only begins with the letters of the prefix can still be reported with the
\* path of another one.
OncePerPath == MountedOnce /\ NoneBeside => IsInjective(shown)

\* disk.go: "Ignore the autofs partition to avoid triggering a mount."  The
\* usage of a mount point where only autofs is mounted is never asked for,
\* not even when a partition outside of HOST_MOUNT_PREFIX is looked up there.
NoMountTriggered ==
    \A i \in DOMAIN asked :
        LET there == {j \in DOMAIN parts : parts[j].mount = asked[i]}
        IN  there # {} => \E j \in there : parts[j].fstype # "autofs"

=============================================================================
