----------------------------- MODULE MCMetrical -----------------------------
(* Instance of Metrical for TLC. *)
EXTENDS Metrical

MCTypes == <<
    [name |-> "disk", input |-> TRUE, output |-> FALSE],
    [name |-> "diskio", input |-> TRUE, output |-> FALSE],
    [name |-> "opcua", input |-> TRUE, output |-> FALSE],
    [name |-> "cpu", input |-> TRUE, output |-> FALSE],
    [name |-> "net", input |-> TRUE, output |-> FALSE],
    [name |-> "ndjson", input |-> FALSE, output |-> TRUE]>>

MCSection(kind, name, array, filter) ==
    [kind |-> kind, name |-> name, array |-> array, valid |-> TRUE, filter |-> filter]

MCSections == {
    MCSection("input", "cpu", TRUE, "none"),
    MCSection("input", "cpu", TRUE, "patterns"),
    MCSection("input", "cpu", FALSE, "none"),
    [MCSection("input", "cpu", TRUE, "none") EXCEPT !.valid = FALSE],
    MCSection("input", "opcua", TRUE, "none"),
    MCSection("output", "ndjson", TRUE, "none"),
    MCSection("output", "ndjson", TRUE, "malformed"),
    MCSection("input", "none", TRUE, "none"),
    MCSection("data", "filter", FALSE, "none"),
    MCSection("data", "filter", FALSE, "malformed")}

MCDeviceSections ==
    {MCSection("input", name, TRUE, "none") : name \in {"net", "diskio", "disk"}}

MCOtherSections == {
    MCSection("input", "cpu", TRUE, "none"),
    MCSection("input", "none", TRUE, "none"),
    [MCSection("data", "timeseries", TRUE, "none") EXCEPT !.valid = FALSE]}

AtMostOne(d, name) ==
    \A i, j \in DOMAIN d : d[i].name = name /\ d[j].name = name => i = j

\* A table is written once; the tables of an array, as [[input.cpu]], may be more.
TablesOnce(d) ==
    \A i, j \in DOMAIN d :
        i # j /\ d[i].name = d[j].name => d[i].array /\ d[j].array

\* Documents of up to three sections; of two when the OPC UA input is there,
\* which like the ndjson output is there at most once, and before it; and of
\* two sections, the first one of the inputs net, diskio and disk.
MCDocuments ==
    {d \in UNION {[1..n -> MCSections] : n \in 0..3} :
        /\ TablesOnce(d)
        /\ AtMostOne(d, "opcua") /\ AtMostOne(d, "ndjson")
        /\ (\E i \in DOMAIN d : d[i].name = "opcua") => Len(d) <= 2
        /\ \A i, j \in DOMAIN d :
              d[i].name = "opcua" /\ d[j].name = "ndjson" => i < j}
    \cup MCDeviceSections \X MCOtherSections

MCPath(base) == [base |-> base, slash |-> FALSE]
MCRoot == [base |-> "", slash |-> TRUE]
MCNoPath == [base |-> "", slash |-> FALSE]

MCHandler(kind, path) == [kind |-> kind, path |-> path, made |-> TRUE]

\* The keys of [http] given, empty and left out; paths that are apart, equal,
\* empty, the root, and one of those main itself needs; a refused port.
MCHttp ==
    [listen : {TRUE, FALSE, None},
     dashboards : {None, <<>>, <<None>>, <<MCPath("/x")>>, <<MCNoPath>>, <<MCRoot>>,
                   <<None, MCPath("/x")>>},
     handlers : {<<>>,
        <<MCHandler("tail", MCPath("/x"))>>,
        <<MCHandler("tail", MCNoPath), MCHandler("term", MCPath("/y"))>>,
        <<MCHandler("term", MCPath("/static"))>>,
        <<MCHandler("ssh", MCPath("/y")),
          [MCHandler("port", MCPath("/y")) EXCEPT !.made = FALSE]>>}]

MCNoServer == [listen |-> FALSE, dashboards |-> None, handlers |-> <<>>]
MCDefaultHttp == [listen |-> None, dashboards |-> None, handlers |-> <<>>]

MCFile(d, h, s) == [doc |-> d, http |-> h, store |-> s]
MCOnly(kind, name) == <<MCSection(kind, name, TRUE, "none")>>

\* Every document without server and storage; the two simplest with every
\* [http] and storage; and the OPC UA input and the ndjson output, which may be
\* at work when main ends, with both.
MCFiles ==
    {MCFile(d, MCNoServer, "") : d \in MCDocuments}
    \cup {MCFile(d, h, s) : d \in {<<>>, MCOnly("input", "cpu")}, h \in MCHttp,
                            s \in {"", "files", "sqlite"}}
    \cup {MCFile(d, MCDefaultHttp, "sqlite") :
            d \in {MCOnly("input", "opcua"), MCOnly("output", "ndjson")}}

TwoNodes == <<"n1", "n2">>

\* Four mount points, of which three have the same path, outside of, under and
\* beside HOST_MOUNT_PREFIX; configurations that ignore nothing, and too little.
MCMount(at, name) == [at |-> at, name |-> name]

MCMounts == {MCMount("outside", "a"), MCMount("host", "a"), MCMount("beside", "a"),
             MCMount("outside", "b")}

MCPartition(mount, fstype, opts, usage) ==
    [mount |-> mount, fstype |-> fstype, opts |-> opts, usage |-> usage]

MCPartitions ==
    {MCPartition(mount, "ext4", {}, "numbers") : mount \in MCMounts}
    \cup {MCPartition(MCMount(at, "a"), "autofs", {}, "numbers") :
             at \in {"host", "outside"}}
    \cup {MCPartition(MCMount("outside", "a"), "ext4", {"bind"}, "numbers"),
          MCPartition(MCMount("outside", "a"), "tmpfs", {"nobrowse"}, "numbers"),
          MCPartition(MCMount("host", "a"), "ext4", {}, "error"),
          MCPartition(MCMount("host", "a"), "ext4", {}, "dummy")}

MCListings == {<<>>} \cup (MCPartitions \X MCPartitions)

MCSettings ==
    {[prefix |-> p, mountPoints |-> m, ignoreFS |-> i[1], ignoreMountOpts |-> i[2]] :
        p \in BOOLEAN,
        m \in {{}, {MCMount("outside", "a")}},
        i \in {<<{}, {}>>, <<{"tmpfs"}, {"bind"}>>}}

=============================================================================
