------------------------------- MODULE Wiring -------------------------------
(***************************************************************************)
(* main (main.go) from its flags to its last deferred call: the layers of  *)
(* the configuration, the storage, the HTTP handlers and the server, and   *)
(* what is undone, in which order, when main ends.  Loading the inputs and *)
(* outputs, between NewCollector and Start, is LoadConfig's.               *)
(*                                                                         *)
(* A path of the configuration is a record: base is the path without the   *)
(* "/" at its end, if slash says that it has one.  The pattern made of it, *)
(* TrimSuffix(path, "/") + "/", is the subtree below its base.             *)
(***************************************************************************)
EXTENDS Integers, Sequences, Selections

CONSTANTS
    Files,     \* configuration files: [http, store], and what others read
    Openable,  \* the storages that have Open and Close
    None       \* a key that the file does not give

VARIABLES
    file,       \* the file named by -config
    main,       \* the stage main is at
    http,       \* mc.Http
    storage,    \* mc.Storage: "nil", "made", "open" or "closed"
    collector,  \* mc.Collector: "nil", "made", "running" or "stopped"
    mux,        \* the handlers: a function from patterns
    server,     \* "nil", "up", "failed" or "closed"
    deferred    \* the deferred calls of main, the next one first

vars == <<file, main, http, storage, collector, mux, server, deferred>>

Stages == {"config", "store", "build", "load", "wire", "serve", "run",
           "unwind", "stop", "close", "down", "killed"}

NoPath == [base |-> "", slash |-> FALSE]
DefaultPath == [base |-> "/dashboard", slash |-> FALSE]
Path == [base : STRING, slash : BOOLEAN]

\* The handlers beside dashboards, in the order of main: tails, terms, sshs
\* and ports.  made is FALSE for a port that webport.New (external) refuses.
Handlers == Seq([kind : {"tail", "term", "ssh", "port"}, path : Path, made : BOOLEAN])

WiringAssumption ==
    /\ Openable \subseteq {"sqlite", "files"}
    /\ \A f \in Files :
        /\ f.http.listen \in BOOLEAN \cup {None}
        /\ f.http.dashboards = None \/ f.http.dashboards \in Seq(Path \cup {None})
        /\ f.http.handlers \in Handlers
        /\ f.store \in {"", "sqlite", "files"}

Init ==
    /\ file \in Files
    /\ main = "config"
    /\ http = None
    /\ storage = "nil"
    /\ collector = "nil"
    /\ mux = <<>>
    /\ server = "nil"
    /\ deferred = <<>>

-----------------------------------------------------------------------------
(* Configuration and storage *)

\* metrical.toml, which is embedded; listen tells whether it is not "".
Default == [listen     |-> TRUE,
            dashboards |-> <<DefaultPath>>,
            handlers   |-> <<>>]

\* toml.Decode (external) into the slice of the defaults: a file without
\* dashboards keeps it, one dashboard without a path keeps the default path,
\* and a longer list gets a slice of its own.
Dashboards(given) ==
    IF given \in {None, <<None>>} THEN Default.dashboards
    ELSE [i \in DOMAIN given |-> IF given[i] = None THEN NoPath ELSE given[i]]

\* The file is decoded into the struct that holds the defaults.
ReadConfig ==
    /\ main = "config"
    /\ http' = [listen     |-> IF file.http.listen = None THEN Default.listen
                               ELSE file.http.listen,
                dashboards |-> Dashboards(file.http.dashboards),
                handlers   |-> file.http.handlers]
    /\ main' = "store"
    /\ UNCHANGED <<file, storage, collector, mux, server, deferred>>

\* -gen-config ends main; a file that cannot be read or decoded and a log file
\* that cannot be opened make it panic.
ConfigEnds ==
    /\ main = "config"
    /\ main' = "down"
    /\ UNCHANGED <<file, http, storage, collector, mux, server, deferred>>

MakeStorage ==
    /\ main = "store" /\ storage = "nil"
    /\ file.store # ""
    /\ storage' = "made"
    /\ main' = IF file.store \in Openable THEN "store" ELSE "build"
    /\ UNCHANGED <<file, http, collector, mux, server, deferred>>

OpenStorage ==
    /\ main = "store" /\ storage = "made"
    /\ storage' = "open"
    /\ main' = "build"
    /\ UNCHANGED <<file, http, collector, mux, server, deferred>>

NoStorage ==
    /\ main = "store"
    /\ file.store = ""
    /\ main' = "build"
    /\ UNCHANGED <<file, http, storage, collector, mux, server, deferred>>

\* NewStorage or Open returns an error: main panics.
StorageFails ==
    /\ main = "store" /\ file.store = "sqlite"
    /\ main' = "down"
    /\ UNCHANGED <<file, http, storage, collector, mux, server, deferred>>

-----------------------------------------------------------------------------
(* The collector *)

\* loadCollector makes the collector, or returns an error before it ...
NewCollector ==
    /\ main = "build"
    /\ collector' = "made"
    /\ main' = "load"
    /\ UNCHANGED <<file, http, storage, mux, server, deferred>>

\* ... or after it.  No call is deferred yet.
LoadFails ==
    /\ main \in {"build", "load"}
    /\ main' = "down"
    /\ UNCHANGED <<file, http, storage, collector, mux, server, deferred>>

\* Faulty variant: the calls that undo it are deferred with the server.
StartDefersLate ==
    /\ main = "load"
    /\ collector' = "running"
    /\ main' = "wire"
    /\ UNCHANGED <<file, http, storage, mux, server, deferred>>

\* Collector.Start; Stop and then Storage.Close are deferred.
Start ==
    /\ main = "load"
    /\ collector' = "running"
    /\ deferred' = <<"stop">> \o deferred
    /\ main' = "wire"
    /\ UNCHANGED <<file, http, storage, mux, server>>

-----------------------------------------------------------------------------
(* The handlers and the server *)

\* A dashboard without a path is not served.
WithPath == {i \in DOMAIN http.dashboards : http.dashboards[i] # NoPath}
DashboardsServed == Select(http.dashboards, WithPath)

\* A port that could not be made is passed over.
Made == {i \in DOMAIN http.handlers : http.handlers[i].made}
HandlersServed == Select(http.handlers, Made)

Subtree(p) == [base |-> p.base, below |-> TRUE]
Exact(base) == [base |-> base, below |-> FALSE]
Handler(kind, panels) == [kind |-> kind, panels |-> panels]

\* What main registers, in order, as pairs of a pattern and a handler.  Only
\* dashboards without a path are passed over: a tail without one gets "/".
Registrations(panels) ==
    [i \in DOMAIN DashboardsServed |->
        <<Subtree(DashboardsServed[i]), Handler("dashboard", panels)>>]
    \o [i \in DOMAIN HandlersServed |->
        <<Subtree(HandlersServed[i].path), Handler(HandlersServed[i].kind, {})>>]
    \o << <<[base |-> "/static", below |-> TRUE], Handler("static", {})>>,
          <<Exact("/favicon.ico"), Handler("favicon", {})>>,
          <<Exact("/debug/pprof"), Handler("pprof", {})>> >>

\* Faulty variant: the last registration of a pattern counts.
RefusedNever(panels) == FALSE

\* external: mux.Handle panics when a pattern comes twice.
Refused(panels) ==
    LET r == Registrations(panels)
    IN  \E i, j \in DOMAIN r : i < j /\ r[i][1] = r[j][1]

MuxOf(panels) ==
    LET r == Registrations(panels)
        last(p) == CHOOSE i \in DOMAIN r :
                       r[i][1] = p /\ \A j \in DOMAIN r : r[j][1] = p => j <= i
    IN  [p \in {r[i][1] : i \in DOMAIN r} |-> r[last(p)][2]]

NoServer ==
    /\ main = "wire" /\ ~http.listen
    /\ main' = "serve"
    /\ UNCHANGED <<file, http, storage, collector, mux, server, deferred>>

\* The server is made, its Close deferred, and ListenAndServe started.
Serve(panels) ==
    /\ main = "wire" /\ http.listen
    /\ ~Refused(panels)
    /\ mux' = MuxOf(panels)
    /\ server' = "up"
    /\ deferred' = <<"server">> \o deferred
    /\ main' = "serve"
    /\ UNCHANGED <<file, http, storage, collector>>

WirePanics(panels) ==
    /\ main = "wire" /\ http.listen
    /\ Refused(panels)
    /\ main' = "unwind"
    /\ UNCHANGED <<file, http, storage, collector, mux, server, deferred>>

\* ListenAndServe returns an error, which is only logged.
ServerFails ==
    /\ server = "up"
    /\ server' = "failed"
    /\ UNCHANGED <<file, main, http, storage, collector, mux, deferred>>

-----------------------------------------------------------------------------
(* The end of main *)

\* signal.Notify: from here on main waits for a signal.
Notify ==
    /\ main = "serve"
    /\ main' = "run"
    /\ UNCHANGED <<file, http, storage, collector, mux, server, deferred>>

Signal ==
    /\ main = "run"
    /\ main' = "unwind"
    /\ UNCHANGED <<file, http, storage, collector, mux, server, deferred>>

\* Before signal.Notify a signal ends the process, and nothing is undone.
SignalEarly ==
    /\ main \in {"config", "store", "build", "load", "wire", "serve"}
    /\ main' = "killed"
    /\ UNCHANGED <<file, http, storage, collector, mux, server, deferred>>

CloseServer ==
    /\ main = "unwind"
    /\ deferred # <<>> /\ Head(deferred) = "server"
    /\ server' = IF server = "up" THEN "closed" ELSE server
    /\ deferred' = Tail(deferred)
    /\ UNCHANGED <<file, main, http, storage, collector, mux>>

\* Faulty variant: Storage.Close is not kept until Stop has returned.
CallStopAndClose ==
    /\ main = "unwind"
    /\ deferred # <<>> /\ Head(deferred) = "stop"
    /\ deferred' = Tail(deferred)
    /\ storage' = IF storage = "open" THEN "closed" ELSE storage
    /\ main' = "stop"
    /\ UNCHANGED <<file, http, collector, mux, server>>

CallStop ==
    /\ main = "unwind"
    /\ deferred # <<>> /\ Head(deferred) = "stop"
    /\ deferred' = Tail(deferred)
    /\ main' = "stop"
    /\ UNCHANGED <<file, http, storage, collector, mux, server>>

\* Collector.Stop returns.
Stopped ==
    /\ main = "stop"
    /\ collector' = "stopped"
    /\ main' = "close"
    /\ UNCHANGED <<file, http, storage, mux, server, deferred>>

CloseStorage ==
    /\ main = "close"
    /\ storage' = IF storage = "open" THEN "closed" ELSE storage
    /\ main' = "unwind"
    /\ UNCHANGED <<file, http, collector, mux, server, deferred>>

Exit ==
    /\ main = "unwind"
    /\ deferred = <<>>
    /\ main' = "down"
    /\ UNCHANGED <<file, http, storage, collector, mux, server, deferred>>

-----------------------------------------------------------------------------
(* Properties *)

TypeOK ==
    /\ file.store \in {"", "sqlite", "files"}
    /\ main \in Stages
    /\ http # None =>
          /\ http.dashboards \in Seq(Path \cup {NoPath, DefaultPath})
          /\ http.handlers \in Handlers
    /\ storage \in {"nil", "made", "open", "closed"}
    /\ collector \in {"nil", "made", "running", "stopped"}
    /\ server \in {"nil", "up", "failed", "closed"}
    /\ deferred \in Seq({"server", "stop"})

\* A storage that is opened is open for all the time in which the collector
\* may load from it or store into it, and the server, whose requests send
\* their measures to the collector, does not outlive it.
OpenWhileUsed ==
    /\ collector \in {"made", "running"} /\ file.store \in Openable
          => storage = "open"
    /\ collector = "stopped" => server # "up"

\* When main is left, by its end or by a panic, no collector and no server
\* goes on, and a storage into which the collector stored is closed.  Also
\* when two handlers claim one path, which main finds out after Start.
NothingLeftOn ==
    main = "down" =>
        /\ collector # "running"
        /\ server # "up"
        /\ collector = "stopped" => storage # "open"

\* A server that is up serves each dashboard, tail, terminal and port that the
\* file gives a path (and a port that could be made), and its own static files,
\* each below that path: no default wins over the file, and no handler takes
\* the place of another.
RoutesServed ==
    server = "up" =>
        LET at(p, kind) == p \in DOMAIN mux /\ mux[p].kind = kind
            given == file.http.dashboards
        IN  /\ given # None =>
                  \A i \in DOMAIN given :
                      given[i] \notin {None, NoPath} => at(Subtree(given[i]), "dashboard")
            /\ \A i \in DOMAIN file.http.handlers :
                  LET h == file.http.handlers[i]
                  IN  h.made => at(Subtree(h.path), h.kind)
            /\ at([base |-> "/static", below |-> TRUE], "static")
            /\ Cardinality(DOMAIN mux) = 3 + Cardinality(WithPath) + Cardinality(Made)

=============================================================================
