---------------------------- MODULE WiringProofs ----------------------------
(***************************************************************************)
(* Proofs about the part of Metrical that Wiring specifies: the stages of  *)
(* main, what is open and deferred at each of them, and the handlers that  *)
(* the configuration leads to, for every configuration file.               *)
(***************************************************************************)
EXTENDS Metrical, SelectionProofs, SequenceTheorems

-----------------------------------------------------------------------------
(* Steps *)

\* What main and the server do.
WiringStep ==
    \/ W!ReadConfig \/ W!ConfigEnds \/ W!SignalEarly
    \/ W!MakeStorage \/ W!OpenStorage \/ W!NoStorage \/ W!StorageFails
    \/ W!NoServer \/ W!ServerFails \/ W!Notify \/ W!Signal
    \/ W!CloseServer \/ W!CallStop \/ W!CloseStorage \/ W!Exit
    \/ W!NewCollector \/ W!LoadFails \/ W!Start
    \/ W!Serve(Panels) \/ W!WirePanics(Panels) \/ W!Stopped

\* Every other step leaves the variables of Wiring alone.
LEMMA WiringStepKinds ==
  ASSUME [Next]_vars PROVE WiringStep \/ UNCHANGED wiring
<1>1. CASE Main
  <2>1. CASE MainAlone
    BY <2>1 DEF MainAlone, WiringStep
  <2>2. CASE Unwind
    BY <2>2 DEF Unwind, WiringStep
  <2>3. CASE NewCollector \/ BuildFails \/ Start \/ LoadPanics \/ Serve \/ Stopped
    BY <2>3 DEF NewCollector, BuildFails, Start, LoadPanics, Serve, Stopped, WiringStep
  <2>4. CASE LoadStep \/ AddOther \/ \E ok \in BOOLEAN : AddOpcua(ok) \/ AddDevices(ok)
    BY <2>4 DEF LoadStep, AddOther, AddOpcua, AddDevices
  <2> QED  BY <1>1, <2>1, <2>2, <2>3, <2>4 DEF Main
<1>2. CASE Collector
  BY <1>2 DEF Collector, GatherStarts, GatherGoesOn, DeInit, GatherNet, GatherDiskIO, GatherDisk,
              PeriodEnds, OtherProduct, PostEnds
<1>3. CASE \E d \in Devices : Plug(d)
  BY <1>3 DEF Plug
<1>4. CASE UNCHANGED vars
  BY <1>4 DEF vars
<1> QED  BY <1>1, <1>2, <1>3, <1>4 DEF Next

-----------------------------------------------------------------------------
(* The stages of main *)

\* A call that is deferred comes before those that are.
LEMMA TwoCalls ==
  ASSUME NEW a, NEW b PROVE <<a>> \o <<b>> = <<a, b>>
<1> DEFINE s == <<a>> \o <<b>>
<1>1. <<a>> \in Seq({a, b}) /\ <<b>> \in Seq({a, b})
  OBVIOUS
<1>2. s \in Seq({a, b}) /\ Len(s) = 2 /\ s[1] = a /\ s[2] = b
  BY <1>1, ConcatProperties
<1> HIDE DEF s
<1>3. s = <<a, b>>
  BY <1>2
<1> QED  BY <1>3 DEF s

Opened == file.store \in Openable => storage = "open"

\* What each stage of main has made, opened and deferred.  After a panic in
\* wire the server is not deferred, after the signal it is if it was made; what
\* is deferred is undone from the first to the last.
StageInv ==
    /\ main = "config" => storage = "nil" /\ collector = "nil"
    /\ main = "store" => storage \in {"nil", "made"} /\ collector = "nil"
    /\ main = "build" => Opened /\ collector = "nil"
    /\ main = "load" => Opened /\ collector = "made"
    /\ main \in {"config", "store", "build", "load"} => server = "nil" /\ deferred = <<>>
    /\ main = "wire" =>
          Opened /\ collector = "running" /\ server = "nil" /\ deferred = <<"stop">>
    /\ main \in {"serve", "run"} =>
          /\ Opened /\ collector = "running"
          /\ \/ server = "nil" /\ deferred = <<"stop">>
             \/ server \in {"up", "failed"} /\ deferred = <<"server", "stop">>
    /\ main = "unwind" =>
          \/ Opened /\ collector = "running" /\ deferred = <<"server", "stop">>
          \/ Opened /\ collector = "running" /\ deferred = <<"stop">> /\ server # "up"
          \/ collector = "stopped" /\ storage # "open" /\ deferred = <<>> /\ server # "up"
    /\ main = "stop" => Opened /\ collector = "running" /\ deferred = <<>> /\ server # "up"
    /\ main = "close" => collector = "stopped" /\ deferred = <<>> /\ server # "up"
    /\ main = "down" =>
          /\ server # "up"
          /\ \/ collector = "nil"
             \/ collector = "made" /\ Opened
             \/ collector = "stopped" /\ storage # "open"
    /\ main = "killed" =>
          /\ collector # "stopped"
          /\ collector \in {"made", "running"} => Opened

StageType ==
    /\ file \in Files
    /\ main \in W!Stages
    /\ storage \in {"nil", "made", "open", "closed"}
    /\ collector \in {"nil", "made", "running", "stopped"}
    /\ server \in {"nil", "up", "failed", "closed"}
    /\ deferred \in {<<>>, <<"stop">>, <<"server", "stop">>}

\* main begins with nothing.
LEMMA StageInit == W!Init => StageType /\ StageInv
  BY DEF W!Init, StageType, StageInv, W!Stages

\* Each statement of main leads from its stage to the next.
LEMMA StageStep ==
  ASSUME StageType, StageInv, WiringStep \/ UNCHANGED wiring
  PROVE  StageType' /\ StageInv'
<1> USE DEF StageType, StageInv, Opened, W!Stages
<1>0. Openable \subseteq {"sqlite", "files"} /\ file.store \in {"", "sqlite", "files"}
  BY MetricalAssumption DEF W!WiringAssumption
<1>1. CASE W!ReadConfig
  BY <1>1 DEF W!ReadConfig
<1>2. CASE W!ConfigEnds
  BY <1>2 DEF W!ConfigEnds
<1>3. CASE W!SignalEarly
  BY <1>3 DEF W!SignalEarly
<1>4. CASE W!MakeStorage
  BY <1>0, <1>4 DEF W!MakeStorage
<1>5. CASE W!OpenStorage
  BY <1>5 DEF W!OpenStorage
<1>6. CASE W!NoStorage
  BY <1>0, <1>6 DEF W!NoStorage
<1>7. CASE W!StorageFails
  BY <1>7 DEF W!StorageFails
<1>8. CASE W!NoServer
  BY <1>8 DEF W!NoServer
<1>9. CASE W!ServerFails
  BY <1>9 DEF W!ServerFails
<1>10. CASE W!Notify \/ W!Signal
  BY <1>10 DEF W!Notify, W!Signal
<1>11. CASE W!CloseServer
  <2>1. deferred = <<"server", "stop">> /\ Opened /\ collector = "running"
    BY <1>11 DEF W!CloseServer
  <2>2. Tail(<<"server", "stop">>) = <<"stop">>
    OBVIOUS
  <2>3. deferred' = <<"stop">> /\ server' # "up"
    BY <1>11, <2>1, <2>2 DEF W!CloseServer
  <2> QED  BY <1>11, <2>1, <2>3 DEF W!CloseServer
<1>12. CASE W!CallStop
  BY <1>12 DEF W!CallStop
<1>13. CASE W!CloseStorage
  BY <1>13 DEF W!CloseStorage
<1>14. CASE W!Exit
  BY <1>14 DEF W!Exit
<1>15. CASE W!NewCollector
  BY <1>15 DEF W!NewCollector
<1>16. CASE W!LoadFails
  BY <1>16 DEF W!LoadFails
<1>17. CASE W!Start
  BY <1>17 DEF W!Start
<1>18. CASE W!Serve(Panels)
  <2>1. <<"server">> \o <<"stop">> = <<"server", "stop">>
    BY TwoCalls
  <2>2. main = "wire" /\ deferred = <<"stop">> /\ deferred' = <<"server", "stop">>
    BY <1>18, <2>1 DEF W!Serve
  <2> QED  BY <1>18, <2>2 DEF W!Serve
<1>19. CASE W!WirePanics(Panels)
  BY <1>19 DEF W!WirePanics
<1>20. CASE W!Stopped
  BY <1>20 DEF W!Stopped
<1>21. CASE UNCHANGED wiring
  BY <1>21 DEF wiring
<1> QED
  BY <1>1, <1>2, <1>3, <1>4, <1>5, <1>6, <1>7, <1>8, <1>9, <1>10, <1>11, <1>12, <1>13, <1>14,
     <1>15, <1>16, <1>17, <1>18, <1>19, <1>20, <1>21 DEF WiringStep

\* Every stage of main has opened and deferred what it should have.
THEOREM StagesHold == Spec => [](StageType /\ StageInv)
<1>1. Init => StageType /\ StageInv
  BY StageInit DEF Init
<1>2. StageType /\ StageInv /\ [Next]_vars => (StageType /\ StageInv)'
  BY StageStep, WiringStepKinds
<1> QED  BY <1>1, <1>2, PTL DEF Spec

\* OpenWhileUsed: a storage that can be opened is open as long as the collector
\* may load from it or store into it, and the server does not outlive it.
THEOREM OpensForUse == Spec => []OpenWhileUsed
<1>1. StageType /\ StageInv => OpenWhileUsed
  BY DEF StageType, StageInv, Opened, W!Stages, OpenWhileUsed, W!OpenWhileUsed
<1> QED  BY <1>1, StagesHold, PTL

\* NothingLeftOn: when main has ended, whether by a signal, a panic or an error,
\* no collector and no server runs, and what was stored into is closed.
THEOREM LeavesNothingOn == Spec => []NothingLeftOn
<1>1. StageType /\ StageInv => NothingLeftOn
  BY DEF StageType, StageInv, W!Stages, NothingLeftOn, W!NothingLeftOn
<1> QED  BY <1>1, StagesHold, PTL

-----------------------------------------------------------------------------
(* The configuration *)

\* What ReadConfig makes of the file.
HttpRead ==
    [listen     |-> IF file.http.listen = None THEN W!Default.listen ELSE file.http.listen,
     dashboards |-> W!Dashboards(file.http.dashboards),
     handlers   |-> file.http.handlers]

HttpInv ==
    /\ http \in {None, HttpRead}
    /\ main \notin {"config", "down", "killed"} \/ server # "nil" => http = HttpRead

\* The file alone decides what the configuration is.
LEMMA HttpStep ==
  ASSUME StageInv, HttpInv, WiringStep \/ UNCHANGED wiring
  PROVE  HttpInv'
<1>1. file' = file
  BY DEF WiringStep, wiring, W!ReadConfig, W!ConfigEnds, W!SignalEarly,
         W!MakeStorage, W!OpenStorage, W!NoStorage, W!StorageFails,
         W!NoServer, W!ServerFails, W!Notify, W!Signal, W!CloseServer, W!CallStop, W!CloseStorage, W!Exit,
         W!NewCollector, W!LoadFails, W!Start, W!Serve, W!WirePanics, W!Stopped
<1>2. HttpRead' = HttpRead
  BY <1>1 DEF HttpRead
<1>3. CASE W!ReadConfig
  BY <1>2, <1>3 DEF HttpInv, HttpRead, W!ReadConfig
<1>4. CASE W!ConfigEnds \/ W!SignalEarly
  BY <1>2, <1>4 DEF HttpInv, W!ConfigEnds, W!SignalEarly
<1>5. CASE /\ http' = http
           /\ \/ main' = main /\ (server' # "nil" => server # "nil")
              \/ main \notin {"config", "down", "killed"}
  BY <1>2, <1>5 DEF HttpInv
<1>6. CASE UNCHANGED wiring
  BY <1>5, <1>6 DEF wiring
<1>7. WiringStep => W!ReadConfig \/ W!ConfigEnds \/ W!SignalEarly
                    \/ /\ http' = http
                       /\ \/ main' = main /\ (server' # "nil" => server # "nil")
                          \/ main \notin {"config", "down", "killed"}
  <2>1. W!ServerFails => http' = http /\ main' = main /\ server = "up"
    BY DEF W!ServerFails
  <2>2. \/ W!MakeStorage \/ W!OpenStorage \/ W!NoStorage \/ W!StorageFails
        \/ W!NoServer \/ W!Notify \/ W!Signal
        \/ W!CloseServer \/ W!CallStop \/ W!CloseStorage \/ W!Exit
        \/ W!NewCollector \/ W!LoadFails \/ W!Start
        \/ W!Serve(Panels) \/ W!WirePanics(Panels) \/ W!Stopped
        => http' = http /\ main \notin {"config", "down", "killed"}
    BY DEF W!MakeStorage, W!OpenStorage, W!NoStorage, W!StorageFails,
         W!NoServer, W!Notify, W!Signal, W!CloseServer, W!CallStop, W!CloseStorage, W!Exit,
         W!NewCollector, W!LoadFails, W!Start, W!Serve, W!WirePanics, W!Stopped
  <2> QED  BY <2>1, <2>2 DEF WiringStep
<1> QED  BY <1>3, <1>4, <1>5, <1>6, <1>7

\* The paths of dashboards: those of the file, none, and the default one.
Paths == W!Path \cup {W!NoPath, W!DefaultPath}

\* Every dashboard has a path after the defaults have been merged.
LEMMA HttpType ==
  ASSUME file \in Files
  PROVE  /\ HttpRead.dashboards \in Seq(Paths)
         /\ HttpRead.handlers \in W!Handlers
<1> DEFINE given == file.http.dashboards
<1>1. /\ given = None \/ given \in Seq(W!Path \cup {None})
      /\ file.http.handlers \in W!Handlers
  BY MetricalAssumption DEF W!WiringAssumption
<1>2. W!NoPath \in Paths /\ W!DefaultPath \in Paths /\ W!Path \subseteq Paths
  BY DEF Paths
<1> HIDE DEF given
<1>3. W!Dashboards(given) \in Seq(Paths)
  <2>1. CASE given \in {None, <<None>>}
    <3>1. W!Dashboards(given) = <<W!DefaultPath>>
      BY <2>1 DEF W!Dashboards, W!Default
    <3> QED  BY <1>2, <3>1
  <2>2. CASE given \notin {None, <<None>>}
    <3>1. given \in Seq(W!Path \cup {None})
      BY <1>1, <2>2
    <3>2. W!Dashboards(given) = [i \in 1..Len(given) |-> IF given[i] = None THEN W!NoPath ELSE given[i]]
      BY <2>2, <3>1 DEF W!Dashboards
    <3>3. \A i \in 1..Len(given) : (IF given[i] = None THEN W!NoPath ELSE given[i]) \in Paths
      BY <1>2, <3>1
    <3>4. Len(given) \in Nat
      BY <3>1
    <3> QED  BY <3>2, <3>3, <3>4
  <2> QED  BY <2>1, <2>2
<1> QED  BY <1>1, <1>3 DEF HttpRead, given

-----------------------------------------------------------------------------
(* The handlers *)

\* Wiring selects as Selections does.
LEMMA WiringSelects ==
  /\ \A S : W!Cardinality(S) = Cardinality(S)
  /\ \A s, S : W!Select(s, S) = Select(s, S)
<1>1. \A S : W!Cardinality(S) = Cardinality(S)
  BY DEF W!Cardinality, Cardinality
<1>2. \A S : W!Ordered(S) = Ordered(S)
  BY <1>1 DEF W!Ordered, Ordered, W!Listing, Listing
<1> QED  BY <1>1, <1>2 DEF W!Select, Select

\* The positions of three sequences in a row, the last one of three elements.
LEMMA ThreeParts ==
  ASSUME NEW E, NEW s \in Seq(E), NEW t \in Seq(E), NEW a \in E, NEW b \in E, NEW c \in E,
         NEW r, r = s \o t \o <<a, b, c>>, NEW n, n = Len(s) + Len(t)
  PROVE  /\ r \in Seq(E) /\ Len(r) = n + 3
         /\ \A i \in 1..Len(s) : r[i] = s[i]
         /\ \A i \in 1..Len(t) : r[Len(s) + i] = t[i]
         /\ r[n + 1] = a /\ r[n + 2] = b /\ r[n + 3] = c
<1> DEFINE u == s \o t
           v == <<a, b, c>>
<1>1. /\ u \in Seq(E) /\ Len(u) = n
      /\ \A i \in 1..n : u[i] = IF i <= Len(s) THEN s[i] ELSE t[i - Len(s)]
  BY ConcatProperties
<1>2. v \in Seq(E) /\ Len(v) = 3 /\ v[1] = a /\ v[2] = b /\ v[3] = c
  OBVIOUS
<1> HIDE DEF u, v
<1>3. /\ u \o v \in Seq(E) /\ Len(u \o v) = n + 3
      /\ \A i \in 1..(n + 3) : (u \o v)[i] = IF i <= n THEN u[i] ELSE v[i - n]
  <2>1. /\ u \o v \in Seq(E) /\ Len(u \o v) = Len(u) + Len(v)
        /\ \A i \in 1..Len(u) + Len(v) : (u \o v)[i] = IF i <= Len(u) THEN u[i] ELSE v[i - Len(u)]
    <3>1. u \in Seq(E) /\ v \in Seq(E)
      BY <1>1, <1>2
    <3> QED  BY <3>1, ConcatProperties
  <2> QED  BY <1>1, <1>2, <2>1
<1>4. Len(s) \in Nat /\ Len(t) \in Nat /\ n \in Nat
  OBVIOUS
<1>5. \A i \in 1..(n + 3) : r[i] = IF i <= n THEN u[i] ELSE v[i - n]
  BY <1>3 DEF u, v
<1>6. r[n + 1] = a /\ r[n + 2] = b /\ r[n + 3] = c
  BY <1>2, <1>4, <1>5
<1>7. \A i \in 1..n : r[i] = u[i]
  BY <1>4, <1>5
<1>8. \A i \in 1..Len(s) : r[i] = s[i]
  BY <1>1, <1>4, <1>7
<1>9. \A i \in 1..Len(t) : r[Len(s) + i] = t[i]
  <2> SUFFICES ASSUME NEW i \in 1..Len(t) PROVE r[Len(s) + i] = t[i]
    OBVIOUS
  <2>1. Len(s) + i \in 1..n /\ ~(Len(s) + i <= Len(s)) /\ (Len(s) + i) - Len(s) = i
    BY <1>4
  <2> QED  BY <1>1, <1>7, <2>1
<1> QED  BY <1>3, <1>6, <1>8, <1>9 DEF u, v

\* Registrations lists the dashboards and then the handlers that are served,
\* and three of main's own.
LEMMA RegistrationsShape ==
  ASSUME http.dashboards \in Seq(Paths), http.handlers \in W!Handlers, NEW panels
  PROVE  LET r == W!Registrations(panels)
             nd == Cardinality(W!WithPath)
             nh == Cardinality(W!Made)
         IN  /\ nd \in Nat /\ nh \in Nat
             /\ DOMAIN r = 1..(nd + nh + 3)
             /\ \A i \in 1..nd :
                   r[i] = <<W!Subtree(W!DashboardsServed[i]), W!Handler("dashboard", panels)>>
             /\ \A i \in 1..nh :
                   LET h == W!HandlersServed[i]
                   IN  h \in [kind : {"tail", "term", "ssh", "port"}, path : W!Path, made : BOOLEAN]
                       /\ r[nd + i] = <<W!Subtree(h.path), W!Handler(h.kind, {})>>
             /\ r[nd + nh + 1] = <<[base |-> "/static", below |-> TRUE], W!Handler("static", {})>>
             /\ r[nd + nh + 2] = <<W!Exact("/favicon.ico"), W!Handler("favicon", {})>>
             /\ r[nd + nh + 3] = <<W!Exact("/debug/pprof"), W!Handler("pprof", {})>>
             /\ \A i \in W!WithPath : \E j \in 1..nd : W!DashboardsServed[j] = http.dashboards[i]
             /\ \A i \in W!Made : \E j \in 1..nh : W!HandlersServed[j] = http.handlers[i]
<1> DEFINE ds == http.dashboards
           hs == http.handlers
           H == [kind : {"tail", "term", "ssh", "port"}, path : W!Path, made : BOOLEAN]
           D == W!DashboardsServed
           T == W!HandlersServed
           nd == Cardinality(W!WithPath)
           nh == Cardinality(W!Made)
<1>1. hs \in Seq(H) /\ ds \in Seq(Paths)
  BY DEF W!Handlers
<1>2. W!WithPath \subseteq DOMAIN ds /\ W!Made \subseteq DOMAIN hs
  BY DEF W!WithPath, W!Made
<1>3. /\ W!WithPath \in SUBSET Int /\ IsFiniteSet(W!WithPath) /\ nd \in Nat
      /\ Select(ds, W!WithPath) \in Seq(Paths) /\ Len(Select(ds, W!WithPath)) = nd
      /\ \A i \in 1..nd : Select(ds, W!WithPath)[i] = ds[Ordered(W!WithPath)[i]]
  BY <1>1, <1>2, SelectElems
<1>4. /\ W!Made \in SUBSET Int /\ IsFiniteSet(W!Made) /\ nh \in Nat
      /\ Select(hs, W!Made) \in Seq(H) /\ Len(Select(hs, W!Made)) = nh
      /\ \A i \in 1..nh : Select(hs, W!Made)[i] = hs[Ordered(W!Made)[i]]
  BY <1>1, <1>2, SelectElems
<1>5. D = Select(ds, W!WithPath) /\ T = Select(hs, W!Made)
  BY WiringSelects DEF W!DashboardsServed, W!HandlersServed
<1>6. \A i \in W!WithPath : \E j \in 1..nd : D[j] = ds[i]
  BY <1>3, <1>5, OrderedFacts
<1>7. \A i \in W!Made : \E j \in 1..nh : T[j] = hs[i]
  BY <1>4, <1>5, OrderedFacts
<1>8. DOMAIN D = 1..nd /\ DOMAIN T = 1..nh /\ T \in Seq(H)
  BY <1>3, <1>4, <1>5
<1> DEFINE f == [i \in DOMAIN D |-> <<W!Subtree(D[i]), W!Handler("dashboard", panels)>>]
           g == [i \in DOMAIN T |-> <<W!Subtree(T[i].path), W!Handler(T[i].kind, {})>>]
           a == <<[base |-> "/static", below |-> TRUE], W!Handler("static", {})>>
           b == <<W!Exact("/favicon.ico"), W!Handler("favicon", {})>>
           c == <<W!Exact("/debug/pprof"), W!Handler("pprof", {})>>
           E == {f[i] : i \in 1..nd} \cup {g[i] : i \in 1..nh} \cup {a, b, c}
           r == W!Registrations(panels)
<1>9. r = f \o g \o <<a, b, c>>
  BY DEF W!Registrations
<1>10. /\ \A i \in 1..nd : f[i] = <<W!Subtree(D[i]), W!Handler("dashboard", panels)>>
       /\ \A i \in 1..nh : g[i] = <<W!Subtree(T[i].path), W!Handler(T[i].kind, {})>>
  BY <1>8
<1>11. /\ DOMAIN f = 1..nd /\ DOMAIN g = 1..nh
  BY <1>8
<1> HIDE DEF ds, hs, H, D, T, nd, nh, a, b, c, r
<1>12. \A i \in 1..nh : T[i] \in H
  BY <1>4, <1>5
<1>13. f \in [1..nd -> {f[i] : i \in 1..nd}] /\ g \in [1..nh -> {g[i] : i \in 1..nh}]
  <2>1. f = [i \in DOMAIN f |-> f[i]]
    OBVIOUS
  <2>2. g = [i \in DOMAIN g |-> g[i]]
    OBVIOUS
  <2> HIDE DEF f, g
  <2> QED  BY <1>11, <2>1, <2>2
<1> HIDE DEF f, g
<1>14. /\ f \in Seq(E) /\ Len(f) = nd
       /\ g \in Seq(E) /\ Len(g) = nh
  <2>1. f \in [1..nd -> E] /\ g \in [1..nh -> E]
    BY <1>13
  <2> HIDE DEF E
  <2> QED  BY <1>3, <1>4, <2>1, FunctionIsSeq
<1>15. a \in E /\ b \in E /\ c \in E
  OBVIOUS
<1> HIDE DEF E
<1>16. /\ r \in Seq(E) /\ Len(r) = nd + nh + 3
       /\ \A i \in 1..nd : r[i] = f[i]
       /\ \A i \in 1..nh : r[nd + i] = g[i]
       /\ r[nd + nh + 1] = a /\ r[nd + nh + 2] = b /\ r[nd + nh + 3] = c
  <2> DEFINE q == f \o g \o <<a, b, c>>
             n == Len(f) + Len(g)
  <2>1. /\ q \in Seq(E) /\ Len(q) = n + 3
        /\ \A i \in 1..Len(f) : q[i] = f[i]
        /\ \A i \in 1..Len(g) : q[Len(f) + i] = g[i]
        /\ q[n + 1] = a /\ q[n + 2] = b /\ q[n + 3] = c
    <3>1. f \in Seq(E) /\ g \in Seq(E)
      BY <1>14
    <3> HIDE DEF q, n
    <3>2. q = f \o g \o <<a, b, c>> /\ n = Len(f) + Len(g)
      BY DEF q, n
    <3> QED  BY <1>15, <3>1, <3>2, ThreeParts, SMTT(60)
  <2> HIDE DEF q
  <2> QED  BY <1>9, <1>14, <2>1 DEF q
<1>17. DOMAIN r = 1..(nd + nh + 3)
  BY <1>16
<1> QED  BY <1>3, <1>4, <1>6, <1>7, <1>10, <1>12, <1>16, <1>17, Zenon DEF ds, hs, H, D, T, nd, nh, a, b, c, r

\* If no pattern comes twice, the mux has each registration under its pattern.
LEMMA MuxShape ==
  ASSUME NEW panels, NEW n \in Nat, DOMAIN W!Registrations(panels) = 1..n,
         ~W!Refused(panels)
  PROVE  LET r == W!Registrations(panels)
             m == W!MuxOf(panels)
         IN  /\ \A i \in 1..n : r[i][1] \in DOMAIN m /\ m[r[i][1]] = r[i][2]
             /\ \A p \in DOMAIN m : \E i \in 1..n : p = r[i][1]
             /\ Cardinality(DOMAIN m) = n
<1> DEFINE r == W!Registrations(panels)
           m == W!MuxOf(panels)
           last(p) == CHOOSE i \in DOMAIN r :
                         r[i][1] = p /\ \A j \in DOMAIN r : r[j][1] = p => j <= i
           P == {r[i][1] : i \in DOMAIN r}
<1>1. m = [p \in P |-> r[last(p)][2]]
  BY DEF W!MuxOf
<1>2. \A i, j \in DOMAIN r : i < j => r[i][1] # r[j][1]
  BY DEF W!Refused
<1> HIDE DEF r, m
<1>3. DOMAIN r = 1..n
  BY DEF r
<1>4. \A i, j \in 1..n : r[i][1] = r[j][1] => i = j
  BY <1>2, <1>3
<1>5. ASSUME NEW i \in 1..n PROVE last(r[i][1]) = i
  <2>1. \A j \in DOMAIN r : r[j][1] = r[i][1] => j <= i
    BY <1>3, <1>4
  <2>2. last(r[i][1]) \in DOMAIN r /\ r[last(r[i][1])][1] = r[i][1]
    BY <1>3, <2>1
  <2> HIDE DEF last
  <2> QED  BY <1>3, <1>4, <2>2
<1> HIDE DEF last
<1>6. \A i \in 1..n : r[i][1] \in P /\ m[r[i][1]] = r[i][2]
  BY <1>1, <1>3, <1>5
<1>7. DOMAIN m = P
  BY <1>1
<1>8. Cardinality(P) = n
  <2> DEFINE f == [i \in 1..n |-> r[i][1]]
  <2>1. f \in Bijection(1..n, P)
    <3>1. f \in [1..n -> P]
      BY <1>3
    <3>2. \A i, j \in 1..n : f[i] = f[j] => i = j
      BY <1>4
    <3>3. \A p \in P : \E i \in 1..n : f[i] = p
      BY <1>3
    <3> QED  BY <3>1, <3>2, <3>3 DEF Bijection, Injection, Surjection, IsInjective
  <2>2. ExistsBijection(1..n, P)
    BY <2>1 DEF ExistsBijection
  <2> HIDE DEF P
  <2> QED  BY <2>2, FS_CountingElements
<1> QED  BY <1>3, <1>6, <1>7, <1>8 DEF r, m

\* The places of the three parts.
LEMMA Positions ==
  ASSUME NEW a \in Nat, NEW b \in Nat
  PROVE  /\ \A i \in 1..a : i \in 1..(a + b + 3)
         /\ \A i \in 1..b : a + i \in 1..(a + b + 3)
         /\ a + b + 1 \in 1..(a + b + 3) /\ a + b + 2 \in 1..(a + b + 3)
         /\ a + b + 3 \in 1..(a + b + 3)
         /\ \A i \in 1..(a + b + 3) : \/ i \in 1..a \/ (i - a \in 1..b /\ a + (i - a) = i)
                                    \/ i = a + b + 1 \/ i = a + b + 2 \/ i = a + b + 3
OBVIOUS

\* When the mux is made of the configuration and no path is claimed twice, what
\* RoutesServed says of it holds, and its dashboards have the panels given.
LEMMA RoutesMade ==
  ASSUME file \in Files, http = HttpRead, NEW panels,
         mux = W!MuxOf(panels), ~W!Refused(panels)
  PROVE  /\ W!RoutesServed
         /\ \A p \in DOMAIN mux : mux[p].kind = "dashboard" => mux[p].panels = panels
<1> DEFINE r == W!Registrations(panels)
           nd == Cardinality(W!WithPath)
           nh == Cardinality(W!Made)
           n == nd + nh + 3
           ds == http.dashboards
           hs == http.handlers
           at(p, kind) == p \in DOMAIN mux /\ mux[p].kind = kind
<1>1. /\ ds \in Seq(Paths) /\ hs \in W!Handlers
      /\ ds = W!Dashboards(file.http.dashboards) /\ hs = file.http.handlers
  BY HttpType DEF HttpRead
<1>2. /\ nd \in Nat /\ nh \in Nat /\ DOMAIN r = 1..n
      /\ \A i \in 1..nd :
            r[i] = <<W!Subtree(W!DashboardsServed[i]), W!Handler("dashboard", panels)>>
      /\ \A i \in 1..nh :
            /\ W!HandlersServed[i].kind \in {"tail", "term", "ssh", "port"}
            /\ r[nd + i] = <<W!Subtree(W!HandlersServed[i].path),
                             W!Handler(W!HandlersServed[i].kind, {})>>
      /\ r[nd + nh + 1] = <<[base |-> "/static", below |-> TRUE], W!Handler("static", {})>>
      /\ r[nd + nh + 2] = <<W!Exact("/favicon.ico"), W!Handler("favicon", {})>>
      /\ r[nd + nh + 3] = <<W!Exact("/debug/pprof"), W!Handler("pprof", {})>>
      /\ \A i \in W!WithPath : \E j \in 1..nd : W!DashboardsServed[j] = ds[i]
      /\ \A i \in W!Made : \E j \in 1..nh : W!HandlersServed[j] = hs[i]
  BY <1>1, RegistrationsShape, ZenonT(60)
<1>3. \A kind, ps : W!Handler(kind, ps).kind = kind /\ W!Handler(kind, ps).panels = ps
  BY DEF W!Handler
<1> HIDE DEF r, ds, hs, nd, nh
<1>4. n \in Nat
  BY <1>2
<1> HIDE DEF n
<1>5. /\ \A i \in 1..n : r[i][1] \in DOMAIN mux /\ mux[r[i][1]] = r[i][2]
      /\ \A p \in DOMAIN mux : \E i \in 1..n : p = r[i][1]
      /\ Cardinality(DOMAIN mux) = n
  BY <1>2, <1>4, MuxShape, ZenonT(60) DEF r
<1>6. /\ \A i \in 1..nd : i \in 1..n
      /\ \A i \in 1..nh : nd + i \in 1..n
      /\ nd + nh + 1 \in 1..n /\ nd + nh + 2 \in 1..n /\ nd + nh + 3 \in 1..n
      /\ \A i \in 1..n : \/ i \in 1..nd \/ (i - nd \in 1..nh /\ nd + (i - nd) = i)
                         \/ i = nd + nh + 1 \/ i = nd + nh + 2 \/ i = nd + nh + 3
  BY <1>2, Positions DEF n
<1>7. ASSUME NEW i \in 1..nd PROVE at(W!Subtree(W!DashboardsServed[i]), "dashboard")
  <2>1. /\ r[i][1] = W!Subtree(W!DashboardsServed[i])
        /\ r[i][2] = W!Handler("dashboard", panels)
    BY <1>2
  <2>2. i \in 1..n
    BY <1>6
  <2> QED  BY <1>3, <1>5, <2>1, <2>2
<1>8. ASSUME NEW i \in 1..nh
      PROVE  at(W!Subtree(W!HandlersServed[i].path), W!HandlersServed[i].kind)
  <2>1. /\ r[nd + i][1] = W!Subtree(W!HandlersServed[i].path)
        /\ r[nd + i][2] = W!Handler(W!HandlersServed[i].kind, {})
    BY <1>2
  <2>2. nd + i \in 1..n
    BY <1>6
  <2> QED  BY <1>3, <1>5, <2>1, <2>2
<1>9. at([base |-> "/static", below |-> TRUE], "static")
  BY <1>2, <1>3, <1>5, <1>6
<1>10. ASSUME NEW given, given = file.http.dashboards, given # None, NEW i \in DOMAIN given,
              given[i] \notin {None, W!NoPath}
       PROVE  at(W!Subtree(given[i]), "dashboard")
  <2>1. given # <<None>>
    BY <1>10
  <2>2. ds = [j \in DOMAIN given |-> IF given[j] = None THEN W!NoPath ELSE given[j]]
    BY <1>1, <1>10, <2>1 DEF W!Dashboards
  <2>3. i \in DOMAIN ds /\ ds[i] = given[i]
    BY <1>10, <2>2
  <2>4. i \in W!WithPath
    BY <1>10, <2>3 DEF W!WithPath, ds
  <2>5. PICK j \in 1..nd : W!DashboardsServed[j] = ds[i]
    BY <1>2, <2>4
  <2> HIDE DEF at
  <2> QED  BY <1>7, <2>3, <2>5
<1>11. ASSUME NEW i \in DOMAIN file.http.handlers, file.http.handlers[i].made
       PROVE  at(W!Subtree(file.http.handlers[i].path), file.http.handlers[i].kind)
  <2>1. i \in W!Made
    BY <1>1, <1>11 DEF W!Made, hs
  <2>2. PICK j \in 1..nh : W!HandlersServed[j] = hs[i]
    BY <1>2, <2>1
  <2> HIDE DEF at
  <2> QED  BY <1>1, <1>8, <2>2
<1>12. Cardinality(DOMAIN mux) = 3 + nd + nh
  BY <1>2, <1>5 DEF n
<1>13. W!RoutesServed
  BY <1>9, <1>10, <1>11, <1>12, WiringSelects DEF W!RoutesServed, nd, nh
<1>14. ASSUME NEW p \in DOMAIN mux, mux[p].kind = "dashboard" PROVE mux[p].panels = panels
  <2>1. PICK i \in 1..n : p = r[i][1] /\ mux[p] = r[i][2]
    BY <1>5
  <2>2. CASE i \in 1..nd
    BY <1>2, <1>3, <2>1, <2>2
  <2>3. CASE i - nd \in 1..nh /\ nd + (i - nd) = i
    <3>1. mux[p] = W!Handler(W!HandlersServed[i - nd].kind, {})
      BY <1>2, <2>1, <2>3
    <3> QED  BY <1>2, <1>3, <1>14, <2>3, <3>1
  <2>4. CASE i = nd + nh + 1 \/ i = nd + nh + 2 \/ i = nd + nh + 3
    BY <1>2, <1>3, <1>14, <2>1, <2>4
  <2> QED  BY <1>6, <2>2, <2>3, <2>4
<1> QED  BY <1>13, <1>14

=============================================================================
