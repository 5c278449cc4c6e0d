# A TLA+ model of metrical

metrical is a daemon that collects metrics: inputs are gathered at a sampling
interval, the collector aggregates what they report into time series and
products, the time series are stored in SQLite and drawn on an HTTP dashboard,
and the products go to outputs. This directory holds TLA+ specifications of the
parts with a protocol of their own, the TLC configurations that check them, and
proofs that TLAPS checks.

The code has one dependency that decides much of what it does and is not in the
repository: the library `github.com/OutOfBedlam/metric` (the collector, its
time series and its filters). The specifications treat it as *external*: they
let it do whatever the code in `src/` allows for, and every definition that
stands for it says so.

## The system and its parts

| part | state | operations | talks to |
|---|---|---|---|
| **SQLite storage** `store/sqlite/sqlite.go` | `db`, `wChan`, `tables`; the database file | `NewStorage`, `Open`, `Close`, `Store`, `Load`; the goroutine `runWriteLoop` (`write`, `shrink`, ticker) | collector calls `Store` and `Load`; `main` calls `Open` and `Close` |
| **main** `main.go` | `Metrical` (configuration, collector, storage); its mux, server and deferred calls | decode the defaults and the file, open the storage, load the collector, start it, register the handlers, serve HTTP, wait for a signal, close the server, stop the collector, close the storage | everything |
| **Registry** `registry/registry.go` | the map of registered types; locals of `LoadConfig` | `Register`, `LoadConfig`, `GenerateSampleConfig` | `main.loadCollector` calls `LoadConfig`, which gives inputs and outputs to the collector |
| **OPC UA input** `input/opcua/opcua.go` | `client`, `nodeIDs` | `Init`, `Gather`, `DeInit`, `connect`, `disconnect` | the collector; an OPC UA server |
| **ndjson output** `output/ndjson/ndjson.go` | the configuration only | `Init`, `Process`, `convert` | the collector; an HTTP server |
| **HTTP middleware** `middleware/httpstat/httpstat.go` | a `ResponseWriterWrapper` per request | `ServeHTTP`, the wrapper's `Write`, `Flush`, `WriteHeader`, `Hijack` | handlers, `net/http`, the collector's channel |
| **Exporter** `export/exporter.go` | `ows`, `closeCh`, `latestErr` | `AddOutput`, `Start`, `Stop`, `Export`, `exportAll` | expvar, outputs such as `SVGOutput`. A library part: `main` does not use it |
| **SVG export** `export/svg/svg.go`, `svgoutput.go` | the file of each metric; none in memory that outlives a call | `SVGOutput.Export`, `CanvasWithSnapshot`, `Canvas.Export`, `svgPath`, `svgRange`, `svgAxes` | an output of the exporter; also draws for `HandleDashboard` |
| **Dashboard** `main.go`, `export/svg/boards.go` | the list of panels | `makeDashboard`, `HandleDashboard` | `HasInput`; external dashboard |
| **Device inputs** `input/ps/net.go`, `input/diskio` | the devices chosen by `Init` | `Init`, `Gather` | the operating system |
| **Disk input** `input/disk` | the configuration only | `Gather`, `DiskUsage` | the operating system |
| **Other inputs** `input/ps`, `input/gostat` | none | `Gather` | the operating system, the Go runtime |
| **File storage** `store/files/files.go` | none | a constructor of the external library | |
| **Web terminals, log, flags** `main.go` | none | construction of handlers of external libraries | |

What is hard here, and what it takes to be correct:

* *Storage.* `Store` only hands a record to a bounded channel; one goroutine
  writes it later, and between its tables' `CREATE`, `INSERT` and `DELETE`
  anything may happen: a statement fails, the process is killed, `Close` closes
  the database and then sets `s.db` to nil without a lock while the goroutine
  still reads it. Correct means: what was written stays readable for as long as
  its series retains it, in every later life of the process; records are
  settled in order; the collector is never blocked for ever; nobody sends on
  the channel that `Close` has closed.
* *Exporter.* `Stop`, `AddOutput` and the goroutine share two fields, and the
  goroutine reads them without the lock. An error ends a pass. Correct means: a
  pass without an error has served all it owed, an error does not end the
  exporter, and `Stop` does.
* *Middleware.* The status the wrapper remembers and the one `net/http` has
  sent are two things; the measure is sent on a channel that may be full,
  before `recover`. Correct means: each request is counted once, in the class
  of the status its client was sent, and each is answered.
* *SVG export.* The file of a metric is truncated and written anew at each
  pass; `SVGOutput` panics where it cannot open or write it. The grid is fitted to values
  that may be nil, equal, or outside of the limits of their unit. Correct means:
  a pass that ends without an error leaves whole files of what it read, and what
  is drawn lies on the grid, at its time.
* *The life of the daemon.* The file is decoded over the defaults; the mux
  panics on a pattern that comes twice, when the collector already runs; what is
  undone depends on what was deferred so far. Correct means: the storage is open
  while the collector may use it, the handlers are those the file asks for, and
  no end of `main` leaves anything running.
* *Configuration, gathering, output.* Sections of different names are mixed in
  a document, any of them may fail when others have been added; a server may
  fail at any call. Correct means: the daemon runs all of its configuration or
  does not start; `Gather` ends and says whether it is complete; `Process` never
  reports a record as sent that nobody has answered for.
* *Devices.* `Init` lists devices once and they come and go afterwards; in a
  container, mount points in and outside of `HOST_MOUNT_PREFIX` are two names of
  one path. Correct means: the devices that the configuration asks for are
  reported while they are there and no others, each file system once, and no
  automatic mount is triggered.

## The modules

**`SqliteStore`** is the storage with the part of `main` that opens and closes
it. Its variables are the fields of `Storage` (`db`, `wChan` with `chanOpen`,
`tables`), the program counter of `runWriteLoop` (`loop`, with `hand` the record
in `write`, `toShrink` the tables a tick has still to visit and `tick` the
ticker's pending tick), the calls of `Store` in progress (`pending`), the file
(`created`, `rows`), which alone survives `EndProcess`, and a clock. One action
stands for each statement that another goroutine can come between: `Receive`,
`CreateTable`, `Insert`, `Shrink(id)` with their failures; `CloseChan`,
`CloseDb`, `ClearDb`, the three statements of `Close`. A row is abstracted to
its key and its position in the order of acceptance. The variables `log`, `fate`
and `life` are history: the records in that order, what became of each (`live`,
`kept` in the file, `refused` by a failed statement, `late` for a closed
database, `lost` with the process) and the life of the process.

**`WriteBehind`** is what the storage promises without its goroutine, ticker or
shutdown: a bounded buffer in front of a table, settled from its front, rows
deleted only past their retention. `SqliteStore` implements it with the buffer
mapped to the record in `write` followed by the channel.

**`Exporter`** has one goroutine per call of `Start`. `select` reads `closeCh`
when it is entered (`EnterSelect`) and waits on what it read (`ReceiveClose`,
`ReceiveTick`); `range` reads `ows` once for each metric (`RangeOutputs`), and
while `AddOutput` stores a slice it may read the new length with an element that
is not there yet (`RangeTorn`).

**`ServerMeter`** has one goroutine per request. `statusCode` and
`headerWritten` are the wrapper's, `wire` is what `net/http` has sent; `Sent`
says how `net/http` treats a status. `Measure` waits for room in `ch`, `Recover`
comes after it, as in the deferred function.

**`Svg`** holds the drawing as operators: `CanvasWithSnapshot` turns samples into
numbers with their bounds, `Fit` chooses the limits of the grid, `svgPath` and `svgRange` are the line and the
band as points of a time and a number, `Drawing` what is written. Numbers are
whole multiples of a quarter, which is exact for the values of the instance; the
affine map from there to pixels is left out.
**`ExportSvg`** composes it with `Exporter`: one output is the `SVGOutput`, whose
call is `Open` (which truncates) or `OpenFails` (which panics), `Draw` or
`DrawFails` (`Canvas.Export` returns the error of a write, svg.go:118, and
`SVGOutput.Export` panics on it as on a canvas that is refused), `Close`. `ioError`
is history: a file could not be opened or written. The error of `out.Close()` is
ignored by the code and left out.

**`Selections`** has what `Registry`, `Opcua`, `Disk` and `Wiring` share: `Select`, the
elements at a set of positions, which is what a loop with `continue` keeps.

**`Registry`** is `Register`, of whose calls the first one for a name counts, and
`LoadConfig`: `NextKey` goes through `meta.Keys()`,
`AddSection` instantiates one section. **`Opcua`** is the input: `Gather` and
then one step for each call of the client. **`Ndjson`** is `Process` up to `Post`,
and the answer; a record for standard output may be printed or not, since the
error of `Fprintln` is not looked at. **`Devices`** is the inputs net and diskio, which do the same
with what `Init` listed: `NetGather` and `DiskIOGather` take `Taken`, the devices
kept or, when there are none, all. **`Disk`** is the disk input: `Wanted` is what
`DiskUsage` skips with `continue`, `Lookup` the path whose usage is asked for,
`Path` the one that is reported, and `Reported` the skips of `Gather`. A mount point
is under the prefix, outside of it, or beside it: `strings.HasPrefix` (disk.go:176)
lets `/hostile` pass for one under `/host`, and `TrimPrefix` makes `/ile` of it.

**`Wiring`** is `main` from its flags to its last deferred call. `ReadConfig`
decodes the file over `Default`; `MakeStorage` and `OpenStorage` are apart, since a
file storage has no `Open`; `Registrations` is what is registered, in order, and
`Refused` whether `mux.Handle` panics (`WirePanics`); `deferred` is the stack of
deferred calls, which `CloseServer`, `CallStop`, `Stopped` and `CloseStorage` take
down after a signal or that panic. The panics before `Collector.Start` lead to
`down` at once: nothing is deferred yet. `SignalEarly` is a signal before `Notify`,
the last statement before `main` waits, when the server is already up.

**`Metrical`** composes the six: loading runs between `NewCollector` and `Start`,
`Panels` are those of the inputs that `LoadConfig` has named, gathering and
processing go on while the collector runs, and `Stopped`, the return of
`Collector.Stop`, waits for a Gather and a post in progress. `DeInit` and a last
`Gather` come in either order, since the order is the external collector's.

The modules `MC...` give the constants values for TLC. Definitions marked
"Faulty variant" stand beside the definition they vary and are part of no
specification: each is a plausible mistake in the code, and substituting it must
break the property `PROJECT.json` names with it.

## What is checked

| run | question | bounds |
|---|---|---|
| `store_safety` | Do written records stay readable and come back after a restart, in order, with crashes and failures? | 2 callers, 1 series, channel of 2, 3 records, 2 lives, 1 failing statement, clock to 4 |
| `store_tables` | Is every table that was written shrunk, and does the storage implement `WriteBehind` even if the collector sends too late? | 2 series, 1 caller, channel of 1, 2 records, 1 life, clock to 4 |
| `store_liveness` | Is every accepted record settled, and does a stop end? | 2 callers, channel of 1, 3 records, 2 lives, 1 failure, clock still |
| `store_graceful_stop` | Does a stop on a signal keep all that was accepted? **No** | 1 caller, 2 records, no crash, no failure |
| `store_stale_table` | Is every table shrunk? **No** | 1 record, 2 lives |
| `exporter` | Does a pass serve all and leave whole files, does the exporter survive errors, panic only for the file system or overlapping calls, and draw on the grid? | 2 metrics, 2 outputs, 1 failure; series of 2 points |
| `exporter_stop` | Does `Stop` end the goroutine? **No** | 1 metric, 1 output |
| `httpstat` | Is each request counted once, in the class that was sent, and answered? | 2 requests of 2 calls, 4 codes, channel of 1 |
| `httpstat_status` | Is a superfluous `WriteHeader` ignored? **No** | 1 request |
| `pipeline` | Is a configuration loaded whole and once, are the handlers the configured ones, does `Gather` end, is a post without an answer an error, are devices and file systems reported as chosen, does a signal end the daemon and leave nothing on? | documents of up to 3 of 10 kinds of sections (2 with opcua), or of one of the 3 device inputs and another section; 105 forms of `[http]` with 3 storages beside the two simplest documents; 2 nodes, 1 retry of each kind, answers 200 and 503, 2 devices, 8 disk configurations, lists of 2 of 10 partitions |
| `inputs_filter` | Is what the patterns match reported, and only that? **No** | as `pipeline` |
| `ndjson_status` | Is an answer of 2xx success? **No** | answers 200, 204, 404, 503 |

Why the bounds suffice. Two series with room for two points, the least
`loadCollector` accepts, retain three periods, so a clock of 4 reaches records
in the window, past the window but retained, and expired. A channel of one or
two is full with two callers waiting; three records are the one in `write`, one
in the channel and one refused or waiting, or an old row, its replacement and
one overtaking. Two lives are one restart. One failing statement tells a failure
that costs one record from one that costs two. In `httpstat` two calls of a
handler are what it takes to send one status and remember another, and two
requests on a channel of one make one wait for the other. In `exporter` two
metrics and two outputs make a pass that stops half way in each direction. In
`pipeline` three sections are what it takes to mix two of one name with one of
another; the OPC UA input and the ndjson output are in one document of two. The
forms of `[http]` give, leave out and empty each key, and have paths that are
apart, equal, empty, the root, and one that `main` registers itself; they are
combined with the simplest documents only, since `main` looks at nothing else of
a document there, and with the inputs and outputs that may be at work when it
ends. One
device goes away and comes back while another stays, which two devices allow;
two partitions are what it takes for one to be in the way of the other. A
document has one of the inputs net and diskio, and one disk input, at most
(`MetricalAssumption`), since `Devices` and `Disk` hold the state of one.
`MaxFail`, `MaxTime`, `MaxRecs`, `MaxLives`, `MaxCalls` only bound what is
enumerated. `store_safety` takes the callers as symmetric, which is sound since
it checks no liveness and no definition tells them apart. Deadlock is not
checked: the bounded systems stop.

### Findings

1. `store_graceful_stop`: `Close` (sqlite.go:49-58) closes the channel and the
   database at once, and the records still in the channel are dropped. They are
   the last point of every series, stored by `Collector.Stop` just before.
2. `store_stale_table`: the ticker (sqlite.go:66-70) ranges over the tables
   this process has written; a table that is not written any more is never
   shrunk again.
3. `exporter_stop`: `Stop` (exporter.go:71-77) sets `closeCh` to nil, and a
   goroutine that was not in `select` at that moment then waits on nil.
4. `httpstat_status`: `WriteHeader` after `Write` (httpstat.go:81-90) is
   superfluous, is not noticed, and changes the status that is counted.
5. `ndjson_status`: `Process` (ndjson.go:66) returns an error for 2xx and
   success for everything else.
6. `inputs_filter`: net.toml:2 and diskio.toml:2 ask for the devices "to monitor,
   empty for all", and `Gather` goes by the list `Init` made at the start. When no
   interface matched then, it takes the empty list (net.go:77, and diskio.go:59
   likewise) for no patterns and reports all; this is the trace TLC gives. When
   `Init` found some, a device that is plugged in later is never reported, also
   without patterns (net.go:48-52, diskio.go:45-50): from `pattern = None`, one
   `Plug` between `InputInit` and `NetGather` breaks the same property.
   `FoundFollowed` therefore does not say that only found devices are reported.

### Fairness

Only goroutines that can run are assumed to run, as the Go scheduler does (weak
fairness of each statement of a goroutine). Strong fairness stands where a
choice recurs: `select` picks at random among ready cases, so neither the ticker
nor the channel is passed over for ever; senders on a channel are served in
order, so one that waits gets its turn (`Store`, `Measure`). Tickers fire.
Nothing that comes from outside has to happen: a signal, a crash, a request, a
call of `Store`, `Stop` or `Gather`, an answer that is not an error.
`GatherReturns` also needs the calls of the OPC UA client to return, which its
timeouts see to. `SignalEnds` needs, beside that, that deferred calls run (`Unwind`)
and that a `Collector.Stop` which can return again and again in the end does
(`Stopped`, strong, since whether it can depends on the Gather and the post in
progress). It is stated for a daemon whose posts do not go on for ever:
`http.DefaultClient` (ndjson.go:58) has no timeout, and a server that never
answers does hold up the stop. A panic in a pass ends the process, so
`KeepsExporting` is about one without it; `SvgFairness` adds that the calls of
`SVGOutput` go on. `RequestsEnd` holds only while the collector receives: `main`
closes the server first (`svr.Close` does not wait for handlers) and then stops
the collector, and a handler that ends after that may wait until the process
is gone.

## What is proved

Every invariant and action property that a passing run checks, and the
refinement, is also a theorem. The theorems hold for every value of the constants
that the `ASSUME` of the module allows: any set of series, names, callers and
requests, any buffer size, retention and number of retries, any configuration,
document, list of nodes, partitions or handlers, any number of failures, restarts
and records.

`SqliteStoreProofs`:

* `TypeCorrect`, from types and `HandInv` (where the goroutine is and what it
  holds).
* `NeverSendOnClosed`, under `StopJoins`: that `Collector.Stop`, which is
  external, returns only when no goroutine will call `Store` again. Without it
  the storage does panic; the order of `main`'s deferred calls is what the
  theorem is about (`CallerInv`).
* `InOrder`, `StaysReadable`, `RestoresHistory`: the properties `NoOvertaking`,
  `Readable` and `RestoredAll`. None is inductive alone. The invariant is `IInv`,
  the conjunction of types, `HandInv`, `LogInv` (numbers, lives and fates of
  accepted records), `QueueInv` (the live records are the one in `write` and then,
  in order, those of the channel), `RowsInv` (each row is a written record, one
  per key), and the three properties. `QueueInv` is the heart: it says that the
  record in `write` is older than every other live one, which gives the order
  (`OrderStep`), and newer than every row with its key, so that `INSERT OR
  REPLACE` never loses a newer one (`HandIsNewest`). That shrinking is harmless
  comes down to arithmetic: a row deleted after `Period * (MaxCount + 1)` is out
  of the window `Period * MaxCount` (`WindowNotExpired`), and a record that has
  left the window stays out (`WindowShrinks`).
* `RefusesOne`: a step that refuses a record is a failing statement, it refuses
  the one in `write`, and it counts as one failure (`RefusedStep`); the rest is
  about cardinalities.
* `NeverOlder`: the action property `LatestWins`.
* `Refinement`: `Spec` implements `WriteBehind`. Each step maps to a step of it or
  a stutter: taking a record out of the channel moves it within the buffer,
  settling one removes the first, the end of the process empties it.

`ServerMeterProofs`, for any number of requests and any channel:

* `TypeCorrect`; `CountsWhatWasSent` and `Answered` from `StatusInv`: as long as a
  handler has done nothing the wrapper does not see, what the wrapper remembers
  and what is on the wire agree.
* `EachCountedOnce`: what was counted in a class and what waits in the channel
  add up to the requests that ended with it. `CountsAddUp` is inductive with the
  types; the work is in the cardinalities, with lemmas on the places of an
  element in a sequence after `Append` and `Tail`.

`ExporterProofs`, for any metrics, outputs and goroutines, and calls of `Start`,
`Stop` and `AddOutput` in any order:

* `ExporterTypeCorrect`, and `PassServes`: the property `PassServesAll`. `PassInv`
  says of a pass under way that what it owes are metrics with data and outputs
  that are there, neither of which goes away (`GrowStep`), that the metrics before
  the current one are served, and that the current one is served but for the
  outputs in `left`. The steps are those of `ExporterStep`, which lets a panic
  change what it likes of the fields, so that the lemmas serve `ExportSvg` too.

`ExportSvgProofs`, for any snapshots that `SvgAssumption` allows (an interval of a
second at least and a series of two points at least, as `loadCollector` checks
them, with samples of one type and any nil among them) and one goroutine
(`SvgExportAssumption`: two would write one file at once):

* `SvgTypeCorrect`; `PassLeavesWhole` from `PassServesAll` and `FilesInv`: a
  file that is not whole although its metric was served is the one that is being
  rewritten.
* `PanicsExplained` from `PanicInv`, which keeps which call it was that panicked; that
  `Canvas.Export` refuses no canvas (`NeverRefused`) leaves the file system, `AddOutput`
  beside a pass and overlapping calls of `Stop`.
* `DrawingFits` and `BandCloses` are about the operators of `Svg`, for every
  snapshot: the limits `Fit` chooses contain the minimum and the maximum it was
  given (`FitBounds`), and those bound every value of the canvas
  (`SnapshotInGrid`); the band is `2n` points of which the second half repeats
  the times of the first backwards (`BandShape`).

`SelectionProofs` is about `Select`, which stands for a loop that passes over
elements: a finite set of numbers is listed in increasing order in exactly one way
(`ListingExists`, `ListingUnique`, by induction over its size and over positions:
the numbers of which the claim holds are all of `Nat`, by `Upwards`), from which
follow what `Select` returns (`OrderedFacts`, `SelectElems`) and how it grows
(`SelectNext`, `SelectOfAppend`).

`WiringProofs`, `LoadingProofs` and `MetricalProofs` prove of the daemon as a
whole, that is of `Spec` of `Metrical`, what its parts promise. For each part there is
first a lemma that every step of the daemon is one of the part or leaves its
variables alone (`WiringStepKinds`, `LoadingStepKinds`, `OpcuaStepKinds`, ...), then
an inductive invariant.

* `OpensForUse` and `LeavesNothingOn`, from `StageInv`: what has been made, opened
  and deferred at each stage of `main`. It is what makes the panic in `wire` and
  the signal in `run` end alike.
* `LoadsEachOnce` from `OnceInv`: what the collector has and what is still in
  `sections` are, without overlap, the sections of the names processed, those of
  a name in the order of the document, and every name before `key` is processed.
  `NamesAreTold` from `NamesStep`, with `SelectOfAppend` for the instance that is
  added.
* `AttemptsAreBounded` and `GathersAll` from `OpcuaInv`: the counters of retries
  are the attempts since they were reset, and what `Gather` has added are the nodes
  before the one it reads, but for those it ignored.
* `ReportsUnanswered` from `NdjsonInv`: only a product that `Process` knows is posted. It
  does not say that nothing is lost: a number JSON has not, standard output that fails
  and an answer that refuses (finding 5) lose a record and `Process` returns nil.
* `FollowsFound` from `DevicesInv`: what `Init` found is kept, nothing is gathered
  before the collector runs, and only net sums up. It rests on the assumption that
  a document has at most one of the inputs net and diskio.
* `PathsOnce` and `TriggersNoMount` from `DiskInv`, which says of which partitions
  `asked` and `shown` are made; the rest is an argument about names: of two mount
  points with one path one is under `HOST_MOUNT_PREFIX` and the other is outside
  of it (`OnePathTwoMounts`), and `Conflict` leaves that one out. `PathsOnce` is about
  listings with none beside the prefix (`NoneBeside`), for which it would not hold.
* `RunsAll` from `LoadedInv` (the collector is started only after `LoadConfig`
  ended with "ok"), `LoadsEachOnce` and `ConnectedInv` (an OPC UA input that was
  added is connected until `main` begins to end).
* `ServesRoutes` from `HttpInv` (the configuration in use is the one that was
  read), `MuxInv` (the handlers are those registered, and none was refused) and
  `RoutesMade`: without a refusal every registration has a pattern of its own, so
  the function the mux is has one handler for each.
* `TypeCorrect`: the types of all variables of the daemon.

The assumptions are those of the modules: `StoreAssumption`, `ExporterAssumption`,
`SvgExportAssumption`, `ServerMeterAssumption` and `MetricalAssumption` with those of
its parts. They say of which kind the constants are, that documents are ones
`toml.Decode` accepts, that the nodes are a sequence that is not empty (with none
`Gather` would only connect), and that a document has one disk input and one of
net and diskio at most, since `Disk` and `Devices` hold the state of one.

Only model-checked is what is liveness: `EverySettled`, `StopEnds`,
`StaleRowsVanish`, `KeepsExporting`, `RequestsEnd`, `GatherReturns` and `SignalEnds`.
They follow from fairness, of which these provers cannot reason.

## Assumptions and abstractions

* Rows are compared by their timestamp as a number. The code writes and compares
  text; the two agree as long as the time zone offset of the process stays the
  same.
* `Load` of a metric comes before the first `Store` to it in a life of the
  process, since the collector restores a series when it creates it.
* A database that is open may refuse any statement; one that is closed refuses
  all; on nil the goroutine panics. Which of the last two a racing read sees is
  a choice.
* `Exporter.Stop` may be called again while a call of it is between its two
  statements (`StopAgain`): it then panics, and `PanicExplained` says when.
* What `toml.Decode` does to a slice that has elements, and that `ServeMux.Handle`
  panics on a pattern that comes twice, are the libraries' (external).
* `Refused` knows patterns as paths; the precedence of the mux among patterns
  that contain each other is the library's and takes nothing from either.
* In `Ndjson` a product is its kind, whether it has samples, and whether JSON can
  encode its numbers; in `Registry` a section is its name and what can fail in
  it; in `Devices` counters are the devices they are taken from; in `ServerMeter`
  bytes and latency are left out.
* Samples are finite numbers in `Svg`: how NaN and infinity would be drawn is not
  covered. In `Opcua` a read that returns no error has a result: the code does not
  test `rsp.Results[0]` (opcua.go:142), and what the library returns for an answer
  without results is not modelled.

## Observations

What the source shows beside the findings, where no line of the repository says
otherwise, or where it is a matter of text:

* A dashboard without `path` in the file inherits the default path when it is the
  only one, and is not served when there are more (main.go:191, 251); a tail, a
  terminal or a port without one is served at the root (main.go:258).
* Two handlers of one path end the daemon with a panic after the collector has
  started (main.go:253-294); the deferred calls do undo what was begun.
* A signal before `signal.Notify` (main.go:321), as while an OPC UA server is slow
  to connect, ends the process with nothing undone.
* With `HOST_MOUNT_PREFIX=/host`, `/hostile` is reported as `/ile`, also where a file
  system of that name is mounted (disk.go:176, 191): the metrics of two are mixed.
* A record that `Fprintln` cannot print is lost in silence (ndjson.go:56).
* The error of `out.Close()` is ignored (svgoutput.go:34): a write that fails only then
  leaves a file that is not whole and a pass without an error, which `PassFilesWhole`
  does not see.
* `SVGOutput.Export` panics on a metric whose name has a slash or when the disk is
  full, and two names that differ in `:` and `_` share one file (svgoutput.go:24-28). The lower
  edge of a band is given the upper bounds, so it has no height (svgoutput.go:102).
* `HandleDashboard` reads `r` into `idx`, takes the count of `Sscanf` for the
  number of seconds, and the links of its index count only the series with
  points while the detail page counts all (boards.go:26-33, 53-57, 157-159).
* `/debug/pprof` is given a profile of that name, which does not exist
  (main.go:301).
* `netstat` counts every datagram socket, those of the `unix` family too, as
  `udp_socket` (netstat.go:60).

## Not modelled, and the plan

Not modelled because no state or protocol is in it: the page that
`HandleDashboard` writes, the axes and labels of a drawing, the inputs that only
read the operating system or the runtime (`cpu`, `load`, `mem`, `netstat`, `go_mem`,
`go_runtime`: a Gather is one read, and its result depends on nothing before),
the constructor of the file storage, the log and the sample configuration. Web
terminals, tails and the port proxy are external libraries.

The order of the work, with what is done:

1. *done* `SqliteStore` with `WriteBehind`, its runs and `SqliteStoreProofs`: the
   state that outlives the process and the most interleavings.
2. *done* `Exporter`, `ServerMeter` with `ServerMeterProofs`.
3. *done* `Registry` (with `Register`), `Opcua`, `Ndjson`, `Devices`, `Disk`.
4. *done* `Svg`, composed with `Exporter` by `ExportSvg`.
5. *done* `Wiring`, composed with the inputs and outputs by `Metrical`.
6. *done* Proofs: `SelectionProofs`, `ExporterProofs`, `ExportSvgProofs`, `WiringProofs`,
   `LoadingProofs`, `MetricalProofs`, and `OneErrorOneRecord` of `SqliteStore`.
7. *left* Abstract specifications of the exporter (a pass serves a set) and of the
   middleware (a counter of requests), as `WriteBehind` is one of the storage.
