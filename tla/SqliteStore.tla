---------------------------- MODULE SqliteStore ----------------------------
(***************************************************************************)
(* The SQLite storage of metrical (store/sqlite/sqlite.go) with the part   *)
(* of main.go that opens it, stops the collector and closes it.            *)
(*                                                                         *)
(* Store hands a record to a bounded Go channel; one goroutine,            *)
(* runWriteLoop, takes the records out, creates the table of a series the  *)
(* first time it meets it, and upserts the row.  Every minute it deletes   *)
(* the rows that have passed the retention of their series.  Load reads    *)
(* the rows back when a series is created after a restart.                 *)
(*                                                                         *)
(* The columns of a row are abstracted to one tag, its position in the     *)
(* order in which Store accepted the records: that is what the properties  *)
(* tell apart.                                                             *)
(***************************************************************************)
EXTENDS Integers, Sequences, FiniteSets

CONSTANTS
    Series,      \* series IDs: one table each
    Names,       \* metric names
    Callers,     \* goroutines of the collector that call Store
    InputBuffer, \* data.input_buffer of the configuration
    Period,      \* Period[id] and MaxCount[id]: the sampling of a series
    MaxCount,
    StopJoins,   \* Collector.Stop (external) returns only once no goroutine
                 \* of the collector can call Store any more
    MayCrash,    \* the process may be killed at any moment
    MaxFail,     \* bound: SQL statements that fail on an open database
    MaxTime,     \* bound: the clock
    MaxRecs,     \* bound: records accepted over all lives of the process
    MaxLives,    \* bound: starts of the process
    None

VARIABLES
    \* the main goroutine and the fields of Storage
    main, db, chanOpen, wChan, tables,
    \* the goroutine runWriteLoop
    loop, hand, toShrink, tick,
    \* the goroutines of the collector: a Store in progress, a history read
    pending, loadState, restored,
    \* the database file, which outlives the process
    created, rows,
    \* the clock
    now,
    \* history: records in the order Store accepted them and what became of
    \* each; starts, failed statements and panics so far
    log, fate, life, fails, panics

memory  == <<db, chanOpen, wChan, tables, loop, hand, toShrink, tick,
             pending, loadState, restored>>
file    == <<created, rows>>
history == <<log, fate, life, fails, panics>>
vars    == <<main, memory, file, now, history>>

-----------------------------------------------------------------------------
(* Records *)

\* What Load restores: one metric of one series.
Metric == Series \X Names

Request == [id : Series, name : Names, time : Nat]
Record  == [id : Series, name : Names, time : Nat, seq : Nat, life : Nat]

ASSUME StoreAssumption ==
    /\ InputBuffer \in Int
    /\ Period \in [Series -> Nat]
    /\ MaxCount \in [Series -> Nat]
    /\ StopJoins \in BOOLEAN
    /\ MayCrash \in BOOLEAN
    /\ MaxFail \in Nat
    /\ MaxTime \in Nat
    /\ MaxRecs \in Nat
    /\ MaxLives \in Nat
    /\ None \notin Request \cup Record

\* PRIMARY KEY (name, timestamp) of the table of the series.
Key(r) == <<r.id, r.name, r.time>>

\* NewStorage: a buffer size that is not positive becomes 100.
Cap == IF InputBuffer <= 0 THEN 100 ELSE InputBuffer

\* Faulty variant: one period too few instead of one more.
RetentionOneShort(id) == Period[id] * (MaxCount[id] - 1)

\* TableInfo.retentionPeriod, and the rows that "timestamp < cutoff" selects.
Retention(id) == Period[id] * (MaxCount[id] + 1)
Expired(r) == r.time < now - Retention(r.id)

-----------------------------------------------------------------------------
(* Initial state and the end of a process *)

Init ==
    /\ main = "down"
    /\ db = "nil"
    /\ chanOpen = FALSE
    /\ wChan = <<>>
    /\ tables = {}
    /\ loop = "none"
    /\ hand = None
    /\ toShrink = {}
    /\ tick = FALSE
    /\ pending = [c \in Callers |-> None]
    /\ loadState = [k \in Metric |-> "unread"]
    /\ restored = [k \in Metric |-> {}]
    /\ created = {}
    /\ rows = {}
    /\ now = 0
    /\ log = <<>>
    /\ fate = <<>>
    /\ life = 0
    /\ fails = 0
    /\ panics = {}

\* The process is gone, and with it everything that was only in memory.
EndProcess ==
    /\ main' = "down"
    /\ db' = "nil"
    /\ chanOpen' = FALSE
    /\ wChan' = <<>>
    /\ tables' = {}
    /\ loop' = "none"
    /\ hand' = None
    /\ toShrink' = {}
    /\ tick' = FALSE
    /\ pending' = [c \in Callers |-> None]
    /\ loadState' = [k \in Metric |-> "unread"]
    /\ restored' = [k \in Metric |-> {}]
    /\ fate' = [s \in DOMAIN fate |->
                  IF fate[s] = "live" THEN "lost" ELSE fate[s]]
    /\ UNCHANGED <<created, rows, now, log, life, fails>>

Crash ==
    /\ MayCrash
    /\ main # "down"
    /\ EndProcess
    /\ UNCHANGED panics

-----------------------------------------------------------------------------
(* main: open the storage, run, stop the collector, close the storage *)

\* NewStorage and Open.  A Ping that fails makes main panic before anything
\* has started: no step.
Open ==
    /\ main = "down"
    /\ life < MaxLives
    /\ main' = "run"
    /\ db' = "open"
    /\ chanOpen' = TRUE
    /\ loop' = "select"
    /\ life' = life + 1
    /\ UNCHANGED <<wChan, tables, hand, toShrink, tick, pending, loadState,
                   restored, file, now, log, fate, fails, panics>>

\* Faulty variant: the storage is closed before the collector is stopped.
SignalClosesFirst ==
    /\ main = "run"
    /\ main' = "closeChan"
    /\ UNCHANGED <<memory, file, now, history>>

\* main receives SIGINT or SIGTERM, and its deferred function runs: first
\* Collector.Stop (external), during which the collector still stores the
\* products it was filling.
Signal ==
    /\ main = "run"
    /\ main' = "stop"
    /\ UNCHANGED <<memory, file, now, history>>

CollectorStopped ==
    /\ main = "stop"
    /\ StopJoins => \A c \in Callers : pending[c] = None
    /\ main' = "closeChan"
    /\ UNCHANGED <<memory, file, now, history>>

\* Close, one step for each statement: close(s.wChan), s.db.Close(),
\* s.db = nil.  The last is skipped when s.db.Close fails.
CloseChan ==
    /\ main = "closeChan"
    /\ chanOpen' = FALSE
    /\ main' = "closeDb"
    /\ UNCHANGED <<db, wChan, tables, loop, hand, toShrink, tick, pending,
                   loadState, restored, file, now, history>>

CloseDb ==
    /\ main = "closeDb"
    /\ db' = "closed"
    /\ main' \in {"clearDb", "exit"}
    /\ UNCHANGED <<chanOpen, wChan, tables, loop, hand, toShrink, tick,
                   pending, loadState, restored, file, now, history>>

ClearDb ==
    /\ main = "clearDb"
    /\ db' = "nil"
    /\ main' = "exit"
    /\ UNCHANGED <<chanOpen, wChan, tables, loop, hand, toShrink, tick,
                   pending, loadState, restored, file, now, history>>

\* main returns.
Exit ==
    /\ main = "exit"
    /\ EndProcess
    /\ UNCHANGED panics

-----------------------------------------------------------------------------
(* The goroutines of the collector *)

\* Faulty variant: s.tables decides whether the table exists.
RowsOfCachedTable(id, name) ==
    IF id \in tables THEN {r \in rows : r.id = id /\ r.name = name} ELSE {}

\* SELECT ... WHERE name = ?, where "no such table" means no data yet.
RowsOf(id, name) ==
    IF id \in created THEN {r \in rows : r.id = id /\ r.name = name} ELSE {}

\* Load: the rows of one metric, oldest first.  The collector restores a series before it stores into it.
Load(id, name) ==
    /\ main = "run"
    /\ loadState[<<id, name>>] = "unread"
    /\ loadState' = [loadState EXCEPT ![<<id, name>>] = "ok"]
    /\ restored' = [restored EXCEPT ![<<id, name>>] = RowsOf(id, name)]
    /\ UNCHANGED <<main, db, chanOpen, wChan, tables, loop, hand, toShrink,
                   tick, pending, file, now, history>>

LoadFails(id, name) ==
    /\ main = "run"
    /\ loadState[<<id, name>>] = "unread"
    /\ fails < MaxFail
    /\ fails' = fails + 1
    /\ loadState' = [loadState EXCEPT ![<<id, name>>] = "failed"]
    /\ UNCHANGED <<main, db, chanOpen, wChan, tables, loop, hand, toShrink,
                   tick, pending, restored, file, now, log, fate, life, panics>>

\* A goroutine calls Store: it offers a record to the channel and waits.
StoreCall(c, id, name) ==
    /\ \/ main \in {"run", "stop"}
       \/ ~StopJoins /\ main # "down"
    /\ pending[c] = None
    /\ loadState[<<id, name>>] # "unread"
    /\ Len(log) + Cardinality({d \in Callers : pending[d] # None}) < MaxRecs
    /\ pending' = [pending EXCEPT ![c] = [id |-> id, name |-> name, time |-> now]]
    /\ UNCHANGED <<main, db, chanOpen, wChan, tables, loop, hand, toShrink,
                   tick, loadState, restored, file, now, history>>

\* Faulty variant: off by one.
HasRoomForOneMore == Len(wChan) <= Cap

HasRoom == Len(wChan) < Cap

\* The channel has room: the record is accepted and Store returns.
Accepted(c) ==
    [id |-> pending[c].id, name |-> pending[c].name, time |-> pending[c].time,
     seq |-> Len(log) + 1, life |-> life]

Store(c) ==
    /\ pending[c] # None
    /\ chanOpen
    /\ HasRoom
    /\ wChan' = Append(wChan, Accepted(c))
    /\ log' = Append(log, Accepted(c))
    /\ fate' = Append(fate, "live")
    /\ pending' = [pending EXCEPT ![c] = None]
    /\ UNCHANGED <<main, db, chanOpen, tables, loop, hand, toShrink, tick,
                   loadState, restored, file, now, life, fails, panics>>

\* A send on a closed channel panics, whether it was waiting or comes later.
SendOnClosed(c) ==
    /\ pending[c] # None
    /\ ~chanOpen
    /\ EndProcess
    /\ panics' = panics \cup {"send on closed channel"}

-----------------------------------------------------------------------------
(* runWriteLoop *)

\* The ticker's channel holds one tick; further ones are dropped.
TickerFires ==
    /\ loop \notin {"none", "done"}
    /\ ~tick
    /\ tick' = TRUE
    /\ UNCHANGED <<main, db, chanOpen, wChan, tables, loop, hand, toShrink,
                   pending, loadState, restored, file, now, history>>

\* Faulty variant: the loop over s.tables returns after the first one.
ToShrinkFirst ==
    IF tables = {} THEN {} ELSE {CHOOSE id \in Series : id \in tables}

\* case <-ticker.C: the tables in s.tables are shrunk one after the other.
ToShrink == tables

SelectTick ==
    /\ loop = "select"
    /\ tick
    /\ tick' = FALSE
    /\ toShrink' = ToShrink
    /\ loop' = IF ToShrink = {} THEN "select" ELSE "shrink"
    /\ UNCHANGED <<main, db, chanOpen, wChan, tables, hand, pending,
                   loadState, restored, file, now, history>>

\* case rec := <-s.wChan: write(rec) starts, with CREATE TABLE unless the
\* series is in s.tables.
Receive ==
    /\ loop = "select"
    /\ wChan # <<>>
    /\ hand' = Head(wChan)
    /\ wChan' = Tail(wChan)
    /\ loop' = IF Head(wChan).id \in tables THEN "insert" ELSE "create"
    /\ UNCHANGED <<main, db, chanOpen, tables, toShrink, tick, pending,
                   loadState, restored, file, now, history>>

\* The channel is closed and empty: rec is nil and the goroutine ends.
ReceiveNil ==
    /\ loop = "select"
    /\ wChan = <<>>
    /\ ~chanOpen
    /\ loop' = "done"
    /\ tick' = FALSE
    /\ UNCHANGED <<main, db, chanOpen, wChan, tables, hand, toShrink, pending,
                   loadState, restored, file, now, history>>

\* db.Exec succeeds only on an open database; on one that is closed it
\* returns an error, and on an open one it may.  The read of s.db is not
\* synchronised with ClearDb: a loop that still sees the closed database
\* gets the error, one that sees nil panics (LoopPanic).
ExecFails ==
    /\ db = "open" => fails < MaxFail
    /\ fails' = IF db = "open" THEN fails + 1 ELSE fails

Created ==
    /\ created' = created \cup {hand.id}
    /\ tables' = tables \cup {hand.id}
    /\ loop' = "insert"
    /\ UNCHANGED <<main, db, chanOpen, wChan, hand, toShrink, tick, pending,
                   loadState, restored, rows, now, history>>

CreateTable ==
    /\ loop = "create"
    /\ db = "open"
    /\ Created

\* Faulty variant: a record that could not be written goes back to the end
\* of the channel if there is room.
DroppedRequeued ==
    /\ IF chanOpen /\ HasRoom
       THEN wChan' = Append(wChan, hand) /\ UNCHANGED fate
       ELSE fate' = [fate EXCEPT ![hand.seq] = "refused"] /\ UNCHANGED wChan
    /\ hand' = None
    /\ loop' = "select"
    /\ UNCHANGED <<main, db, chanOpen, tables, toShrink, tick, pending,
                   loadState, restored, file, now, log, life, panics>>

\* Faulty variant: the goroutine returns on an error.
DroppedEndsLoop ==
    /\ fate' = [fate EXCEPT ![hand.seq] = "refused"]
    /\ hand' = None
    /\ loop' = "done"
    /\ UNCHANGED <<main, db, chanOpen, wChan, tables, toShrink, tick, pending,
                   loadState, restored, file, now, log, life, panics>>

\* The record is dropped with a line in the log, and the next one is taken.
Dropped ==
    /\ fate' = [fate EXCEPT ![hand.seq] =
                    IF db = "open" THEN "refused" ELSE "late"]
    /\ hand' = None
    /\ loop' = "select"
    /\ UNCHANGED <<main, db, chanOpen, wChan, tables, toShrink, tick, pending,
                   loadState, restored, file, now, log, life, panics>>

\* Faulty variant: the series enters s.tables although its table does not
\* exist.
CreateFailsCached ==
    /\ loop = "create"
    /\ ExecFails
    /\ tables' = tables \cup {hand.id}
    /\ fate' = [fate EXCEPT ![hand.seq] = "refused"]
    /\ hand' = None
    /\ loop' = "select"
    /\ UNCHANGED <<main, db, chanOpen, wChan, toShrink, tick, pending,
                   loadState, restored, file, now, log, life, panics>>

CreateFails ==
    /\ loop = "create"
    /\ ExecFails
    /\ Dropped

\* Faulty variant: INSERT into a table without the primary key.
UpsertAppends(r) == rows \cup {r}

\* INSERT OR REPLACE.
Upsert(r) == {x \in rows : Key(x) # Key(r)} \cup {r}

Insert ==
    /\ loop = "insert"
    /\ db = "open"
    /\ hand.id \in created
    /\ rows' = Upsert(hand)
    /\ fate' = [fate EXCEPT ![hand.seq] = "kept"]
    /\ hand' = None
    /\ loop' = "select"
    /\ UNCHANGED <<main, db, chanOpen, wChan, tables, toShrink, tick, pending,
                   loadState, restored, created, now, log, life, fails, panics>>

InsertFails ==
    /\ loop = "insert"
    /\ \/ ExecFails
       \/ db = "open" /\ hand.id \notin created /\ UNCHANGED fails
    /\ Dropped

\* Faulty variant: DELETE without its WHERE.
ShrunkAll(id) == {r \in rows : r.id # id}

\* shrink: the rows of one table that have passed their retention.
Shrunk(id) == {r \in rows : ~(r.id = id /\ Expired(r))}

\* Faulty variant: the loop over the tables is not left.
NextTableAgain(id) ==
    /\ loop' = "shrink"
    /\ UNCHANGED <<main, db, chanOpen, wChan, tables, hand, toShrink, tick,
                   pending, loadState, restored, created, now, log, fate, life,
                   panics>>

NextTable(id) ==
    /\ toShrink' = toShrink \ {id}
    /\ loop' = IF toShrink = {id} THEN "select" ELSE "shrink"
    /\ UNCHANGED <<main, db, chanOpen, wChan, tables, hand, tick, pending,
                   loadState, restored, created, now, log, fate, life, panics>>

Shrink(id) ==
    /\ loop = "shrink"
    /\ id \in toShrink
    /\ db = "open"
    /\ rows' = Shrunk(id)
    /\ UNCHANGED fails
    /\ NextTable(id)

ShrinkFails(id) ==
    /\ loop = "shrink"
    /\ id \in toShrink
    /\ ExecFails
    /\ UNCHANGED rows
    /\ NextTable(id)

\* s.db is nil: a method call on it dereferences a nil pointer.
LoopPanic ==
    /\ loop \in {"create", "insert", "shrink"}
    /\ db = "nil"
    /\ EndProcess
    /\ panics' = panics \cup {"nil database"}

-----------------------------------------------------------------------------
(* Specification *)

ClockTick ==
    /\ now < MaxTime
    /\ now' = now + 1
    /\ UNCHANGED <<main, memory, file, history>>

Main == \/ Open \/ Signal \/ CollectorStopped
        \/ CloseChan \/ CloseDb \/ ClearDb \/ Exit

Collector ==
    \/ \E id \in Series, name \in Names : Load(id, name) \/ LoadFails(id, name)
    \/ \E c \in Callers, id \in Series, name \in Names : StoreCall(c, id, name)
    \/ \E c \in Callers : Store(c) \/ SendOnClosed(c)

WriteLoop ==
    \/ SelectTick \/ Receive \/ ReceiveNil
    \/ CreateTable \/ CreateFails \/ Insert \/ InsertFails
    \/ \E id \in Series : Shrink(id) \/ ShrinkFails(id)
    \/ LoopPanic

Next == Crash \/ Main \/ Collector \/ TickerFires \/ WriteLoop \/ ClockTick

Spec == Init /\ [][Next]_vars

\* The Go scheduler runs every goroutine that can run; select picks among its
\* ready cases at random, so none is passed over for ever; the senders that
\* wait on a channel are served in order.  A signal, a crash, a new start and
\* the calls of the collector may never come.
Fairness ==
    /\ WF_vars(CollectorStopped \/ CloseChan \/ CloseDb \/ ClearDb \/ Exit)
    /\ WF_vars(TickerFires)
    /\ SF_vars(SelectTick)
    /\ SF_vars(Receive)
    /\ WF_vars(CreateTable \/ CreateFails)
    /\ WF_vars(Insert \/ InsertFails)
    /\ \A id \in Series : WF_vars(Shrink(id) \/ ShrinkFails(id))
    /\ \A c \in Callers : SF_vars(Store(c))

FairSpec == Spec /\ Fairness

-----------------------------------------------------------------------------
(* Properties *)

Fates == {"live", "kept", "refused", "late", "lost"}

TypeOK ==
    /\ main \in {"down", "run", "stop", "closeChan", "closeDb", "clearDb", "exit"}
    /\ db \in {"nil", "open", "closed"}
    /\ chanOpen \in BOOLEAN
    /\ wChan \in Seq(Record) /\ Len(wChan) <= Cap
    /\ tables \subseteq Series
    /\ loop \in {"none", "select", "create", "insert", "shrink", "done"}
    /\ hand \in Record \cup {None}
    /\ toShrink \subseteq Series
    /\ tick \in BOOLEAN
    /\ pending \in [Callers -> Request \cup {None}]
    /\ loadState \in [Metric -> {"unread", "ok", "failed"}]
    /\ restored \in [Metric -> SUBSET Record]
    /\ created \subseteq Series
    /\ rows \subseteq Record
    /\ now \in Nat
    /\ log \in Seq(Record)
    /\ fate \in Seq(Fates) /\ Len(fate) = Len(log)
    /\ life \in Nat
    /\ fails \in Nat
    /\ panics \subseteq {"send on closed channel", "nil database"}

\* The last MaxCount periods of a series: what "length" of the configuration
\* says is retained (metrical.toml: "the number of data points to retain").
OutOfWindow(r, t) == t - r.time > Period[r.id] * MaxCount[r.id]
InWindow(r) == ~OutOfWindow(r, now)

Holds(set, r) == \E x \in set : Key(x) = Key(r) /\ x.seq >= r.seq

\* A record that was written stays readable, as itself or as a later record
\* with its key, for as long as it is in the window of its series: through
\* shrinks, failed statements, Close, panics, crashes and restarts.
Readable ==
    \A s \in DOMAIN log :
        fate[s] = "kept" /\ InWindow(log[s]) => Holds(rows, log[s])

\* What Load gives the collector after a restart holds every record written
\* in an earlier life that is still in the window of its series (main.go:
\* "it requires mc.Storage to restore the previous timeseries").
RestoredAll ==
    \A s \in DOMAIN log :
        /\ fate[s] = "kept"
        /\ log[s].life < life
        /\ loadState[<<log[s].id, log[s].name>>] = "ok"
        /\ InWindow(log[s])
        => Holds(restored[<<log[s].id, log[s].name>>], log[s])

\* Within one life of the process no record overtakes an earlier one: when
\* one is settled, so is every record accepted before it.  A crash therefore
\* loses the end of what was accepted, never the middle.
NoOvertaking ==
    \A s, t \in DOMAIN log :
        /\ s < t
        /\ log[s].life = log[t].life
        /\ fate[t] \in {"kept", "refused", "late"}
        => fate[s] \in {"kept", "refused", "late"}

\* While the database is open one failed statement costs at most one record:
\* a CREATE TABLE that fails is tried again for the next record, since the
\* table is remembered in s.tables only after it exists.
OneErrorOneRecord ==
    Cardinality({s \in DOMAIN fate : fate[s] = "refused"}) <= fails

\* A row is never replaced by an older record with its key.
LatestWins ==
    [][\A r \in rows, x \in rows' : Key(x) = Key(r) => x.seq >= r.seq]_vars

\* main stops the collector before it closes the storage: no goroutine sends
\* on the closed channel (under StopJoins).
NoSendOnClosed == "send on closed channel" \notin panics

\* The storage implements the buffer of WriteBehind: the records accepted and
\* not settled are the one in write and those in the channel.
Buffered == IF hand = None THEN wChan ELSE <<hand>> \o wChan

SameKey(r, x) == Key(r) = Key(x)

WB == INSTANCE WriteBehind WITH
        Room <- Cap + 1, Same <- SameKey, PastRetention <- OutOfWindow,
        buf <- Buffered, table <- rows, clock <- now

ImplementsWriteBehind == WB!Spec

\* Every accepted record is settled or the process ends: the loop neither
\* stops nor serves only its ticker while the storage is open.
EverySettled ==
    \A s \in 1..MaxRecs :
        (s \in DOMAIN fate /\ fate[s] = "live")
            ~> (s \in DOMAIN fate /\ fate[s] # "live")

\* A stop that has begun ends: Collector.Stop does not wait for ever for a
\* goroutine that is blocked on the full channel.
StopEnds == (main = "stop") ~> (main = "down")

\* In a table that was written since the start, rows past their retention are
\* deleted while the process runs.
Stale(id) == \E r \in rows : r.id = id /\ Expired(r)

StaleRowsVanish ==
    \A id \in Series :
        (main = "run" /\ id \in tables /\ Stale(id))
            ~> (main # "run" \/ ~Stale(id))

-----------------------------------------------------------------------------
(* What the repository says and the code does not do *)

\* main.go:233-234 loads the storage "to restore the previous timeseries": a
\* record that Store accepted is not lost by a stop on a signal.  It is, since
\* Close closes the database while the loop still has records to write.
GracefulStopKeepsAll ==
    \A s \in DOMAIN fate : fate[s] \notin {"late", "lost"}

\* sqlite.go:67 "periodic shrink of tables": any table with rows past their
\* retention is shrunk.  Only the tables in s.tables are, so a table that is
\* not written after a restart keeps its rows for ever.
EveryTableShrunk ==
    \A id \in Series :
        (main = "run" /\ Stale(id)) ~> (main # "run" \/ ~Stale(id))

=============================================================================
