------------------------- MODULE SqliteStoreProofs -------------------------
(***************************************************************************)
(* Proofs about SqliteStore, for every value of its constants.             *)
(***************************************************************************)
EXTENDS SqliteStore, SequenceTheorems, FiniteSetTheorems, TLAPS

-----------------------------------------------------------------------------
(* The inductive invariant *)

Settled == {"kept", "refused", "late"}

\* The record in write, and the goroutine that holds it.
HandInv ==
    /\ loop \in {"create", "insert"} <=> hand # None
    /\ main = "down" => loop = "none" /\ wChan = <<>> /\ ~chanOpen
    /\ main = "down" => loadState = [k \in Metric |-> "unread"]
    /\ tables \subseteq created
    /\ loop = "insert" => hand.id \in created

\* log and fate: the records that are live are the one in write and, after it
\* and in the same order, those in the channel; nothing else is live.
Queued(s) == \E i \in DOMAIN wChan : wChan[i].seq = s

LogInv ==
    /\ \A s \in DOMAIN log : log[s].seq = s /\ log[s].life <= life
    /\ \A s, t \in DOMAIN log : s < t => log[s].life <= log[t].life
    /\ \A s \in DOMAIN log :
          fate[s] = "live" => log[s].life = life /\ main # "down"
    /\ \A s \in DOMAIN log :
          fate[s] = "lost" /\ log[s].life = life => main = "down"

QueueInv ==
    /\ \A i \in DOMAIN wChan :
          /\ wChan[i].seq \in DOMAIN log
          /\ log[wChan[i].seq] = wChan[i]
          /\ fate[wChan[i].seq] = "live"
    /\ \A i, j \in DOMAIN wChan : i < j => wChan[i].seq < wChan[j].seq
    /\ hand # None =>
          /\ hand.seq \in DOMAIN log
          /\ log[hand.seq] = hand
          /\ fate[hand.seq] = "live"
          /\ \A i \in DOMAIN wChan : hand.seq < wChan[i].seq
    /\ \A s \in DOMAIN log :
          fate[s] = "live" => (hand # None /\ hand.seq = s) \/ Queued(s)

\* The rows are records that were written, one for each key.
RowsInv ==
    /\ \A r \in rows :
          /\ r.seq \in DOMAIN log
          /\ log[r.seq] = r
          /\ fate[r.seq] = "kept"
          /\ r.id \in created
    /\ \A r, x \in rows : Key(r) = Key(x) => r = x

\* The goroutines of the collector are idle once Collector.Stop has returned.
CallerInv ==
    /\ main \in {"run", "stop"} => chanOpen
    /\ StopJoins /\ main \notin {"run", "stop"} =>
          \A c \in Callers : pending[c] = None
    /\ StopJoins => NoSendOnClosed

-----------------------------------------------------------------------------
(* Lemmas *)

\* The capacity of the channel that NewStorage makes is a positive number.
LEMMA CapNat == Cap \in Nat /\ 0 < Cap /\ 0 <= Cap
  BY StoreAssumption DEF Cap

\* A sequence updated at one index keeps its domain and its length.
LEMMA UpdateSeq ==
  ASSUME NEW S, NEW q \in Seq(S), NEW i, NEW e \in S
  PROVE  /\ [q EXCEPT ![i] = e] \in Seq(S)
         /\ Len([q EXCEPT ![i] = e]) = Len(q)
         /\ DOMAIN [q EXCEPT ![i] = e] = DOMAIN q
<1>1. CASE i \in DOMAIN q
  BY <1>1, ExceptSeq, LenProperties
<1>2. CASE i \notin DOMAIN q
  <2>1. [q EXCEPT ![i] = e] = q
    <3>1. q \in [DOMAIN q -> S]
      BY LenProperties
    <3> QED  BY <1>2, <3>1
  <2> QED  BY <2>1
<1> QED  BY <1>1, <1>2

\* A function over 1..n is a sequence of length n.
LEMMA FunctionSeq ==
  ASSUME NEW S, NEW n \in Nat, NEW f \in [1..n -> S]
  PROVE  f \in Seq(S) /\ Len(f) = n
<1>1. f \in Seq(S)
  BY SeqDef
<1>2. Len(f) \in Nat /\ 1..Len(f) = 1..n
  BY <1>1, LenProperties
<1> QED  BY <1>1, <1>2

\* When the process ends, the memory is as Init has it and the file is kept.
LEMMA EndProcessType ==
  ASSUME TypeOK, EndProcess, panics' \subseteq {"send on closed channel", "nil database"}
  PROVE  TypeOK'
<1>1. fate' \in Seq(Fates) /\ Len(fate') = Len(log')
  <2>1. /\ Len(log) \in Nat /\ DOMAIN fate = 1..Len(log)
        /\ fate \in [1..Len(log) -> Fates]
    BY LenProperties DEF TypeOK
  <2>2. fate' \in [1..Len(log) -> Fates]
    BY <2>1 DEF EndProcess, Fates
  <2> QED  BY <2>1, <2>2, FunctionSeq DEF EndProcess
<1>2. wChan' \in Seq(Record) /\ Len(wChan') <= Cap
  <2>1. <<>> \in Seq(Record) /\ Len(<<>>) = 0
    BY EmptySeq, Zenon
  <2>2. 0 <= Cap
    BY CapNat, Zenon
  <2> QED  BY <2>1, <2>2, Zenon DEF EndProcess
<1> QED  BY <1>1, <1>2 DEF TypeOK, EndProcess

-----------------------------------------------------------------------------
(* Types *)

\* The counters are numbers, and so are the lengths of the sequences.
LEMMA NumberTypes ==
  TypeOK => /\ now \in Nat /\ life \in Nat /\ fails \in Nat
            /\ Len(log) \in Nat /\ Len(wChan) \in Nat
            /\ DOMAIN log = 1..Len(log) /\ DOMAIN fate = 1..Len(log)
            /\ DOMAIN wChan = 1..Len(wChan)
  BY LenProperties DEF TypeOK

\* A failed statement is counted.
LEMMA ExecFailsType == TypeOK /\ ExecFails => fails' \in Nat
  BY NumberTypes DEF ExecFails

\* The goroutine that runs write holds a record.
LEMMA HandType ==
  TypeOK /\ HandInv /\ loop \in {"create", "insert"} => hand \in Record
  BY Zenon DEF TypeOK, HandInv

\* Settling the record in write changes its fate.
LEMMA FateType ==
  ASSUME TypeOK, NEW i, NEW e \in Fates
  PROVE  /\ [fate EXCEPT ![i] = e] \in Seq(Fates)
         /\ Len([fate EXCEPT ![i] = e]) = Len(log)
         /\ DOMAIN [fate EXCEPT ![i] = e] = DOMAIN log
<1>1. fate \in Seq(Fates) /\ Len(fate) = Len(log)
  BY DEF TypeOK
<1>2. DOMAIN fate = DOMAIN log
  BY NumberTypes
<1>3. /\ [fate EXCEPT ![i] = e] \in Seq(Fates)
      /\ Len([fate EXCEPT ![i] = e]) = Len(fate)
      /\ DOMAIN [fate EXCEPT ![i] = e] = DOMAIN fate
  BY <1>1, UpdateSeq, Zenon
<1> QED  BY <1>1, <1>2, <1>3, Zenon

\* Dropping the record in write writes its fate and nothing else of log.
LEMMA DroppedType ==
  ASSUME TypeOK, Dropped, fails' \in Nat, UNCHANGED <<created, rows>>
  PROVE  TypeOK'
<1>1. fate' \in Seq(Fates) /\ Len(fate') = Len(log')
  <2>1. PICK e \in Fates : fate' = [fate EXCEPT ![hand.seq] = e]
    BY Zenon DEF Dropped, Fates
  <2>2. /\ [fate EXCEPT ![hand.seq] = e] \in Seq(Fates)
        /\ Len([fate EXCEPT ![hand.seq] = e]) = Len(log)
    BY FateType, Zenon
  <2> QED  BY <2>1, <2>2, Zenon DEF Dropped
<1> QED  BY <1>1, Zenon DEF TypeOK, Dropped

\* NextTable moves the loop to the next table and touches no row.
LEMMA NextTableType ==
  ASSUME TypeOK, NEW id \in Series, NextTable(id), fails' \in Nat, rows' \subseteq Record
  PROVE  TypeOK'
  BY Zenon DEF TypeOK, NextTable

\* Every action keeps the variables in their types.
LEMMA TypeStep == TypeOK /\ HandInv /\ [Next]_vars => TypeOK'
<1> SUFFICES ASSUME TypeOK, HandInv, [Next]_vars PROVE TypeOK'
  OBVIOUS
<1>1. CASE Crash
  BY <1>1, EndProcessType DEF Crash, TypeOK
<1>2. CASE Open
  <2>1. life' \in Nat
    BY <1>2, NumberTypes DEF Open
  <2> QED  BY <1>2, <2>1, Zenon DEF TypeOK, Open, file
<1>3. CASE Signal \/ CollectorStopped
  BY <1>3 DEF TypeOK, Signal, CollectorStopped, memory, file, history
<1>4. CASE CloseChan \/ CloseDb \/ ClearDb
  BY <1>4 DEF TypeOK, CloseChan, CloseDb, ClearDb, file, history
<1>5. CASE Exit
  BY <1>5, EndProcessType DEF Exit, TypeOK
<1>6. ASSUME NEW id \in Series, NEW name \in Names, Load(id, name)
      PROVE  TypeOK'
  <2>1. RowsOf(id, name) \in SUBSET Record
    BY DEF RowsOf, TypeOK
  <2>2. restored' \in [Metric -> SUBSET Record]
    BY <1>6, <2>1 DEF Load, TypeOK
  <2>3. loadState' \in [Metric -> {"unread", "ok", "failed"}]
    BY <1>6 DEF Load, TypeOK
  <2> QED  BY <1>6, <2>2, <2>3, Zenon DEF TypeOK, Load, file, history
<1>7. ASSUME NEW id \in Series, NEW name \in Names, LoadFails(id, name)
      PROVE  TypeOK'
  <2>1. fails' \in Nat
    BY <1>7, NumberTypes DEF LoadFails
  <2>2. loadState' \in [Metric -> {"unread", "ok", "failed"}]
    BY <1>7 DEF LoadFails, TypeOK
  <2> QED  BY <1>7, <2>1, <2>2, Zenon DEF TypeOK, LoadFails, file
<1>8. ASSUME NEW c \in Callers, NEW id \in Series, NEW name \in Names,
             StoreCall(c, id, name)
      PROVE  TypeOK'
  <2>1. [id |-> id, name |-> name, time |-> now] \in Request
    BY NumberTypes DEF Request
  <2>2. pending' \in [Callers -> Request \cup {None}]
    BY <1>8, <2>1 DEF StoreCall, TypeOK
  <2> QED  BY <1>8, <2>2, Zenon DEF TypeOK, StoreCall, file, history
<1>9. ASSUME NEW c \in Callers, Store(c)
      PROVE  TypeOK'
  <2>1. Accepted(c) \in Record
    <3>1. pending[c] \in Request
      BY <1>9 DEF TypeOK, Store
    <3> QED  BY <3>1, NumberTypes DEF Accepted, Request, Record
  <2>2. wChan' \in Seq(Record) /\ Len(wChan') <= Cap
    <3>1. wChan \in Seq(Record) /\ Len(wChan) < Cap /\ wChan' = Append(wChan, Accepted(c))
      BY <1>9 DEF TypeOK, Store, HasRoom
    <3> QED  BY <2>1, <3>1, AppendProperties, LenProperties, CapNat
  <2>3. log' \in Seq(Record) /\ fate' \in Seq(Fates) /\ Len(fate') = Len(log')
    <3>1. /\ log \in Seq(Record) /\ fate \in Seq(Fates) /\ Len(fate) = Len(log)
          /\ log' = Append(log, Accepted(c)) /\ fate' = Append(fate, "live")
          /\ "live" \in Fates
      BY <1>9 DEF TypeOK, Store, Fates
    <3> QED  BY <2>1, <3>1, AppendProperties
  <2>4. pending' \in [Callers -> Request \cup {None}]
    BY <1>9 DEF TypeOK, Store
  <2> QED  BY <1>9, <2>2, <2>3, <2>4, Zenon DEF TypeOK, Store, file
<1>10. ASSUME NEW c \in Callers, SendOnClosed(c)
      PROVE  TypeOK'
  BY <1>10, EndProcessType DEF SendOnClosed, TypeOK
<1>11. CASE TickerFires \/ SelectTick
  BY <1>11 DEF TypeOK, TickerFires, SelectTick, ToShrink, file, history
<1>12. CASE Receive
  <2>1. /\ hand' \in Record /\ wChan' \in Seq(Record)
        /\ Len(wChan') <= Cap
    <3>1. /\ wChan \in Seq(Record) /\ wChan # <<>> /\ Len(wChan) <= Cap
          /\ hand' = Head(wChan) /\ wChan' = Tail(wChan)
      BY <1>12 DEF TypeOK, Receive
    <3> QED  BY <3>1, HeadTailProperties, LenProperties, CapNat
  <2> QED  BY <1>12, <2>1, Zenon DEF TypeOK, Receive, file, history
<1>13. CASE ReceiveNil
  BY <1>13 DEF TypeOK, ReceiveNil, file, history
<1>14. CASE CreateTable
  <2>1. hand.id \in Series
    BY <1>14, HandType DEF CreateTable, Record
  <2> QED  BY <1>14, <2>1, Zenon DEF TypeOK, CreateTable, Created, history
<1>15. CASE CreateFails
  <2>1. fails' \in Nat /\ UNCHANGED <<created, rows>>
    BY <1>15, ExecFailsType DEF CreateFails, Dropped, file
  <2> QED  BY <1>15, <2>1, DroppedType, Zenon DEF CreateFails
<1>16. CASE Insert
  <2>1. rows' \subseteq Record
    BY <1>16, HandType DEF Insert, Upsert, TypeOK
  <2>2. fate' \in Seq(Fates) /\ Len(fate') = Len(log')
    <3>1. "kept" \in Fates
      BY DEF Fates
    <3> QED  BY <1>16, <3>1, FateType, Zenon DEF Insert
  <2> QED  BY <1>16, <2>1, <2>2, Zenon DEF TypeOK, Insert
<1>17. CASE InsertFails
  <2>1. fails' \in Nat /\ UNCHANGED <<created, rows>>
    BY <1>17, ExecFailsType, NumberTypes DEF InsertFails, Dropped, file
  <2> QED  BY <1>17, <2>1, DroppedType, Zenon DEF InsertFails
<1>18. ASSUME NEW id \in Series, Shrink(id)
       PROVE  TypeOK'
  <2>1. rows' \subseteq Record /\ fails' \in Nat
    BY <1>18 DEF Shrink, Shrunk, TypeOK
  <2> QED  BY <1>18, <2>1, NextTableType DEF Shrink
<1>19. ASSUME NEW id \in Series, ShrinkFails(id)
       PROVE  TypeOK'
  <2>1. rows' \subseteq Record /\ fails' \in Nat
    BY <1>19, ExecFailsType DEF ShrinkFails, TypeOK
  <2> QED  BY <1>19, <2>1, NextTableType DEF ShrinkFails
<1>20. CASE LoopPanic
  BY <1>20, EndProcessType DEF LoopPanic, TypeOK
<1>21. CASE ClockTick
  <2>1. now' \in Nat
    BY <1>21, NumberTypes DEF ClockTick
  <2> QED  BY <1>21, <2>1, Zenon DEF TypeOK, ClockTick, memory, file, history
<1>22. CASE UNCHANGED vars
  BY <1>22 DEF TypeOK, vars, memory, file, history
<1> QED
  BY <1>1, <1>2, <1>3, <1>4, <1>5, <1>6, <1>7, <1>8, <1>9, <1>10, <1>11, <1>12,
     <1>13, <1>14, <1>15, <1>16, <1>17, <1>18, <1>19, <1>20, <1>21, <1>22
  DEF Next, Main, Collector, WriteLoop

\* The loop is in write exactly while it holds a record, and it inserts only
\* into a table that exists.
LEMMA HandStep == TypeOK /\ HandInv /\ [Next]_vars => HandInv'
<1> SUFFICES ASSUME TypeOK, HandInv, [Next]_vars PROVE HandInv'
  OBVIOUS
<1>1. CASE Crash \/ Exit \/ LoopPanic \/ \E c \in Callers : SendOnClosed(c)
  <2>1. EndProcess
    BY <1>1 DEF Crash, Exit, LoopPanic, SendOnClosed
  <2> QED  BY <2>1 DEF EndProcess, HandInv
<1>2. CASE Open
  BY <1>2 DEF HandInv, Open, file
<1>3. CASE Signal \/ CollectorStopped
  BY <1>3 DEF HandInv, Signal, CollectorStopped, memory, file, history
<1>4. CASE CloseChan \/ CloseDb \/ ClearDb
  BY <1>4 DEF HandInv, CloseChan, CloseDb, ClearDb, file, history
<1>5. ASSUME NEW id \in Series, NEW name \in Names, Load(id, name) \/ LoadFails(id, name)
      PROVE  HandInv'
  BY <1>5 DEF HandInv, Load, LoadFails, file, history
<1>6. ASSUME NEW c \in Callers, NEW id \in Series, NEW name \in Names,
             StoreCall(c, id, name)
      PROVE  HandInv'
  BY <1>6 DEF HandInv, StoreCall, file, history
<1>7. ASSUME NEW c \in Callers, Store(c)
      PROVE  HandInv'
  BY <1>7 DEF HandInv, Store, file
<1>8. CASE TickerFires \/ SelectTick
  BY <1>8 DEF HandInv, TickerFires, SelectTick, file, history
<1>9. CASE Receive
  <2>1. hand' \in Record /\ hand' # None
    <3>1. wChan \in Seq(Record) /\ wChan # <<>> /\ hand' = Head(wChan)
      BY <1>9 DEF TypeOK, Receive
    <3> QED  BY <3>1, HeadTailProperties, StoreAssumption, Zenon
  <2> QED  BY <1>9, <2>1 DEF HandInv, Receive, file, history
<1>10. CASE ReceiveNil
  BY <1>10 DEF HandInv, ReceiveNil, file, history
<1>11. CASE CreateTable
  BY <1>11 DEF HandInv, CreateTable, Created, history
<1>12. CASE CreateFails \/ InsertFails
  BY <1>12 DEF HandInv, CreateFails, InsertFails, Dropped, file
<1>13. CASE Insert
  BY <1>13 DEF HandInv, Insert
<1>14. ASSUME NEW id \in Series, Shrink(id) \/ ShrinkFails(id)
       PROVE  HandInv'
  BY <1>14 DEF HandInv, Shrink, ShrinkFails, NextTable
<1>15. CASE ClockTick
  BY <1>15 DEF HandInv, ClockTick, memory, file, history
<1>16. CASE UNCHANGED vars
  BY <1>16 DEF HandInv, vars, memory, file, history
<1> QED
  BY <1>1, <1>2, <1>3, <1>4, <1>5, <1>6, <1>7, <1>8, <1>9, <1>10, <1>11, <1>12,
     <1>13, <1>14, <1>15, <1>16
  DEF Next, Main, Collector, WriteLoop

\* The initial state has the types, and no record is in write.
LEMMA InitType == Init => TypeOK /\ HandInv
<1> SUFFICES ASSUME Init PROVE TypeOK /\ HandInv
  OBVIOUS
<1>1. /\ wChan \in Seq(Record) /\ Len(wChan) = 0
      /\ log \in Seq(Record) /\ Len(log) = 0
      /\ fate \in Seq(Fates) /\ Len(fate) = 0
  BY EmptySeq DEF Init
<1>2. Len(wChan) <= Cap
  BY <1>1, CapNat
<1>3. TypeOK
  BY <1>1, <1>2, StoreAssumption DEF Init, TypeOK
<1>4. HandInv
  BY DEF Init, HandInv
<1> QED  BY <1>3, <1>4

\* Through every run of the storage the variables have their types, the
\* channel of NewStorage never holds more than its buffer size, and log and
\* fate describe the same records.
THEOREM TypeCorrect == Spec => []TypeOK
<1>1. Init => TypeOK /\ HandInv
  BY InitType
<1>2. TypeOK /\ HandInv /\ [Next]_vars => (TypeOK /\ HandInv)'
  BY TypeStep, HandStep
<1> QED  BY <1>1, <1>2, PTL DEF Spec

-----------------------------------------------------------------------------
(* Sending on the closed channel *)

\* The goroutines of the collector are idle when main closes the channel.
LEMMA CallerStep ==
  ASSUME TypeOK, CallerInv, [Next]_vars
  PROVE  CallerInv'
<1> USE DEF CallerInv, NoSendOnClosed
<1>1. CASE Crash \/ Exit \/ LoopPanic
  <2>1. main' = "down" /\ pending' = [c \in Callers |-> None]
    BY <1>1 DEF Crash, Exit, LoopPanic, EndProcess
  <2>2. "send on closed channel" \notin panics => "send on closed channel" \notin panics'
    <3>1. "nil database" # "send on closed channel"
      OBVIOUS
    <3> QED  BY <1>1, <3>1, Zenon DEF Crash, Exit, LoopPanic
  <2> QED  BY <2>1, <2>2
<1>2. CASE Open \/ Signal \/ CollectorStopped
  BY <1>2 DEF Open, Signal, CollectorStopped, memory, history
<1>3. CASE CloseChan \/ CloseDb \/ ClearDb
  BY <1>3 DEF CloseChan, CloseDb, ClearDb, history
<1>4. ASSUME NEW id \in Series, NEW name \in Names, Load(id, name) \/ LoadFails(id, name)
      PROVE  CallerInv'
  BY <1>4 DEF Load, LoadFails, history
<1>5. ASSUME NEW c \in Callers, NEW id \in Series, NEW name \in Names,
             StoreCall(c, id, name)
      PROVE  CallerInv'
  <2>1. UNCHANGED <<main, chanOpen, panics>> /\ (StopJoins => main \in {"run", "stop"})
    BY <1>5 DEF StoreCall, history
  <2> QED  BY <2>1
<1>6. ASSUME NEW c \in Callers, Store(c)
      PROVE  CallerInv'
  <2>1. UNCHANGED <<main, chanOpen, panics>> /\ pending[c] # None
    BY <1>6 DEF Store
  <2>2. pending' = [pending EXCEPT ![c] = None]
    BY <1>6 DEF Store
  <2> QED  BY <2>1, <2>2 DEF TypeOK
<1>7. ASSUME NEW c \in Callers, SendOnClosed(c)
      PROVE  CallerInv'
  <2>1. ~StopJoins
    BY <1>7 DEF SendOnClosed
  <2>2. main' = "down"
    BY <1>7 DEF SendOnClosed, EndProcess
  <2> QED  BY <2>1, <2>2
<1>8. CASE TickerFires \/ SelectTick \/ Receive \/ ReceiveNil
  BY <1>8 DEF TickerFires, SelectTick, Receive, ReceiveNil, history
<1>9. CASE CreateTable \/ CreateFails \/ Insert \/ InsertFails
  BY <1>9 DEF CreateTable, Created, CreateFails, Insert, InsertFails, Dropped, history
<1>10. ASSUME NEW id \in Series, Shrink(id) \/ ShrinkFails(id)
       PROVE  CallerInv'
  BY <1>10 DEF Shrink, ShrinkFails, NextTable
<1>11. CASE ClockTick \/ UNCHANGED vars
  BY <1>11 DEF ClockTick, vars, memory, history
<1> QED
  BY <1>1, <1>2, <1>3, <1>4, <1>5, <1>6, <1>7, <1>8, <1>9, <1>10, <1>11
  DEF Next, Main, Collector, WriteLoop

\* If Collector.Stop returns only once no goroutine of the collector can call
\* Store, then no goroutine ever sends on the channel that Close closed: the
\* order of main's deferred function, Collector.Stop before Storage.Close, is
\* enough.
THEOREM NeverSendOnClosed == ASSUME StopJoins PROVE Spec => []NoSendOnClosed
<1>1. Init => TypeOK /\ HandInv /\ CallerInv
  <2>1. Init => CallerInv
    BY DEF Init, CallerInv, NoSendOnClosed
  <2> QED  BY <2>1, InitType
<1>2. TypeOK /\ HandInv /\ CallerInv /\ [Next]_vars => (TypeOK /\ HandInv /\ CallerInv)'
  BY TypeStep, HandStep, CallerStep
<1>3. CallerInv => NoSendOnClosed
  BY DEF CallerInv
<1> QED  BY <1>1, <1>2, <1>3, PTL DEF Spec

-----------------------------------------------------------------------------
(* The order of the records *)

\* What a step can do to the records that are accepted and not settled.
Quiet ==
    /\ UNCHANGED <<wChan, hand, log, fate, life>>
    /\ main' = "down" <=> main = "down"

Settles(e) ==
    /\ hand # None
    /\ fate' = [fate EXCEPT ![hand.seq] = e]
    /\ hand' = None
    /\ UNCHANGED <<main, wChan, log, life>>

\* Every step accepts a record, takes one from the channel, settles the one
\* in write, starts or ends the process, or leaves the records alone.
LEMMA StepKinds ==
  ASSUME HandInv, [Next]_vars
  PROVE  \/ Quiet
         \/ Open
         \/ \E c \in Callers : Store(c)
         \/ Receive
         \/ \E e \in Settled : Settles(e)
         \/ EndProcess
<1>1. CASE Crash \/ Exit \/ LoopPanic \/ \E c \in Callers : SendOnClosed(c)
  BY <1>1 DEF Crash, Exit, LoopPanic, SendOnClosed
<1>2. CASE Signal \/ CollectorStopped
  BY <1>2 DEF Quiet, Signal, CollectorStopped, memory, history
<1>3. CASE CloseChan \/ CloseDb \/ ClearDb
  BY <1>3 DEF Quiet, CloseChan, CloseDb, ClearDb, history
<1>4. CASE \E id \in Series, name \in Names : Load(id, name) \/ LoadFails(id, name)
  BY <1>4 DEF Quiet, Load, LoadFails, history
<1>5. CASE \E c \in Callers, id \in Series, name \in Names : StoreCall(c, id, name)
  BY <1>5 DEF Quiet, StoreCall, history
<1>6. CASE TickerFires \/ SelectTick \/ ReceiveNil
  BY <1>6 DEF Quiet, TickerFires, SelectTick, ReceiveNil, history
<1>7. CASE CreateTable
  BY <1>7 DEF Quiet, CreateTable, Created, history
<1>8. CASE CreateFails \/ InsertFails
  BY <1>8 DEF HandInv, Settles, Settled, CreateFails, InsertFails, Dropped
<1>9. CASE Insert
  BY <1>9 DEF HandInv, Settles, Settled, Insert
<1>10. CASE \E id \in Series : Shrink(id) \/ ShrinkFails(id)
  BY <1>10 DEF Quiet, Shrink, ShrinkFails, NextTable
<1>11. CASE ClockTick \/ UNCHANGED vars
  BY <1>11 DEF Quiet, ClockTick, vars, memory, history
<1> QED
  BY <1>1, <1>2, <1>3, <1>4, <1>5, <1>6, <1>7, <1>8, <1>9, <1>10, <1>11
  DEF Next, Main, Collector, WriteLoop

\* Store appends the same record to the log and to the channel.
LEMMA StoreEffect ==
  ASSUME TypeOK, NEW c \in Callers, Store(c)
  PROVE  LET n == Len(log) + 1
             m == Len(wChan) + 1
         IN  /\ n \in Nat /\ m \in Nat
             /\ DOMAIN log' = 1..n /\ DOMAIN wChan' = 1..m
             /\ \A s \in 1..Len(log) : log'[s] = log[s] /\ fate'[s] = fate[s]
             /\ \A i \in 1..Len(wChan) : wChan'[i] = wChan[i]
             /\ log'[n] = Accepted(c) /\ fate'[n] = "live"
             /\ wChan'[m] = Accepted(c)
             /\ Accepted(c).seq = n /\ Accepted(c).life = life
<1>1. Accepted(c) \in Record
  <2>1. pending[c] \in Request
    BY DEF TypeOK, Store
  <2> QED  BY <2>1, NumberTypes DEF Accepted, Request, Record
<1>2. /\ log \in Seq(Record) /\ wChan \in Seq(Record)
      /\ fate \in Seq(Fates) /\ Len(fate) = Len(log) /\ "live" \in Fates
  BY DEF TypeOK, Fates
<1>3. /\ log' = Append(log, Accepted(c)) /\ wChan' = Append(wChan, Accepted(c))
      /\ fate' = Append(fate, "live")
  BY DEF Store
<1>4. /\ DOMAIN log' = 1..(Len(log) + 1)
      /\ \A s \in 1..Len(log) : log'[s] = log[s]
      /\ log'[Len(log) + 1] = Accepted(c)
  BY <1>1, <1>2, <1>3, AppendProperties, LenProperties
<1>5. /\ \A s \in 1..Len(log) : fate'[s] = fate[s]
      /\ fate'[Len(log) + 1] = "live"
  BY <1>2, <1>3, AppendProperties, LenProperties
<1>6. /\ DOMAIN wChan' = 1..(Len(wChan) + 1)
      /\ \A s \in 1..Len(wChan) : wChan'[s] = wChan[s]
      /\ wChan'[Len(wChan) + 1] = Accepted(c)
  BY <1>1, <1>2, <1>3, AppendProperties, LenProperties
<1> QED  BY <1>4, <1>5, <1>6, NumberTypes DEF Accepted

\* Receive moves the first record of the channel into write.
LEMMA ReceiveEffect ==
  ASSUME TypeOK, Receive
  PROVE  /\ Len(wChan) >= 1 /\ Len(wChan) \in Nat
         /\ hand' = wChan[1]
         /\ DOMAIN wChan' = 1..(Len(wChan) - 1)
         /\ \A i \in 1..(Len(wChan) - 1) : wChan'[i] = wChan[i + 1]
         /\ UNCHANGED <<main, log, fate, life>>
<1>1. /\ wChan \in Seq(Record) /\ wChan # <<>>
      /\ hand' = Head(wChan) /\ wChan' = Tail(wChan)
  BY DEF TypeOK, Receive
<1>2. /\ Len(wChan) >= 1 /\ Len(wChan) \in Nat
      /\ Head(wChan) = wChan[1]
  BY <1>1, EmptySeq, LenProperties
<1>3. /\ DOMAIN wChan' = 1..(Len(wChan) - 1)
      /\ \A i \in 1..(Len(wChan) - 1) : wChan'[i] = wChan[i + 1]
  BY <1>1, HeadTailProperties, LenProperties
<1> QED  BY <1>1, <1>2, <1>3 DEF Receive, history

\* Settling the record in write changes the fate of that record alone.
LEMMA SettlesEffect ==
  ASSUME TypeOK, QueueInv, NEW e, Settles(e)
  PROVE  /\ hand \in Record /\ hand.seq \in DOMAIN log
         /\ fate'[hand.seq] = e
         /\ \A s \in DOMAIN log : s # hand.seq => fate'[s] = fate[s]
<1>1. hand \in Record
  BY DEF TypeOK, Settles
<1>2. hand.seq \in DOMAIN log
  BY DEF QueueInv, Settles
<1>3. DOMAIN fate = DOMAIN log /\ fate \in [DOMAIN fate -> Fates]
  BY NumberTypes, LenProperties DEF TypeOK
<1>4. fate' = [fate EXCEPT ![hand.seq] = e]
  BY DEF Settles
<1> QED  BY <1>1, <1>2, <1>3, <1>4, Zenon

\* When the process ends, the records that were live are lost and no other
\* record changes its fate.
LEMMA EndEffect ==
  ASSUME TypeOK, EndProcess
  PROVE  /\ main' = "down" /\ hand' = None /\ DOMAIN wChan' = {}
         /\ UNCHANGED <<log, life>>
         /\ \A s \in DOMAIN log :
               fate'[s] = IF fate[s] = "live" THEN "lost" ELSE fate[s]
<1>1. DOMAIN fate = DOMAIN log
  BY NumberTypes
<1>2. wChan' = <<>>
  BY DEF EndProcess
<1>3. DOMAIN wChan' = {}
  BY <1>2, EmptySeq, LenProperties
<1> QED  BY <1>1, <1>3 DEF EndProcess

\* The fields of the records that a sequence holds.
LEMMA ElementTypes ==
  ASSUME TypeOK
  PROVE  /\ \A s \in DOMAIN log : log[s] \in Record /\ log[s].life \in Nat
         /\ \A i \in DOMAIN wChan : wChan[i] \in Record /\ wChan[i].seq \in Nat
         /\ hand # None => hand \in Record /\ hand.seq \in Nat
<1>1. /\ log \in Seq(Record) /\ wChan \in Seq(Record)
      /\ hand \in Record \cup {None}
  BY DEF TypeOK
<1>2. \A s \in DOMAIN log : log[s] \in Record
  BY <1>1, ElementOfSeq, LenProperties
<1>3. \A i \in DOMAIN wChan : wChan[i] \in Record
  BY <1>1, ElementOfSeq, LenProperties
<1>4. \A r \in Record : r.seq \in Nat /\ r.life \in Nat
  BY DEF Record
<1> QED  BY <1>1, <1>2, <1>3, <1>4

\* The log records the order of acceptance, and only records of the running
\* process are live.
LEMMA LogStep ==
  ASSUME TypeOK, HandInv, LogInv, QueueInv, [Next]_vars
  PROVE  LogInv'
<1> USE NumberTypes DEF LogInv
<1>1. CASE Quiet
  BY <1>1 DEF Quiet
<1>2. CASE Open
  <2>1. UNCHANGED <<log, fate>> /\ life' = life + 1 /\ main = "down"
    BY <1>2 DEF Open
  <2>2. \A s \in DOMAIN log : log[s].life < life'
    BY <2>1, ElementTypes
  <2> QED  BY <2>1, <2>2, ElementTypes
<1>3. ASSUME NEW c \in Callers, Store(c)
      PROVE  LogInv'
  <2>1. UNCHANGED <<main, life>> /\ main # "down"
    BY <1>3 DEF Store, HandInv
  <2>2. \A s \in DOMAIN log' : log'[s].seq = s /\ log'[s].life <= life'
    BY <1>3, <2>1, StoreEffect
  <2>3. ASSUME NEW s \in DOMAIN log', NEW t \in DOMAIN log', s < t
        PROVE  log'[s].life <= log'[t].life
    <3>1. CASE t \in DOMAIN log
      <4>1. s \in DOMAIN log /\ log'[s] = log[s] /\ log'[t] = log[t]
        BY <1>3, <2>3, <3>1, StoreEffect
      <4> QED  BY <2>3, <3>1, <4>1
    <3>2. CASE t = Len(log) + 1
      BY <1>3, <2>1, <2>2, <3>2, StoreEffect
    <3> QED  BY <1>3, <3>1, <3>2, StoreEffect
  <2>4. ASSUME NEW s \in DOMAIN log'
        PROVE  /\ fate'[s] = "live" => log'[s].life = life' /\ main' # "down"
               /\ fate'[s] = "lost" /\ log'[s].life = life' => main' = "down"
    <3>1. CASE s \in DOMAIN log
      <4>1. log'[s] = log[s] /\ fate'[s] = fate[s]
        BY <1>3, <3>1, StoreEffect
      <4> QED  BY <2>1, <3>1, <4>1, Zenon
    <3>2. CASE s = Len(log) + 1
      BY <1>3, <2>1, <3>2, StoreEffect
    <3> QED  BY <1>3, <3>1, <3>2, StoreEffect
  <2> QED  BY <2>2, <2>3, <2>4
<1>4. CASE Receive
  BY <1>4, ReceiveEffect
<1>5. ASSUME NEW e \in Settled, Settles(e)
      PROVE  LogInv'
  <2>1. UNCHANGED <<main, log, life>> /\ e # "live" /\ e # "lost"
    BY <1>5 DEF Settles, Settled
  <2> QED  BY <1>5, <2>1, SettlesEffect
<1>6. CASE EndProcess
  BY <1>6, EndEffect
<1> QED  BY <1>1, <1>2, <1>3, <1>4, <1>5, <1>6, StepKinds

\* The records that are live are the one in write and, behind it, those in the
\* channel.
LEMMA QueueStep ==
  ASSUME TypeOK, HandInv, LogInv, QueueInv, [Next]_vars
  PROVE  QueueInv'
<1> USE NumberTypes DEF QueueInv, Queued
<1>1. CASE Quiet
  BY <1>1 DEF Quiet
<1>2. CASE Open
  BY <1>2 DEF Open
<1>3. ASSUME NEW c \in Callers, Store(c)
      PROVE  QueueInv'
  <2>1. UNCHANGED hand
    BY <1>3 DEF Store
  <2>2. \A i \in DOMAIN wChan' :
           /\ wChan'[i].seq \in DOMAIN log'
           /\ log'[wChan'[i].seq] = wChan'[i]
           /\ fate'[wChan'[i].seq] = "live"
    <3>1. ASSUME NEW i \in DOMAIN wChan
          PROVE  /\ wChan'[i].seq \in DOMAIN log'
                 /\ log'[wChan'[i].seq] = wChan'[i]
                 /\ fate'[wChan'[i].seq] = "live"
      <4>1. wChan'[i] = wChan[i]
        BY <1>3, StoreEffect
      <4>2. /\ wChan[i].seq \in DOMAIN log
            /\ log[wChan[i].seq] = wChan[i]
            /\ fate[wChan[i].seq] = "live"
        OBVIOUS
      <4>3. /\ wChan[i].seq \in DOMAIN log'
            /\ log'[wChan[i].seq] = log[wChan[i].seq]
            /\ fate'[wChan[i].seq] = fate[wChan[i].seq]
        BY <1>3, <4>2, StoreEffect
      <4> QED  BY <4>1, <4>2, <4>3, Zenon
    <3>2. /\ wChan'[Len(wChan) + 1] = Accepted(c)
          /\ Accepted(c).seq \in DOMAIN log'
          /\ log'[Accepted(c).seq] = Accepted(c)
          /\ fate'[Accepted(c).seq] = "live"
      <4>1. /\ DOMAIN log' = 1..(Len(log) + 1) /\ Len(log) + 1 \in Nat
            /\ wChan'[Len(wChan) + 1] = Accepted(c)
            /\ log'[Len(log) + 1] = Accepted(c) /\ fate'[Len(log) + 1] = "live"
            /\ Accepted(c).seq = Len(log) + 1
        BY <1>3, StoreEffect
      <4>2. Len(log) + 1 \in DOMAIN log'
        BY <4>1
      <4> QED  BY <4>1, <4>2, Zenon
    <3>3. /\ DOMAIN wChan = 1..Len(wChan) /\ Len(wChan) \in Nat
          /\ DOMAIN wChan' = 1..(Len(wChan) + 1)
      BY <1>3, StoreEffect
    <3>4. DOMAIN wChan' = DOMAIN wChan \cup {Len(wChan) + 1}
      BY <3>3
    <3> QED  BY <3>1, <3>2, <3>4, Zenon
  <2>3. \A i, j \in DOMAIN wChan' : i < j => wChan'[i].seq < wChan'[j].seq
    <3> SUFFICES ASSUME NEW i \in DOMAIN wChan', NEW j \in DOMAIN wChan', i < j
                 PROVE  wChan'[i].seq < wChan'[j].seq
      OBVIOUS
    <3>1. /\ DOMAIN wChan = 1..Len(wChan) /\ Len(wChan) \in Nat
          /\ DOMAIN wChan' = 1..(Len(wChan) + 1)
          /\ DOMAIN log = 1..Len(log) /\ Len(log) \in Nat
          /\ \A k \in DOMAIN wChan : wChan'[k] = wChan[k]
          /\ wChan'[Len(wChan) + 1].seq = Len(log) + 1
      BY <1>3, StoreEffect
    <3>2. i \in DOMAIN wChan /\ (j \in DOMAIN wChan \/ j = Len(wChan) + 1)
      BY <3>1
    <3>3. wChan[i].seq \in DOMAIN log
      BY <3>2
    <3>4. CASE j \in DOMAIN wChan
      BY <3>1, <3>2, <3>4
    <3>5. CASE j = Len(wChan) + 1
      BY <3>1, <3>2, <3>3, <3>5
    <3> QED  BY <3>2, <3>4, <3>5
  <2>4. hand' # None =>
           /\ hand'.seq \in DOMAIN log'
           /\ log'[hand'.seq] = hand'
           /\ fate'[hand'.seq] = "live"
           /\ \A i \in DOMAIN wChan' : hand'.seq < wChan'[i].seq
    <3> SUFFICES ASSUME hand # None
                 PROVE  /\ hand.seq \in DOMAIN log'
                        /\ log'[hand.seq] = hand
                        /\ fate'[hand.seq] = "live"
                        /\ \A i \in DOMAIN wChan' : hand.seq < wChan'[i].seq
      BY <2>1, Zenon
    <3>1. /\ hand.seq \in 1..Len(log)
          /\ log[hand.seq] = hand /\ fate[hand.seq] = "live"
          /\ \A i \in DOMAIN wChan : hand.seq < wChan[i].seq
      OBVIOUS
    <3>2. /\ hand.seq \in DOMAIN log'
          /\ log'[hand.seq] = hand /\ fate'[hand.seq] = "live"
      BY <1>3, <3>1, StoreEffect
    <3>3. ASSUME NEW i \in DOMAIN wChan' PROVE hand.seq < wChan'[i].seq
      <4>1. CASE i \in DOMAIN wChan
        BY <1>3, <3>1, <4>1, StoreEffect
      <4>2. CASE i = Len(wChan) + 1
        BY <1>3, <3>1, <4>2, StoreEffect
      <4> QED  BY <1>3, <4>1, <4>2, StoreEffect
    <3> QED  BY <3>2, <3>3
  <2>5. ASSUME NEW s \in DOMAIN log', fate'[s] = "live"
        PROVE  (hand' # None /\ hand'.seq = s) \/ Queued(s)'
    <3>1. CASE s = Len(log) + 1
      BY <1>3, <3>1, StoreEffect
    <3>2. CASE s \in DOMAIN log /\ fate[s] = "live"
      BY <1>3, <2>1, <3>2, StoreEffect
    <3> QED  BY <1>3, <2>5, <3>1, <3>2, StoreEffect
  <2> QED  BY <2>2, <2>3, <2>4, <2>5
<1>4. CASE Receive
  <2>1. hand = None
    BY <1>4 DEF HandInv, Receive
  <2>2. \A i \in DOMAIN wChan' :
           /\ i \in Nat /\ i > 0
           /\ i + 1 \in DOMAIN wChan /\ wChan'[i] = wChan[i + 1]
    BY <1>4, ReceiveEffect
  <2>3. /\ 1 \in DOMAIN wChan /\ hand' = wChan[1]
        /\ UNCHANGED <<log, fate>>
    BY <1>4, ReceiveEffect
  <2>4. \A i, j \in DOMAIN wChan' : i < j => wChan'[i].seq < wChan'[j].seq
    <3> TAKE i, j \in DOMAIN wChan'
    <3> HAVE i < j
    <3>1. i + 1 < j + 1
      BY <2>2
    <3>2. wChan[i + 1].seq < wChan[j + 1].seq
      BY <2>2, <3>1
    <3> QED  BY <2>2, <3>2
  <2>5. \A i \in DOMAIN wChan' : hand'.seq < wChan'[i].seq
    <3> TAKE i \in DOMAIN wChan'
    <3>1. 1 < i + 1
      BY <2>2
    <3>2. wChan[1].seq < wChan[i + 1].seq
      BY <2>2, <2>3, <3>1
    <3> QED  BY <2>2, <2>3, <3>2
  <2>6. ASSUME NEW s \in DOMAIN log', fate'[s] = "live"
        PROVE  (hand' # None /\ hand'.seq = s) \/ Queued(s)'
    <3>1. PICK i \in DOMAIN wChan : wChan[i].seq = s
      BY <2>1, <2>3, <2>6
    <3>2. CASE i = 1
      <4>1. hand' \in Record
        BY <2>3, ElementTypes, Zenon
      <4>2. hand' # None
        BY <4>1, StoreAssumption, Zenon
      <4> QED  BY <2>3, <3>1, <3>2, <4>2
    <3>3. CASE i # 1
      <4>1. i - 1 \in DOMAIN wChan' /\ wChan'[i - 1] = wChan[i]
        BY <1>4, <3>3, ReceiveEffect
      <4> QED  BY <3>1, <4>1
    <3> QED  BY <3>2, <3>3
  <2> QED  BY <2>2, <2>3, <2>4, <2>5, <2>6
<1>5. ASSUME NEW e \in Settled, Settles(e)
      PROVE  QueueInv'
  <2>1. UNCHANGED <<log, wChan>> /\ hand' = None /\ hand # None /\ e # "live"
    BY <1>5 DEF Settles, Settled
  <2>2. \A i \in DOMAIN wChan : fate'[wChan[i].seq] = "live"
    BY <1>5, <2>1, SettlesEffect, ElementTypes
  <2>3. ASSUME NEW s \in DOMAIN log, fate'[s] = "live"
        PROVE  Queued(s)
    BY <1>5, <2>1, <2>3, SettlesEffect
  <2> QED  BY <2>1, <2>2, <2>3
<1>6. CASE EndProcess
  BY <1>6, EndEffect
<1> QED  BY <1>1, <1>2, <1>3, <1>4, <1>5, <1>6, StepKinds

\* A record is settled only after the records of its life accepted before it.
LEMMA OrderStep ==
  ASSUME TypeOK, HandInv, LogInv, QueueInv, NoOvertaking, [Next]_vars
  PROVE  NoOvertaking'
<1> USE NumberTypes DEF NoOvertaking
<1>1. CASE Quiet
  BY <1>1 DEF Quiet
<1>2. CASE Open
  BY <1>2 DEF Open
<1>3. ASSUME NEW c \in Callers, Store(c)
      PROVE  NoOvertaking'
  <2> SUFFICES ASSUME NEW s \in DOMAIN log', NEW t \in DOMAIN log', s < t,
                      log'[s].life = log'[t].life, fate'[t] \in Settled
               PROVE  fate'[s] \in Settled
    BY DEF Settled
  <2>1. s \in DOMAIN log /\ t \in DOMAIN log
    BY <1>3, StoreEffect DEF Settled
  <2> QED  BY <1>3, <2>1, StoreEffect DEF Settled
<1>4. CASE Receive
  BY <1>4, ReceiveEffect
<1>5. ASSUME NEW e \in Settled, Settles(e)
      PROVE  NoOvertaking'
  <2> SUFFICES ASSUME NEW s \in DOMAIN log, NEW t \in DOMAIN log, s < t,
                      log[s].life = log[t].life, fate'[t] \in Settled
               PROVE  fate'[s] \in Settled
    BY <1>5 DEF Settled, Settles
  <2>1. CASE s = hand.seq
    BY <1>5, <2>1, SettlesEffect
  <2>2. CASE s # hand.seq /\ t # hand.seq
    BY <1>5, <2>2, SettlesEffect DEF Settled
  <2>3. CASE s # hand.seq /\ t = hand.seq
    <3>1. hand # None /\ fate[t] = "live" /\ log[t].life = life /\ main # "down"
      BY <1>5, <2>3 DEF Settles, QueueInv, LogInv
    <3>2. fate[s] # "lost"
      BY <3>1 DEF LogInv
    <3>3. fate[s] # "live"
      <4>1. \A i \in DOMAIN wChan : t < wChan[i].seq
        BY <2>3, <3>1 DEF QueueInv
      <4> QED  BY <2>3, <4>1, ElementTypes DEF QueueInv, Queued
    <3>4. fate[s] \in Fates
      BY ElementOfSeq DEF TypeOK
    <3> QED  BY <1>5, <2>3, <3>2, <3>3, <3>4, SettlesEffect DEF Fates, Settled
  <2> QED  BY <2>1, <2>2, <2>3
<1>6. CASE EndProcess
  BY <1>6, EndEffect
<1> QED  BY <1>1, <1>2, <1>3, <1>4, <1>5, <1>6, StepKinds

\* Records leave the channel in the order in which Store accepted them, and
\* write settles one before it takes the next: at any moment, in any life of
\* the process, the records that are settled are the first ones accepted.
THEOREM InOrder == Spec => []NoOvertaking
<1> DEFINE Inv == TypeOK /\ HandInv /\ LogInv /\ QueueInv /\ NoOvertaking
<1>1. Init => Inv
  <2>1. Init => LogInv /\ QueueInv /\ NoOvertaking
    BY DEF Init, LogInv, QueueInv, NoOvertaking, Queued
  <2> QED  BY <2>1, InitType
<1>2. Inv /\ [Next]_vars => Inv'
  BY TypeStep, HandStep, LogStep, QueueStep, OrderStep
<1> QED  BY <1>1, <1>2, PTL DEF Spec

-----------------------------------------------------------------------------
(* The rows *)

\* A step that leaves the rows alone.
Still ==
    /\ UNCHANGED rows
    /\ created \subseteq created'
    /\ now <= now'
    /\ \/ Quiet
       \/ Open
       \/ \E c \in Callers : Store(c)
       \/ Receive
       \/ \E e \in {"refused", "late"} : Settles(e)
       \/ EndProcess

\* Only Insert and Shrink change the rows, and no step changes the clock and
\* the rows together.
LEMMA RowKinds ==
  ASSUME TypeOK, HandInv, [Next]_vars
  PROVE  Still \/ Insert \/ \E id \in Series : Shrink(id)
<1> USE NumberTypes DEF Still
<1>1. CASE Crash \/ Exit \/ LoopPanic \/ \E c \in Callers : SendOnClosed(c)
  <2>1. EndProcess
    BY <1>1 DEF Crash, Exit, LoopPanic, SendOnClosed
  <2> QED  BY <2>1 DEF EndProcess
<1>2. CASE Open
  BY <1>2 DEF Open, file
<1>3. CASE Signal \/ CollectorStopped
  BY <1>3 DEF Quiet, Signal, CollectorStopped, memory, file, history
<1>4. CASE CloseChan \/ CloseDb \/ ClearDb
  BY <1>4 DEF Quiet, CloseChan, CloseDb, ClearDb, file, history
<1>5. CASE \E id \in Series, name \in Names : Load(id, name) \/ LoadFails(id, name)
  BY <1>5 DEF Quiet, Load, LoadFails, file, history
<1>6. CASE \E c \in Callers, id \in Series, name \in Names : StoreCall(c, id, name)
  BY <1>6 DEF Quiet, StoreCall, file, history
<1>7. ASSUME NEW c \in Callers, Store(c)
      PROVE  Still
  <2>1. UNCHANGED <<rows, created, now>>
    BY <1>7 DEF Store, file
  <2> QED  BY <1>7, <2>1
<1>8. CASE TickerFires \/ SelectTick \/ ReceiveNil
  BY <1>8 DEF Quiet, TickerFires, SelectTick, ReceiveNil, file, history
<1>9. CASE Receive
  BY <1>9 DEF Receive, file
<1>10. CASE CreateTable
  BY <1>10 DEF Quiet, CreateTable, Created, history
<1>11. CASE CreateFails \/ InsertFails
  BY <1>11 DEF HandInv, Settles, CreateFails, InsertFails, Dropped, file
<1>12. CASE \E id \in Series : ShrinkFails(id)
  BY <1>12 DEF Quiet, ShrinkFails, NextTable
<1>13. CASE ClockTick
  BY <1>13 DEF Quiet, ClockTick, memory, file, history
<1>14. CASE UNCHANGED vars
  BY <1>14 DEF Quiet, vars, memory, file, history
<1> QED
  BY <1>1, <1>2, <1>3, <1>4, <1>5, <1>6, <1>7, <1>8, <1>9, <1>10, <1>11, <1>12,
     <1>13, <1>14
  DEF Next, Main, Collector, WriteLoop

\* The records that are written, and the log under them, stay as they are.
SameKept ==
    /\ \A s \in DOMAIN log :
          /\ s \in DOMAIN log' /\ log'[s] = log[s]
          /\ fate[s] = "kept" => fate'[s] = "kept"
    /\ \A s \in DOMAIN log' :
          fate'[s] = "kept" => s \in DOMAIN log /\ fate[s] = "kept"

\* No step that keeps the rows writes or forgets a record.
LEMMA StillKeeps ==
  ASSUME TypeOK, HandInv, QueueInv, Still
  PROVE  SameKept
<1> USE NumberTypes DEF SameKept
<1>1. CASE Quiet
  BY <1>1 DEF Quiet
<1>2. CASE Open
  BY <1>2 DEF Open
<1>3. ASSUME NEW c \in Callers, Store(c)
      PROVE  SameKept
  BY <1>3, StoreEffect
<1>4. CASE Receive
  BY <1>4, ReceiveEffect
<1>5. ASSUME NEW e \in {"refused", "late"}, Settles(e)
      PROVE  SameKept
  <2>1. UNCHANGED log /\ e # "kept" /\ fate[hand.seq] = "live"
    BY <1>5 DEF Settles, QueueInv
  <2> QED  BY <1>5, <2>1, SettlesEffect
<1>6. CASE EndProcess
  BY <1>6, EndEffect
<1> QED  BY <1>1, <1>2, <1>3, <1>4, <1>5, <1>6 DEF Still

\* Insert turns the record in write into a row.
LEMMA InsertEffect ==
  ASSUME TypeOK, HandInv, QueueInv, Insert
  PROVE  /\ hand \in Record /\ hand.seq \in DOMAIN log /\ log[hand.seq] = hand
         /\ hand # None /\ fate[hand.seq] = "live" /\ fate'[hand.seq] = "kept"
         /\ \A s \in DOMAIN log : s # hand.seq => fate'[s] = fate[s]
         /\ rows' = {x \in rows : Key(x) # Key(hand)} \cup {hand}
         /\ hand.id \in created
         /\ UNCHANGED <<log, created, now, life, loadState, restored>>
<1>1. Settles("kept")
  BY DEF Insert, Settles, HandInv
<1> QED  BY <1>1, SettlesEffect DEF Settles, Insert, QueueInv, Upsert

\* Every record that is settled was accepted before the one in write.
LEMMA HandIsNewest ==
  ASSUME TypeOK, HandInv, LogInv, QueueInv, NoOvertaking, hand # None,
         NEW s \in DOMAIN log, fate[s] = "kept"
  PROVE  s < hand.seq
<1>1. /\ hand.seq \in DOMAIN log /\ fate[hand.seq] = "live"
      /\ log[hand.seq].life = life
  BY DEF QueueInv, LogInv
<1>2. CASE hand.seq < s
  <2>1. log[s].life = log[hand.seq].life
    BY <1>1, <1>2, ElementTypes, NumberTypes DEF LogInv
  <2> QED  BY <1>1, <1>2, <2>1 DEF NoOvertaking
<1>3. s # hand.seq
  BY <1>1
<1> QED  BY <1>1, <1>2, <1>3, NumberTypes

\* The rows are written records, one for each key.
LEMMA RowsStep ==
  ASSUME TypeOK, HandInv, LogInv, QueueInv, RowsInv, [Next]_vars
  PROVE  RowsInv'
<1>1. CASE Still
  <2>1. UNCHANGED rows /\ created \subseteq created' /\ SameKept
    BY <1>1, StillKeeps DEF Still
  <2> QED  BY <2>1 DEF RowsInv, SameKept, Key
<1>2. CASE Insert
  BY <1>2, InsertEffect DEF RowsInv, Key
<1>3. ASSUME NEW id \in Series, Shrink(id)
      PROVE  RowsInv'
  <2>1. rows' \subseteq rows /\ UNCHANGED <<log, fate, created>>
    BY <1>3 DEF Shrink, Shrunk, NextTable
  <2> QED  BY <2>1 DEF RowsInv, Key
<1> QED  BY <1>1, <1>2, <1>3, RowKinds

\* A row is replaced only by a later record with its key.
LEMMA LatestStep ==
  ASSUME TypeOK, HandInv, LogInv, QueueInv, RowsInv, NoOvertaking, [Next]_vars
  PROVE  \A r \in rows, x \in rows' : Key(x) = Key(r) => x.seq >= r.seq
<1> SUFFICES ASSUME NEW r \in rows, NEW x \in rows', Key(x) = Key(r)
             PROVE  x.seq >= r.seq
  OBVIOUS
<1>1. /\ r.seq \in DOMAIN log /\ fate[r.seq] = "kept" /\ r.seq \in Nat
  BY NumberTypes DEF RowsInv
<1>2. CASE x \in rows
  BY <1>1, <1>2 DEF RowsInv
<1>3. CASE x = hand /\ Insert
  BY <1>1, <1>3, InsertEffect, HandIsNewest, ElementTypes
<1>4. CASE Still \/ \E id \in Series : Shrink(id)
  <2>1. rows' \subseteq rows
    BY <1>4 DEF Still, Shrink, Shrunk
  <2> QED  BY <1>2, <2>1
<1>5. CASE Insert
  <2>1. x \in rows \/ x = hand
    BY <1>5, InsertEffect
  <2> QED  BY <1>2, <1>3, <1>5, <2>1
<1> QED  BY <1>4, <1>5, RowKinds

\* A row in the window of its series has not passed its retention, which is
\* one period longer.
LEMMA WindowNotExpired ==
  ASSUME TypeOK, NEW r \in Record, InWindow(r)
  PROVE  ~Expired(r)
<1>1. /\ r.time \in Nat /\ now \in Nat
      /\ Period[r.id] \in Nat /\ MaxCount[r.id] \in Nat
  BY StoreAssumption, NumberTypes DEF Record
<1> DEFINE P == Period[r.id]
           M == MaxCount[r.id]
<1>2. P * (M + 1) = P * M + P /\ P * M \in Nat
  BY <1>1
<1> HIDE DEF P, M
<1>3. now - r.time <= P * M
  BY <1>1, <1>2 DEF InWindow, OutOfWindow, P, M
<1>4. ~(r.time < now - (P * M + P))
  BY <1>1, <1>2, <1>3 DEF P
<1> QED  BY <1>2, <1>4 DEF Expired, Retention, P, M

\* A record that has the key of another has its series and its time.
LEMMA KeyFields ==
  ASSUME NEW r, NEW x, Key(r) = Key(x)
  PROVE  r.id = x.id /\ r.name = x.name /\ r.time = x.time
BY DEF Key

\* A record that has left the window does not come back into it.
LEMMA WindowShrinks ==
  ASSUME NEW r \in Record, NEW t \in Nat, NEW u \in Nat, t <= u, ~OutOfWindow(r, u)
  PROVE  ~OutOfWindow(r, t)
<1>1. r.time \in Nat /\ Period[r.id] \in Nat /\ MaxCount[r.id] \in Nat
  BY StoreAssumption DEF Record
<1> DEFINE W == Period[r.id] * MaxCount[r.id]
<1>2. W \in Nat
  BY <1>1
<1> HIDE DEF W
<1>3. u - r.time <= W
  BY <1>1, <1>2 DEF OutOfWindow, W
<1>4. t - r.time <= W
  BY <1>1, <1>2, <1>3
<1> QED  BY <1>1, <1>2, <1>4 DEF OutOfWindow, W

\* No step takes a record that is in the window of its series out of reach.
LEMMA ReadableStep ==
  ASSUME TypeOK, TypeOK', HandInv, LogInv, QueueInv, RowsInv, NoOvertaking,
         Readable, [Next]_vars
  PROVE  Readable'
<1> SUFFICES ASSUME NEW s \in DOMAIN log', fate'[s] = "kept", ~OutOfWindow(log'[s], now')
             PROVE  Holds(rows', log'[s])
  BY DEF Readable, InWindow, OutOfWindow, Holds, Key
<1> now \in Nat /\ now' \in Nat
  BY DEF TypeOK
<1>1. CASE Still
  <2>1. s \in DOMAIN log /\ fate[s] = "kept" /\ log'[s] = log[s]
    BY <1>1, StillKeeps DEF SameKept
  <2>2. InWindow(log[s])
    <3>1. now <= now' /\ log[s] \in Record
      BY <1>1, <2>1, ElementTypes DEF Still
    <3> QED  BY <2>1, <3>1, WindowShrinks DEF InWindow
  <2>3. Holds(rows, log[s])
    BY <2>1, <2>2 DEF Readable
  <2> QED  BY <1>1, <2>1, <2>3 DEF Holds, Still
<1>2. CASE Insert
  <2>1. s \in DOMAIN log /\ log'[s] = log[s] /\ UNCHANGED now
    BY <1>2, InsertEffect
  <2>2. CASE s = hand.seq
    <3>1. log'[s] = hand /\ hand \in rows' /\ hand.seq \in Nat
      BY <1>2, <2>1, <2>2, InsertEffect, ElementTypes
    <3> QED  BY <3>1 DEF Holds
  <2>3. CASE s # hand.seq
    <3>1. fate[s] = "kept" /\ InWindow(log[s])
      BY <1>2, <2>1, <2>3, InsertEffect DEF InWindow
    <3>2. PICK x \in rows : Key(x) = Key(log[s]) /\ x.seq >= log[s].seq
      BY <2>1, <3>1 DEF Readable, Holds
    <3>3. CASE Key(x) # Key(hand)
      BY <1>2, <2>1, <3>2, <3>3, InsertEffect DEF Holds
    <3>4. CASE Key(x) = Key(hand)
      <4>1. hand \in rows' /\ Key(hand) = Key(log[s])
        BY <1>2, <3>2, <3>4, InsertEffect
      <4>2. hand.seq >= log[s].seq
        <5>1. hand # None /\ hand.seq \in Nat
          BY <1>2, InsertEffect, ElementTypes
        <5>2. s < hand.seq /\ s \in Nat /\ log[s].seq = s
          BY <2>1, <3>1, <5>1, HandIsNewest, NumberTypes DEF LogInv
        <5> QED  BY <5>1, <5>2
      <4> QED  BY <2>1, <4>1, <4>2 DEF Holds
    <3> QED  BY <3>3, <3>4
  <2> QED  BY <2>2, <2>3
<1>3. ASSUME NEW id \in Series, Shrink(id)
      PROVE  Holds(rows', log'[s])
  <2>1. UNCHANGED <<log, fate, now>> /\ rows' = Shrunk(id)
    BY <1>3 DEF Shrink, NextTable
  <2>2. fate[s] = "kept" /\ InWindow(log[s]) /\ log[s] \in Record
    BY <2>1, ElementTypes DEF InWindow
  <2>3. PICK x \in rows : Key(x) = Key(log[s]) /\ x.seq >= log[s].seq
    BY <2>1, <2>2 DEF Readable, Holds
  <2>4. ~Expired(x)
    <3>1. ~Expired(log[s])
      BY <2>2, WindowNotExpired
    <3> QED  BY <2>3, <3>1, KeyFields DEF Expired
  <2>5. x \in rows'
    BY <2>1, <2>4 DEF Shrunk
  <2> QED  BY <2>1, <2>3, <2>5 DEF Holds
<1> QED  BY <1>1, <1>2, <1>3, RowKinds

-----------------------------------------------------------------------------
(* What is restored *)

\* Load alone reads the history of a metric, once in a life of the process.
LEMMA LoadKinds ==
  ASSUME TypeOK, HandInv, [Next]_vars
  PROVE  \/ \A k \in Metric : loadState'[k] # "ok"
         \/ /\ UNCHANGED <<restored, life>>
            /\ \A k \in Metric : loadState'[k] = "ok" => loadState[k] = "ok"
         \/ \E id \in Series, name \in Names : Load(id, name)
<1>1. CASE Crash \/ Exit \/ LoopPanic \/ \E c \in Callers : SendOnClosed(c)
  <2>1. loadState' = [k \in Metric |-> "unread"]
    BY <1>1 DEF Crash, Exit, LoopPanic, SendOnClosed, EndProcess
  <2> QED  BY <2>1
<1>2. CASE Open
  BY <1>2 DEF HandInv, Open
<1>3. CASE Signal \/ CollectorStopped
  BY <1>3 DEF Signal, CollectorStopped, memory, history
<1>4. CASE CloseChan \/ CloseDb \/ ClearDb
  BY <1>4 DEF CloseChan, CloseDb, ClearDb, history
<1>5. ASSUME NEW id \in Series, NEW name \in Names, LoadFails(id, name)
      PROVE  /\ UNCHANGED <<restored, life>>
             /\ \A k \in Metric : loadState'[k] = "ok" => loadState[k] = "ok"
  BY <1>5 DEF LoadFails, TypeOK
<1>6. CASE \E c \in Callers, id \in Series, name \in Names : StoreCall(c, id, name)
  BY <1>6 DEF StoreCall, history
<1>7. CASE \E c \in Callers : Store(c)
  BY <1>7 DEF Store
<1>8. CASE TickerFires \/ SelectTick \/ Receive \/ ReceiveNil
  BY <1>8 DEF TickerFires, SelectTick, Receive, ReceiveNil, history
<1>9. CASE CreateTable \/ CreateFails \/ Insert \/ InsertFails
  BY <1>9 DEF CreateTable, Created, CreateFails, Insert, InsertFails, Dropped, history
<1>10. CASE \E id \in Series : Shrink(id) \/ ShrinkFails(id)
  BY <1>10 DEF Shrink, ShrinkFails, NextTable
<1>11. CASE ClockTick \/ UNCHANGED vars
  BY <1>11 DEF ClockTick, vars, memory, history
<1> QED
  BY <1>1, <1>2, <1>3, <1>4, <1>5, <1>6, <1>7, <1>8, <1>9, <1>10, <1>11
  DEF Next, Main, Collector, WriteLoop

\* A step writes records of the running process only, so the records of the
\* earlier lives are the same after it.
LEMMA OldKept ==
  ASSUME TypeOK, HandInv, LogInv, QueueInv, [Next]_vars, UNCHANGED life,
         NEW s \in DOMAIN log', fate'[s] = "kept", log'[s].life < life
  PROVE  s \in DOMAIN log /\ fate[s] = "kept" /\ log'[s] = log[s]
<1>1. CASE Still
  BY <1>1, StillKeeps DEF SameKept
<1>2. CASE Insert
  <2>1. log[hand.seq].life = life /\ life \in Nat
    BY <1>2, InsertEffect, NumberTypes DEF LogInv
  <2> QED  BY <1>2, <2>1, InsertEffect
<1>3. CASE \E id \in Series : Shrink(id)
  BY <1>3 DEF Shrink, NextTable
<1> QED  BY <1>1, <1>2, <1>3, RowKinds

\* Load gives a record of an earlier life that is readable, and no step takes
\* it back.
LEMMA RestoredStep ==
  ASSUME TypeOK, TypeOK', HandInv, LogInv, QueueInv, RowsInv, Readable,
         RestoredAll, [Next]_vars
  PROVE  RestoredAll'
<1> SUFFICES ASSUME NEW s \in DOMAIN log', fate'[s] = "kept", log'[s].life < life',
                    loadState'[<<log'[s].id, log'[s].name>>] = "ok",
                    ~OutOfWindow(log'[s], now')
             PROVE  Holds(restored'[<<log'[s].id, log'[s].name>>], log'[s])
  BY DEF RestoredAll, InWindow, OutOfWindow, Holds, Key
<1> DEFINE k == <<log'[s].id, log'[s].name>>
<1>1. k \in Metric
  <2>1. log'[s] \in Record
    <3>1. log' \in Seq(Record)
      BY DEF TypeOK
    <3> QED  BY <3>1, ElementOfSeq, LenProperties
  <2> QED  BY <2>1 DEF Record, Metric
<1>2. now \in Nat /\ now' \in Nat /\ now <= now'
  <2>1. now \in Nat /\ now' \in Nat
    BY DEF TypeOK
  <2>2. CASE Still
    BY <2>1, <2>2 DEF Still
  <2>3. CASE Insert \/ \E id \in Series : Shrink(id)
    BY <2>1, <2>3 DEF Insert, Shrink, NextTable
  <2> QED  BY <2>1, <2>2, <2>3, RowKinds
<1>3. CASE /\ UNCHANGED <<restored, life>>
           /\ loadState'[k] = "ok" => loadState[k] = "ok"
  <2>1. s \in DOMAIN log /\ fate[s] = "kept" /\ log'[s] = log[s]
    BY <1>3, OldKept
  <2>2. InWindow(log[s])
    BY <1>2, <2>1, WindowShrinks, ElementTypes DEF InWindow
  <2>3. Holds(restored[k], log[s])
    BY <1>3, <2>1, <2>2 DEF RestoredAll
  <2> QED  BY <1>3, <2>1, <2>3
<1>4. ASSUME NEW id \in Series, NEW name \in Names, Load(id, name)
      PROVE  Holds(restored'[k], log'[s])
  <2>1. /\ UNCHANGED <<log, fate, life, now>>
        /\ loadState' = [loadState EXCEPT ![<<id, name>>] = "ok"]
        /\ restored' = [restored EXCEPT ![<<id, name>>] = RowsOf(id, name)]
    BY <1>4 DEF Load, history
  <2>2. loadState \in [Metric -> {"unread", "ok", "failed"}]
        /\ restored \in [Metric -> SUBSET Record]
    BY DEF TypeOK
  <2>3. CASE k = <<id, name>>
    <3>1. log[s].id = id /\ log[s].name = name
      BY <2>1, <2>3
    <3>2. PICK x \in rows : Key(x) = Key(log[s]) /\ x.seq >= log[s].seq
      BY <2>1 DEF Readable, InWindow, Holds
    <3>3. x \in RowsOf(id, name)
      BY <3>1, <3>2, KeyFields DEF RowsOf, RowsInv
    <3>4. restored'[k] = RowsOf(id, name)
      BY <1>1, <2>1, <2>2, <2>3
    <3> QED  BY <2>1, <3>2, <3>3, <3>4 DEF Holds
  <2>4. CASE k # <<id, name>>
    <3>1. restored'[k] = restored[k] /\ loadState'[k] = loadState[k]
      BY <1>1, <2>1, <2>2, <2>4
    <3> HIDE DEF k
    <3>2. k = <<log[s].id, log[s].name>>
      BY <2>1 DEF k
    <3> QED  BY <2>1, <3>1, <3>2 DEF RestoredAll, InWindow, k
  <2> QED  BY <2>3, <2>4
<1> QED  BY <1>1, <1>3, <1>4, LoadKinds

-----------------------------------------------------------------------------
(* The inductive invariant and its theorems *)

IInv ==
    /\ TypeOK
    /\ HandInv
    /\ LogInv
    /\ QueueInv
    /\ RowsInv
    /\ NoOvertaking
    /\ Readable
    /\ RestoredAll

\* The initial state satisfies the invariant and every step preserves it.
LEMMA IInvStep == (Init => IInv) /\ (IInv /\ [Next]_vars => IInv')
<1>1. Init => IInv
  <2>1. Init => /\ LogInv /\ QueueInv /\ RowsInv
                /\ NoOvertaking /\ Readable /\ RestoredAll
    BY DEF Init, LogInv, QueueInv, RowsInv, NoOvertaking, Readable, RestoredAll, Queued
  <2> QED  BY <2>1, InitType DEF IInv
<1>2. IInv /\ [Next]_vars => IInv'
  BY TypeStep, HandStep, LogStep, QueueStep, RowsStep, OrderStep, ReadableStep,
     RestoredStep
  DEF IInv
<1> QED  BY <1>1, <1>2

\* A record that write inserted stays readable, as itself or as a later record
\* with its key, until it is older than MaxCount periods: no shrink, failed
\* statement, Close, panic, crash or restart removes it earlier.
THEOREM StaysReadable == Spec => []Readable
<1>1. IInv => Readable
  BY DEF IInv
<1> QED  BY <1>1, IInvStep, PTL DEF Spec

\* After a restart, Load gives the collector every record inserted in an
\* earlier life of the process that is in the window of its series.
THEOREM RestoresHistory == Spec => []RestoredAll
<1>1. IInv => RestoredAll
  BY DEF IInv
<1> QED  BY <1>1, IInvStep, PTL DEF Spec

\* INSERT OR REPLACE never puts an older record in the place of a newer one.
THEOREM NeverOlder == Spec => LatestWins
<1> DEFINE Later == \A r \in rows, x \in rows' : Key(x) = Key(r) => x.seq >= r.seq
<1>1. IInv /\ [Next]_vars => [Later]_vars
  BY LatestStep DEF IInv
<1> HIDE DEF Later
<1>2. Spec => [][Later]_vars
  BY <1>1, IInvStep, PTL DEF Spec
<1> QED  BY <1>2 DEF LatestWins, Later

-----------------------------------------------------------------------------
(* Failed statements and refused records *)

Refused == {s \in DOMAIN fate : fate[s] = "refused"}

\* A record is refused only by a statement that fails, and that is counted: the
\* table of a record to be inserted has been created.
LEMMA FailKinds ==
  ASSUME TypeOK, HandInv, [Next]_vars
  PROVE  /\ fails' \in Nat /\ fails <= fails'
         /\ \/ Quiet
            \/ Open
            \/ \E c \in Callers : Store(c)
            \/ Receive
            \/ Settles("kept") \/ Settles("late")
            \/ Settles("refused") /\ fails' = fails + 1
            \/ EndProcess
<1> USE NumberTypes
<1>1. CASE Crash \/ Exit \/ LoopPanic \/ \E c \in Callers : SendOnClosed(c)
  <2>1. EndProcess
    BY <1>1 DEF Crash, Exit, LoopPanic, SendOnClosed
  <2> QED  BY <2>1 DEF EndProcess
<1>2. CASE Signal \/ CollectorStopped
  BY <1>2 DEF Quiet, Signal, CollectorStopped, memory, history
<1>3. CASE CloseChan \/ CloseDb \/ ClearDb
  BY <1>3 DEF Quiet, CloseChan, CloseDb, ClearDb, history
<1>4. CASE \E id \in Series, name \in Names : Load(id, name) \/ LoadFails(id, name)
  BY <1>4 DEF Quiet, Load, LoadFails, history
<1>5. CASE \E c \in Callers, id \in Series, name \in Names : StoreCall(c, id, name)
  BY <1>5 DEF Quiet, StoreCall, history
<1>6. CASE TickerFires \/ SelectTick \/ ReceiveNil
  BY <1>6 DEF Quiet, TickerFires, SelectTick, ReceiveNil, history
<1>7. CASE CreateTable
  BY <1>7 DEF Quiet, CreateTable, Created, history
<1>8. CASE CreateFails \/ InsertFails
  <2>1. ExecFails /\ Dropped
    BY <1>8 DEF HandInv, CreateFails, InsertFails
  <2>2. fails' = IF db = "open" THEN fails + 1 ELSE fails
    BY <2>1 DEF ExecFails
  <2>3. hand # None
    BY <1>8 DEF HandInv, CreateFails, InsertFails
  <2>4. IF db = "open" THEN Settles("refused") ELSE Settles("late")
    BY <2>1, <2>3 DEF Dropped, Settles
  <2> QED  BY <2>2, <2>4
<1>9. CASE Insert
  BY <1>9 DEF HandInv, Settles, Insert
<1>10. CASE \E id \in Series : Shrink(id) \/ ShrinkFails(id)
  BY <1>10 DEF Quiet, Shrink, ShrinkFails, NextTable, ExecFails
<1>11. CASE ClockTick \/ UNCHANGED vars
  BY <1>11 DEF Quiet, ClockTick, vars, memory, history
<1>12. CASE Open \/ Receive \/ \E c \in Callers : Store(c)
  <2>1. fails' = fails
    BY <1>12 DEF Open, Receive, Store, history
  <2> QED  BY <1>12, <2>1
<1> QED
  BY <1>1, <1>2, <1>3, <1>4, <1>5, <1>6, <1>7, <1>8, <1>9, <1>10, <1>11, <1>12
  DEF Next, Main, Collector, WriteLoop

\* The refused records are no more than the statements that failed.
LEMMA RefusedStep ==
  ASSUME TypeOK, HandInv, QueueInv, OneErrorOneRecord, [Next]_vars
  PROVE  OneErrorOneRecord'
<1>1. /\ IsFiniteSet(Refused) /\ Cardinality(Refused) \in Nat /\ Cardinality(Refused) <= fails
      /\ fails \in Nat /\ fails' \in Nat /\ fails <= fails' /\ DOMAIN fate = DOMAIN log
  <2>1. IsFiniteSet(1..Len(log)) /\ Refused \subseteq 1..Len(log) /\ DOMAIN fate = DOMAIN log
    BY NumberTypes, FS_Interval DEF Refused
  <2> QED  BY <2>1, NumberTypes, FailKinds, FS_Subset, FS_CardinalityType
           DEF OneErrorOneRecord, Refused
<1>2. CASE Refused' \subseteq Refused
  <2>1. Cardinality(Refused') <= Cardinality(Refused) /\ Cardinality(Refused') \in Nat
    BY <1>1, <1>2, FS_Subset, FS_CardinalityType
  <2> QED  BY <1>1, <2>1 DEF OneErrorOneRecord, Refused
<1>3. CASE fails' = fails + 1 /\ \E s : Refused' \subseteq Refused \cup {s}
  <2>1. PICK s : Refused' \subseteq Refused \cup {s}
    BY <1>3
  <2>2. /\ IsFiniteSet(Refused \cup {s})
        /\ Cardinality(Refused \cup {s}) \in Nat
        /\ Cardinality(Refused \cup {s}) <= Cardinality(Refused) + 1
    BY <1>1, FS_AddElement
  <2>3. Cardinality(Refused') <= Cardinality(Refused \cup {s}) /\ Cardinality(Refused') \in Nat
    BY <2>1, <2>2, FS_Subset, FS_CardinalityType
  <2> QED  BY <1>1, <1>3, <2>2, <2>3 DEF OneErrorOneRecord, Refused
<1>4. CASE Quiet \/ Open \/ Receive
  <2>1. fate' = fate
    BY <1>4 DEF Quiet, Open, Receive, history
  <2> QED  BY <1>2, <2>1 DEF Refused
<1>5. ASSUME NEW c \in Callers, Store(c) PROVE OneErrorOneRecord'
  <2>1. /\ DOMAIN fate' = 1..(Len(log) + 1) /\ fate'[Len(log) + 1] = "live"
        /\ \A s \in 1..Len(log) : fate'[s] = fate[s]
    <3>1. fate' = Append(fate, "live") /\ fate \in Seq(Fates) /\ "live" \in Fates
          /\ Len(fate) = Len(log)
      BY <1>5 DEF Store, TypeOK, Fates
    <3> QED  BY <3>1, AppendProperties, LenProperties
  <2> QED  BY <1>2, <2>1, NumberTypes DEF Refused
<1>6. ASSUME NEW e, Settles(e), e = "refused" => fails' = fails + 1 PROVE OneErrorOneRecord'
  <2>1. DOMAIN fate' = DOMAIN fate
    BY <1>6 DEF Settles
  <2>2. \A s \in DOMAIN fate : s # hand.seq => fate'[s] = fate[s]
    BY <1>1, <1>6, SettlesEffect
  <2>3. CASE e = "refused"
    <3>1. Refused' \subseteq Refused \cup {hand.seq}
      BY <2>1, <2>2 DEF Refused
    <3> QED  BY <1>3, <1>6, <2>3, <3>1
  <2>4. CASE e # "refused"
    <3>1. fate'[hand.seq] = e
      BY <1>6, SettlesEffect
    <3> QED  BY <1>2, <2>1, <2>2, <2>4, <3>1 DEF Refused
  <2> QED  BY <2>3, <2>4
<1>7. CASE EndProcess
  <2>1. DOMAIN fate' = DOMAIN fate
    BY <1>7 DEF EndProcess
  <2>2. \A s \in DOMAIN fate : fate'[s] = "refused" => fate[s] = "refused"
    BY <1>1, <1>7, EndEffect
  <2> QED  BY <1>2, <2>1, <2>2 DEF Refused
<1> QED  BY FailKinds, <1>4, <1>5, <1>6, <1>7

\* OneErrorOneRecord: as long as the database is open, a failed statement costs
\* at most the one record it was for, and no record is refused without one.
THEOREM RefusesOne == Spec => []OneErrorOneRecord
<1>1. Init => OneErrorOneRecord
  <2> SUFFICES ASSUME Init PROVE OneErrorOneRecord
    OBVIOUS
  <2>1. Refused = {} /\ fails = 0
    BY DEF Init, Refused
  <2>2. Cardinality({}) = 0
    BY FS_EmptySet
  <2> QED  BY <2>1, <2>2 DEF OneErrorOneRecord, Refused
<1>2. OneErrorOneRecord /\ IInv /\ [Next]_vars => OneErrorOneRecord'
  BY RefusedStep DEF IInv
<1> QED  BY <1>1, <1>2, IInvStep, PTL DEF Spec

-----------------------------------------------------------------------------
(* Refinement *)

\* A row past its retention is past the window of its series.
LEMMA ExpiredOutOfWindow ==
  ASSUME TypeOK, NEW r \in rows, Expired(r)
  PROVE  OutOfWindow(r, now)
<1>1. r \in Record
  BY DEF TypeOK
<1> QED  BY <1>1, WindowNotExpired DEF InWindow

\* The buffer of the abstract specification is a sequence of records.
LEMMA BufferedType ==
  ASSUME TypeOK
  PROVE  /\ Buffered \in Seq(Record)
         /\ Len(Buffered) <= Len(wChan) + 1
         /\ Len(Buffered) \in Nat
<1>1. wChan \in Seq(Record) /\ Len(wChan) \in Nat
  BY NumberTypes DEF TypeOK
<1>2. CASE hand = None
  BY <1>1, <1>2 DEF Buffered
<1>3. CASE hand # None
  <2>1. <<hand>> \in Seq(Record) /\ Len(<<hand>>) = 1
    <3>1. hand \in Record
      BY <1>3 DEF TypeOK
    <3> QED  BY <3>1
  <2>2. /\ <<hand>> \o wChan \in Seq(Record)
        /\ Len(<<hand>> \o wChan) = 1 + Len(wChan)
    BY <1>1, <2>1, ConcatProperties
  <2> QED  BY <1>1, <1>3, <2>2 DEF Buffered
<1> QED  BY <1>2, <1>3

\* Store appends to the buffer, whether write holds a record or not.
LEMMA StoreAccepts ==
  ASSUME TypeOK, NEW c \in Callers, Store(c)
  PROVE  WB!Accept
<1>1. Accepted(c) \in Record
  <2>1. pending[c] \in Request
    BY DEF TypeOK, Store
  <2> QED  BY <2>1, NumberTypes DEF Accepted, Request, Record
<1>2. /\ wChan \in Seq(Record) /\ Len(wChan) \in Nat /\ Len(wChan) < Cap
      /\ wChan' = Append(wChan, Accepted(c))
      /\ UNCHANGED <<hand, rows, now>>
  BY NumberTypes DEF TypeOK, Store, HasRoom, file
<1>3. Buffered' = Append(Buffered, Accepted(c))
  <2>1. CASE hand = None
    BY <1>2, <2>1 DEF Buffered
  <2>2. CASE hand # None
    <3>1. <<hand>> \in Seq(Record)
      <4>1. hand \in Record
        BY <2>2 DEF TypeOK
      <4> QED  BY <4>1
    <3>2. <<hand>> \o Append(wChan, Accepted(c)) = Append(<<hand>> \o wChan, Accepted(c))
      BY <1>1, <1>2, <3>1, AppendIsConcat, ConcatAssociative, ConcatProperties
    <3> QED  BY <1>2, <2>2, <3>2 DEF Buffered
  <2> QED  BY <2>1, <2>2
<1>4. Len(Buffered) < Cap + 1
  BY <1>2, BufferedType, CapNat
<1>5. /\ Len(Buffered') = Len(Buffered) + 1
      /\ Buffered'[Len(Buffered) + 1] = Accepted(c)
  BY <1>1, <1>3, BufferedType, AppendProperties
<1> QED  BY <1>1, <1>2, <1>3, <1>4, <1>5 DEF WB!Accept

\* Receive moves a record within the buffer.
LEMMA ReceiveStutters ==
  ASSUME TypeOK, HandInv, Receive
  PROVE  UNCHANGED <<Buffered, rows, now>>
<1>1. /\ hand = None /\ wChan \in Seq(Record) /\ wChan # <<>>
      /\ hand' = Head(wChan) /\ wChan' = Tail(wChan)
      /\ UNCHANGED <<rows, now>>
  BY DEF TypeOK, HandInv, Receive, file
<1>2. Head(wChan) \in Record /\ hand' # None
  BY <1>1, HeadTailProperties, StoreAssumption
<1>3. <<Head(wChan)>> \o Tail(wChan) = wChan
  BY <1>1
<1> QED  BY <1>1, <1>2, <1>3 DEF Buffered

\* A record that is settled is the first of the buffer.
LEMMA SettlesFirst ==
  ASSUME TypeOK, NEW e, Settles(e)
  PROVE  Buffered # <<>> /\ Head(Buffered) = hand /\ Buffered' = Tail(Buffered)
<1>1. /\ hand \in Record /\ hand # None /\ hand' = None
      /\ wChan' = wChan /\ wChan \in Seq(Record)
  BY DEF TypeOK, Settles
<1>2. Buffered = <<hand>> \o wChan /\ Buffered' = wChan
  BY <1>1 DEF Buffered
<1>3. /\ <<hand>> \o wChan # <<>>
      /\ Head(<<hand>> \o wChan) = hand
      /\ Tail(<<hand>> \o wChan) = wChan
  BY <1>1
<1> QED  BY <1>2, <1>3

\* Every step of the storage is a step of the abstract buffer or changes
\* nothing of it.
LEMMA RefinesStep ==
  ASSUME TypeOK, HandInv, [Next]_vars
  PROVE  WB!Next \/ UNCHANGED <<Buffered, rows, now>>
<1> USE DEF WB!Next
<1>1. CASE Crash \/ Exit \/ LoopPanic \/ \E c \in Callers : SendOnClosed(c)
  <2>1. EndProcess
    BY <1>1 DEF Crash, Exit, LoopPanic, SendOnClosed
  <2>2. Buffered' = <<>> /\ UNCHANGED <<rows, now>>
    BY <2>1 DEF EndProcess, Buffered
  <2> QED  BY <2>2 DEF WB!Lose
<1>2. CASE Open \/ Signal \/ CollectorStopped
  BY <1>2 DEF Buffered, Open, Signal, CollectorStopped, memory, file, history
<1>3. CASE CloseChan \/ CloseDb \/ ClearDb
  BY <1>3 DEF Buffered, CloseChan, CloseDb, ClearDb, file, history
<1>4. CASE \E id \in Series, name \in Names : Load(id, name) \/ LoadFails(id, name)
  BY <1>4 DEF Buffered, Load, LoadFails, file, history
<1>5. CASE \E c \in Callers, id \in Series, name \in Names : StoreCall(c, id, name)
  BY <1>5 DEF Buffered, StoreCall, file, history
<1>6. CASE \E c \in Callers : Store(c)
  BY <1>6, StoreAccepts
<1>7. CASE TickerFires \/ SelectTick \/ ReceiveNil
  BY <1>7 DEF Buffered, TickerFires, SelectTick, ReceiveNil, file, history
<1>8. CASE Receive
  BY <1>8, ReceiveStutters
<1>9. CASE CreateTable
  BY <1>9 DEF Buffered, CreateTable, Created, history
<1>10. CASE CreateFails \/ InsertFails
  <2>1. /\ Settles("refused") \/ Settles("late")
        /\ UNCHANGED <<rows, now>>
    BY <1>10 DEF HandInv, Settles, CreateFails, InsertFails, Dropped, file
  <2> QED  BY <2>1, SettlesFirst DEF WB!Settle
<1>11. CASE Insert
  <2>1. Settles("kept") /\ rows' = Upsert(hand) /\ UNCHANGED now
    BY <1>11 DEF HandInv, Settles, Insert
  <2>2. rows' = {r \in rows : ~SameKey(r, hand)} \cup {hand}
    BY <2>1 DEF Upsert, SameKey
  <2> QED  BY <2>1, <2>2, SettlesFirst DEF WB!Settle
<1>12. ASSUME NEW id \in Series, Shrink(id)
       PROVE  WB!Expire
  <2>1. rows' = Shrunk(id) /\ UNCHANGED <<hand, wChan, now>>
    BY <1>12 DEF Shrink, NextTable
  <2>2. rows' \subseteq rows /\ \A r \in rows \ rows' : OutOfWindow(r, now)
    BY <2>1, ExpiredOutOfWindow DEF Shrunk
  <2> QED  BY <2>1, <2>2 DEF WB!Expire, Buffered
<1>13. CASE \E id \in Series : ShrinkFails(id)
  BY <1>13 DEF Buffered, ShrinkFails, NextTable
<1>14. CASE ClockTick
  BY <1>14 DEF Buffered, ClockTick, memory, file, WB!Pass
<1>15. CASE UNCHANGED vars
  BY <1>15 DEF Buffered, vars, memory, file, history
<1> QED
  BY <1>1, <1>2, <1>3, <1>4, <1>5, <1>6, <1>7, <1>8, <1>9, <1>10, <1>11, <1>12,
     <1>13, <1>14, <1>15
  DEF Next, Main, Collector, WriteLoop

\* The storage, with its goroutine, its ticker, its shutdown and its crashes,
\* is a write-behind buffer: records go from the buffer to the table in order
\* or are dropped one at a time, only rows out of their window disappear, and
\* the end of the process loses what is in the buffer and nothing else.
THEOREM Refinement == Spec => ImplementsWriteBehind
<1>1. Init => WB!Init
  BY DEF Init, WB!Init, Buffered
<1>2. TypeOK /\ HandInv /\ [Next]_vars => [WB!Next]_(WB!wbVars)
  BY RefinesStep DEF WB!wbVars
<1>3. Init => TypeOK /\ HandInv
  BY InitType
<1>4. TypeOK /\ HandInv /\ [Next]_vars => (TypeOK /\ HandInv)'
  BY TypeStep, HandStep
<1> QED  BY <1>1, <1>2, <1>3, <1>4, PTL DEF Spec, ImplementsWriteBehind, WB!Spec

=============================================================================
