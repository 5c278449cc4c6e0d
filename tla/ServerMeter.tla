----------------------------- MODULE ServerMeter -----------------------------
(***************************************************************************)
(* The HTTP middleware that measures requests                              *)
(* (middleware/httpstat/httpstat.go).  Each request runs in a goroutine of *)
(* its own.  The wrapper given to its handler remembers a status code;     *)
(* when the handler returns or panics, a deferred function sends one       *)
(* measure to the collector's channel, which may be full, and only then    *)
(* recovers and answers 500.                                               *)
(*                                                                         *)
(* The status code the wrapper remembers and the one net/http has put on   *)
(* the wire are separate state: the properties are about the two agreeing. *)
(***************************************************************************)
EXTENDS Integers, Sequences, FiniteSets

CONSTANTS
    Requests,  \* requests, one goroutine each
    Codes,     \* status codes that handlers use
    Room,      \* capacity of the collector's channel
    MaxCalls,  \* bound: calls a handler makes on its ResponseWriter
    None,      \* nothing is on the wire yet
    Hijacked   \* the handler has taken the connection

VARIABLES
    \* each request: the goroutine, ResponseWriterWrapper, and a panic value
    phase, headerWritten, statusCode, panicking,
    \* external: the status net/http has sent, the collector's channel, what
    \* the collector counted, and whether it still receives
    wire, ch, total, collecting,
    \* history: calls of a handler so far, and what it did that makes the
    \* status it set differ from the one that is sent
    calls, odd

ASSUME ServerMeterAssumption ==
    /\ Codes \subseteq 100..599
    /\ 200 \in Codes /\ 500 \in Codes
    /\ IsFiniteSet(Requests)
    /\ Room \in Nat \ {0}
    /\ MaxCalls \in Nat
    /\ None \notin Codes \cup {Hijacked} /\ Hijacked \notin Codes

wrapper == <<headerWritten, statusCode, panicking>>
outside == <<ch, total, collecting>>
vars    == <<phase, wrapper, wire, outside, calls, odd>>

\* "http:status_%dxx"
Class(code) == code \div 100
Classes == {Class(c) : c \in Codes}

Init ==
    /\ phase = [r \in Requests |-> "new"]
    /\ headerWritten = [r \in Requests |-> FALSE]
    /\ statusCode = [r \in Requests |-> 200]
    /\ panicking = [r \in Requests |-> FALSE]
    /\ wire = [r \in Requests |-> None]
    /\ ch = <<>>
    /\ total = [c \in Classes |-> 0]
    /\ collecting = TRUE
    /\ calls = [r \in Requests |-> 0]
    /\ odd = [r \in Requests |-> {}]

-----------------------------------------------------------------------------
(* The handler of one request *)

ServeHTTP(r) ==
    /\ phase[r] = "new"
    /\ phase' = [phase EXCEPT ![r] = "handler"]
    /\ UNCHANGED <<wrapper, wire, outside, calls, odd>>

\* A call of the handler on the wrapper; it marks the request if that is odd.
Call(r, marks) ==
    /\ phase[r] = "handler"
    /\ calls[r] < MaxCalls
    /\ calls' = [calls EXCEPT ![r] = @ + 1]
    /\ odd' = [odd EXCEPT ![r] = @ \cup marks]
    /\ UNCHANGED <<phase, panicking, outside>>

\* external: what net/http does with a status code.  An informational one is
\* sent ahead of the answer; the first other one is the answer's.
Sent(r, code) ==
    IF wire[r] = None /\ (code >= 200 \/ code = 101)
    THEN [wire EXCEPT ![r] = code] ELSE wire

\* Write and Flush go straight to net/http, which sends 200 if no status was.
WriteOrFlush(r) ==
    /\ Call(r, {})
    /\ wire' = Sent(r, 200)
    /\ UNCHANGED <<headerWritten, statusCode>>

\* Hijack: the connection is the handler's, and net/http sends nothing more.
Hijack(r) ==
    /\ wire[r] # Hijacked
    /\ Call(r, {"hijacked"})
    /\ wire' = [wire EXCEPT ![r] = Hijacked]
    /\ UNCHANGED <<headerWritten, statusCode>>

\* What a handler may do that the wrapper does not see through.
Marks(r, code) ==
    (IF wire[r] # None THEN {"late header"} ELSE {}) \cup
    (IF code < 200 THEN {"informational"} ELSE {})

\* WriteHeader: the first call is passed on and remembered ...
WriteHeader(r, code) ==
    /\ ~headerWritten[r]
    /\ headerWritten' = [headerWritten EXCEPT ![r] = TRUE]
    /\ wire' = Sent(r, code)
    /\ statusCode' = [statusCode EXCEPT ![r] = code]
    /\ Call(r, Marks(r, code))

\* Faulty variant: the guard on headerWritten is missing.
WriteHeaderUnguarded(r) ==
    /\ headerWritten[r]
    /\ Call(r, {})
    /\ \E code \in Codes : statusCode' = [statusCode EXCEPT ![r] = code]
    /\ UNCHANGED <<headerWritten, wire>>

\* ... and later ones are not.
WriteHeaderAgain(r) ==
    /\ headerWritten[r]
    /\ Call(r, {})
    /\ UNCHANGED <<headerWritten, statusCode, wire>>

Return(r) ==
    /\ phase[r] = "handler"
    /\ phase' = [phase EXCEPT ![r] = "measure"]
    /\ UNCHANGED <<wrapper, wire, outside, calls, odd>>

Panic(r) ==
    /\ phase[r] = "handler"
    /\ phase' = [phase EXCEPT ![r] = "measure"]
    /\ panicking' = [panicking EXCEPT ![r] = TRUE]
    /\ UNCHANGED <<headerWritten, statusCode, wire, outside, calls, odd>>

-----------------------------------------------------------------------------
(* The deferred function of ServeHTTP *)

\* Faulty variant: off by one.
MeasureOverRoom(r) ==
    /\ phase[r] = "measure"
    /\ Len(ch) <= Room
    /\ ch' = Append(ch, Class(statusCode[r]))
    /\ phase' = [phase EXCEPT ![r] = "recover"]
    /\ UNCHANGED <<wrapper, wire, total, collecting, calls, odd>>

\* Faulty variant: the deferred function does not run its course after a panic.
MeasureReturnedOnly(r) ==
    /\ phase[r] = "measure"
    /\ ~panicking[r]
    /\ Len(ch) < Room
    /\ ch' = Append(ch, Class(statusCode[r]))
    /\ phase' = [phase EXCEPT ![r] = "recover"]
    /\ UNCHANGED <<wrapper, wire, total, collecting, calls, odd>>

\* Faulty variant: a select with a default case drops the measure when the
\* channel is full.
MeasureOrDrop(r) ==
    /\ phase[r] = "measure"
    /\ ch' = IF Len(ch) < Room THEN Append(ch, Class(statusCode[r])) ELSE ch
    /\ phase' = [phase EXCEPT ![r] = "recover"]
    /\ UNCHANGED <<wrapper, wire, total, collecting, calls, odd>>

\* sm.ch <- measure waits for room, whatever became of the handler.
Measure(r) ==
    /\ phase[r] = "measure"
    /\ Len(ch) < Room
    /\ ch' = Append(ch, Class(statusCode[r]))
    /\ phase' = [phase EXCEPT ![r] = "recover"]
    /\ UNCHANGED <<wrapper, wire, total, collecting, calls, odd>>

\* Faulty variant: the recover is left out, and the connection of a request
\* that panicked is dropped.
RecoverNothing(r) ==
    /\ phase[r] = "recover"
    /\ phase' = [phase EXCEPT ![r] = "done"]
    /\ wire' = IF panicking[r] THEN wire ELSE Sent(r, 200)
    /\ UNCHANGED <<wrapper, outside, calls, odd>>

\* recover; http.Error(w, ..., 500) after a panic.  Then net/http ends the
\* request, with 200 if nothing was sent.
Recover(r) ==
    /\ phase[r] = "recover"
    /\ phase' = [phase EXCEPT ![r] = "done"]
    /\ wire' = IF panicking[r] THEN Sent(r, 500) ELSE Sent(r, 200)
    /\ UNCHANGED <<wrapper, outside, calls, odd>>

-----------------------------------------------------------------------------
(* external: the collector *)

CollectorReceives ==
    /\ collecting
    /\ ch # <<>>
    /\ ch' = Tail(ch)
    /\ total' = [total EXCEPT ![Head(ch)] = @ + 1]
    /\ UNCHANGED <<phase, wrapper, wire, collecting, calls, odd>>

\* main stops the collector after svr.Close, which does not wait for handlers.
CollectorStops ==
    /\ collecting
    /\ collecting' = FALSE
    /\ UNCHANGED <<phase, wrapper, wire, ch, total, calls, odd>>

-----------------------------------------------------------------------------
Handler(r) ==
    \/ ServeHTTP(r) \/ WriteOrFlush(r) \/ Hijack(r)
    \/ \E code \in Codes : WriteHeader(r, code)
    \/ WriteHeaderAgain(r) \/ Return(r) \/ Panic(r)

Next ==
    \/ \E r \in Requests : Handler(r) \/ Measure(r) \/ Recover(r)
    \/ CollectorReceives \/ CollectorStops

Spec == Init /\ [][Next]_vars

\* Handlers end, the goroutines run, senders are served in order, and the
\* collector receives until it is stopped.  Requests need not come.
Fairness ==
    /\ \A r \in Requests :
        /\ WF_vars(Return(r) \/ Panic(r))
        /\ SF_vars(Measure(r))
        /\ WF_vars(Recover(r))
    /\ WF_vars(CollectorReceives)

FairSpec == Spec /\ Fairness

-----------------------------------------------------------------------------
(* Properties *)

Answers == Codes \cup {None, Hijacked}
Oddities == {"late header", "informational", "hijacked"}

TypeOK ==
    /\ phase \in [Requests -> {"new", "handler", "measure", "recover", "done"}]
    /\ headerWritten \in [Requests -> BOOLEAN]
    /\ statusCode \in [Requests -> Codes]
    /\ panicking \in [Requests -> BOOLEAN]
    /\ wire \in [Requests -> Answers]
    /\ ch \in Seq(Classes) /\ Len(ch) <= Room
    /\ total \in [Classes -> Nat]
    /\ collecting \in BOOLEAN
    /\ calls \in [Requests -> 0..MaxCalls]
    /\ odd \in [Requests -> SUBSET Oddities]

Measured(r) == phase[r] \in {"recover", "done"}

\* The measures of a class that wait in the channel, and the requests that
\* ended with a status of that class.
Waiting(c) == {i \in DOMAIN ch : ch[i] = c}
Ended(c) == {r \in Requests : Measured(r) /\ Class(statusCode[r]) = c}

\* Every request whose handler ended, by return or by panic, is counted once,
\* in the class of its status: what the collector counted and what waits in
\* the channel add up to the requests measured.
CountsAddUp ==
    \A c \in Classes :
        total[c] + Cardinality(Waiting(c)) = Cardinality(Ended(c))

\* The class counted is the class of the status the client was sent, unless
\* the handler panicked, hijacked the connection, sent an informational status
\* or set the status after the answer had begun.
CountedAsSent ==
    \A r \in Requests :
        phase[r] = "done" /\ odd[r] = {} /\ ~panicking[r]
            => Class(statusCode[r]) = Class(wire[r])

\* No request that reached the middleware ends without an answer: not one that
\* panicked before it wrote anything, which gets 500 or what it had set.
AlwaysAnswered ==
    \A r \in Requests : phase[r] = "done" => wire[r] # None

\* While the collector receives, every request ends: a full channel delays the
\* measure and the answer to a panic, and does not keep them for ever.
RequestsEnd ==
    \A r \in Requests :
        phase[r] = "handler" ~> (phase[r] = "done" \/ ~collecting)

\* httpstat.go:83 says "http: superfluous response.WriteHeader call" of the
\* calls it ignores: once the answer has begun, WriteHeader changes nothing.
\* The guard does not see an answer begun by Write or Flush, so the status
\* that is counted changes after another one was sent.
SuperfluousIgnored ==
    [][\A r \in Requests :
        wire[r] \in Codes => statusCode'[r] = statusCode[r]]_vars

=============================================================================
