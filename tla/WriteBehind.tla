---------------------------- MODULE WriteBehind ----------------------------
(***************************************************************************)
(* What the SQLite storage promises, without its goroutine, its ticker or  *)
(* its shutdown: a bounded buffer of accepted records in front of a table. *)
(* Records leave the buffer in the order in which they were accepted, each *)
(* into the table or nowhere; only rows past their retention are deleted;  *)
(* the end of the process loses what is in the buffer and nothing else.    *)
(***************************************************************************)
EXTENDS Integers, Sequences

CONSTANTS
    Record,        \* the records
    Room,          \* how many accepted records may be waiting
    Same(_, _),    \* two records have the same primary key
    PastRetention(_, _)  \* a record is past its retention at a time

VARIABLES
    buf,     \* records accepted and not settled yet, oldest first
    table,   \* the rows
    clock

wbVars == <<buf, table, clock>>

Init ==
    /\ buf = <<>>
    /\ table = {}
    /\ clock = 0

Accept ==
    /\ Len(buf) < Room
    /\ Len(buf') = Len(buf) + 1
    /\ buf'[Len(buf) + 1] \in Record
    /\ buf' = Append(buf, buf'[Len(buf) + 1])
    /\ UNCHANGED <<table, clock>>

\* The oldest record replaces the row with its key, or is dropped.
Settle ==
    /\ buf # <<>>
    /\ buf' = Tail(buf)
    /\ \/ table' = {r \in table : ~Same(r, Head(buf))} \cup {Head(buf)}
       \/ UNCHANGED table
    /\ UNCHANGED clock

Expire ==
    /\ table' \subseteq table
    /\ \A r \in table \ table' : PastRetention(r, clock)
    /\ UNCHANGED <<buf, clock>>

Lose ==
    /\ buf' = <<>>
    /\ UNCHANGED <<table, clock>>

Pass ==
    /\ clock' = clock + 1
    /\ UNCHANGED <<buf, table>>

Next == Accept \/ Settle \/ Expire \/ Lose \/ Pass

Spec == Init /\ [][Next]_wbVars

=============================================================================
