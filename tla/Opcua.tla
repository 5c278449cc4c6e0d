-------------------------------- MODULE Opcua --------------------------------
(***************************************************************************)
(* The OPC UA input (input/opcua/opcua.go).  Init connects to the server,  *)
(* each Gather reads the configured nodes one by one, with retries, and    *)
(* DeInit disconnects.  The server is external: each call of the client    *)
(* may succeed or fail at any time.                                        *)
(***************************************************************************)
EXTENDS Integers, Sequences, Selections

CONSTANTS
    NodeList,        \* the configured nodes, in order
    ConnRetryCount,  \* conn_retry_count and read_retry_count
    ReadRetryCount

VARIABLES
    client,     \* OPCUA.client: "nil" or "connected"
    pc, node,   \* where Gather is, and the node it is reading
    connRetry, retry,
    gathered,   \* the nodes whose values this Gather has added
    outcome,    \* what the last Gather returned
    \* history: calls of Connect in this Gather, of Read for this node, and
    \* the positions of the nodes whose value was not a number in this Gather
    connects, reads, ignored

OpcuaAssumption ==
    /\ NodeList \in Seq({NodeList[i] : i \in DOMAIN NodeList}) \ {<<>>}
    /\ ConnRetryCount \in Nat
    /\ ReadRetryCount \in Nat

call == <<pc, node, connRetry, retry, gathered, outcome, connects, reads, ignored>>
vars == <<client, call>>

Init ==
    /\ client = "nil"
    /\ pc = "idle"
    /\ node = 1
    /\ connRetry = 0
    /\ retry = 0
    /\ gathered = <<>>
    /\ outcome = "none"
    /\ connects = 0
    /\ reads = 0
    /\ ignored = {}

-----------------------------------------------------------------------------
(* Init and DeInit, called by the collector *)

\* Init of the input.  It fails without an endpoint, without nodes, with a
\* node ID that does not parse, or when the server cannot be reached.
InputInit(ok) ==
    /\ pc = "idle"
    /\ client' = IF ok THEN "connected" ELSE client
    /\ UNCHANGED call

DeInit ==
    /\ pc = "idle"
    /\ client' = "nil"
    /\ UNCHANGED call

-----------------------------------------------------------------------------
(* Gather *)

\* Faulty variant: the client is not looked at.
GatherUnconnected ==
    /\ pc = "idle"
    /\ pc' = "read"
    /\ node' = 1
    /\ connRetry' = 0
    /\ retry' = 0
    /\ gathered' = <<>>
    /\ connects' = 0
    /\ reads' = 0
    /\ ignored' = {}
    /\ UNCHANGED <<client, outcome>>

Gather ==
    /\ pc = "idle"
    /\ pc' = IF client = "nil" THEN "connect" ELSE "read"
    /\ node' = 1
    /\ connRetry' = 0
    /\ retry' = 0
    /\ gathered' = <<>>
    /\ connects' = 0
    /\ reads' = 0
    /\ ignored' = {}
    /\ UNCHANGED <<client, outcome>>

\* History: an attempt, counted up to the first that is too many.
OneMore(attempts, retries) ==
    IF attempts > retries + 1 THEN attempts ELSE attempts + 1

Returns(err) ==
    /\ pc' = "idle"
    /\ outcome' = err

ConnectOk ==
    /\ pc = "connect"
    /\ client' = "connected"
    /\ connects' = OneMore(connects, ConnRetryCount)
    /\ pc' = "read"
    /\ UNCHANGED <<node, connRetry, retry, gathered, outcome, reads, ignored>>

\* connect forgets the client it made; Gather tries again at once, up to
\* ConnRetryCount times.
ConnectFails ==
    /\ pc = "connect"
    /\ connects' = OneMore(connects, ConnRetryCount)
    /\ IF connRetry >= ConnRetryCount
       THEN Returns("error") /\ UNCHANGED connRetry
       ELSE connRetry' = connRetry + 1 /\ UNCHANGED <<pc, outcome>>
    /\ UNCHANGED <<client, node, retry, gathered, reads, ignored>>

\* Faulty variant: a value that is not a number ends the loop over the nodes.
NextNodeOrStop(added) ==
    /\ reads' = 0
    /\ retry' = 0
    /\ IF node = Len(NodeList) \/ ~added
       THEN Returns("nil") /\ UNCHANGED node
       ELSE node' = node + 1 /\ UNCHANGED <<pc, outcome>>

\* The next node, or the end of the loop; added says if it had a number.
NextNode(added) ==
    /\ reads' = 0
    /\ retry' = 0
    /\ IF node = Len(NodeList)
       THEN Returns("nil") /\ UNCHANGED node
       ELSE node' = node + 1 /\ UNCHANGED <<pc, outcome>>

\* The value of the node is a number or a bool: it is added.
ReadNumber ==
    /\ pc = "read"
    /\ gathered' = Append(gathered, NodeList[node])
    /\ NextNode(TRUE)
    /\ UNCHANGED <<client, connRetry, connects, ignored>>

\* A value of another type is ignored.
ReadOther ==
    /\ pc = "read"
    /\ ignored' = ignored \cup {node}
    /\ NextNode(FALSE)
    /\ UNCHANGED <<client, connRetry, gathered, connects>>

\* Faulty variant: it connects again, and does not count the retry.
ReadFailsReconnects(passes) ==
    /\ pc = "read"
    /\ reads' = OneMore(reads, ReadRetryCount)
    /\ IF passes
       THEN pc' = "connect" /\ client' = "nil" /\ UNCHANGED outcome
       ELSE Returns("error") /\ UNCHANGED client
    /\ UNCHANGED <<node, connRetry, retry, gathered, connects, ignored>>

\* Faulty variant: one attempt too many.
ReadFailsOneMore(passes) ==
    /\ pc = "read"
    /\ reads' = OneMore(reads, ReadRetryCount)
    /\ IF retry > ReadRetryCount \/ ~passes
       THEN Returns("error") /\ UNCHANGED retry
       ELSE retry' = retry + 1 /\ UNCHANGED <<pc, outcome>>
    /\ UNCHANGED <<client, node, connRetry, gathered, connects, ignored>>

\* Read fails: after ReadRetryCount retries, or with an error that does not
\* pass (anything but an EOF on an open client and the session errors),
\* Gather returns it; else it sleeps and reads again.
ReadFails(passes) ==
    /\ pc = "read"
    /\ reads' = OneMore(reads, ReadRetryCount)
    /\ IF retry >= ReadRetryCount \/ ~passes
       THEN Returns("error") /\ UNCHANGED retry
       ELSE retry' = retry + 1 /\ UNCHANGED <<pc, outcome>>
    /\ UNCHANGED <<client, node, connRetry, gathered, connects, ignored>>

GatherStep ==
    \/ ConnectOk \/ ConnectFails
    \/ ReadNumber \/ ReadOther
    \/ \E passes \in BOOLEAN : ReadFails(passes)

Next ==
    \/ \E ok \in BOOLEAN : InputInit(ok)
    \/ DeInit \/ Gather \/ GatherStep

Spec == Init /\ [][Next]_vars /\ WF_vars(GatherStep)

-----------------------------------------------------------------------------
(* Properties *)

TypeOK ==
    /\ client \in {"nil", "connected"}
    /\ pc \in {"idle", "connect", "read"}
    /\ node \in 1..Len(NodeList)
    /\ connRetry \in 0..ConnRetryCount
    /\ retry \in 0..ReadRetryCount
    /\ outcome \in {"none", "nil", "error"}
    /\ pc = "read" => client = "connected"

\* A Gather that returns no error has added the value of every node but those
\* whose value was not a number, in the order of the configuration.
GatherComplete ==
    pc = "idle" /\ outcome = "nil" =>
        gathered = Select(NodeList, DOMAIN NodeList \ ignored)

\* opcua.toml: "If the retry count is set to 0, it will fail after the first
\* attempt": Gather makes at most one attempt more than the retries allowed,
\* to connect and to read each node.
AttemptsBounded ==
    connects <= ConnRetryCount + 1 /\ reads <= ReadRetryCount + 1

=============================================================================
