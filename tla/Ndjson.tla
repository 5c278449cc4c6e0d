------------------------------- MODULE Ndjson -------------------------------
(***************************************************************************)
(* The ndjson output (output/ndjson/ndjson.go): Process turns a product    *)
(* into a record and prints it or posts it to a server.  A product is what *)
(* Process tells apart: its kind, whether it has samples, and whether its  *)
(* numbers can be encoded (JSON has no NaN and no infinity).               *)
(***************************************************************************)
EXTENDS Integers

CONSTANTS
    Kinds,     \* kinds of products, those convert knows and others
    Statuses,  \* status codes the server may answer with
    Dests,     \* destinations that may be configured, "" for standard output
    None

VARIABLES
    dest,     \* Encoder.DestUrl
    product,  \* the argument of Process
    result,   \* what it returned: "nil", "error"; "posting" until it has
    \* history: how the product left, and the answer of the server
    left, status

vars == <<dest, product, result, left, status>>

Known == {"counter", "gauge", "meter", "histogram", "odometer"}
Product == [kind : Kinds, sampled : BOOLEAN, finite : BOOLEAN]

NdjsonAssumption ==
    /\ Statuses \subseteq 100..599
    /\ None \notin Statuses \cup Product

Init ==
    /\ dest \in Dests
    /\ product = None
    /\ result = "none"
    /\ left = "no"
    /\ status = None

\* convert: a product of an unknown kind is an error, one without samples is
\* no record.
Convert(pd) ==
    CASE pd.kind \notin Known -> "unknown"
      [] pd.kind \in Known /\ ~pd.sampled -> "nothing"
      [] OTHER -> "record"

\* Process up to the call of Post.  A record that json.Marshal refuses, and one
\* that standard output does not take, is passed over without an error.
Process(pd) ==
    /\ result # "posting"
    /\ product' = pd
    /\ status' = None
    /\ \/ /\ Convert(pd) = "unknown"
          /\ result' = "error" /\ left' = "no"
       \/ /\ Convert(pd) = "nothing" \/ (Convert(pd) = "record" /\ ~pd.finite)
          /\ result' = "nil" /\ left' = "no"
       \/ /\ Convert(pd) = "record" /\ pd.finite /\ dest = ""
          /\ result' = "nil" /\ left' \in {"printed", "no"}
       \/ /\ Convert(pd) = "record" /\ pd.finite /\ dest # ""
          /\ result' = "posting" /\ left' = "no"
    /\ UNCHANGED dest

\* Faulty variant: the error of Post is not returned.
PostFailsQuietly ==
    /\ result = "posting"
    /\ result' = "nil"
    /\ UNCHANGED <<dest, product, left, status>>

PostFails ==
    /\ result = "posting"
    /\ result' = "error"
    /\ UNCHANGED <<dest, product, left, status>>

\* The server has answered: a status of 200 to 299 is returned as an error,
\* any other as success.
Answered(code) ==
    /\ result = "posting"
    /\ left' = "posted"
    /\ status' = code
    /\ result' = IF code >= 200 /\ code < 300 THEN "error" ELSE "nil"
    /\ UNCHANGED <<dest, product>>

Next ==
    \/ \E pd \in Product : Process(pd)
    \/ PostFails
    \/ \E code \in Statuses : Answered(code)

Spec == Init /\ [][Next]_vars

-----------------------------------------------------------------------------
(* Properties *)

TypeOK ==
    /\ dest \in Dests
    /\ product \in Product \cup {None}
    /\ result \in {"none", "nil", "error", "posting"}
    /\ left \in {"no", "printed", "posted"}
    /\ status \in Statuses \cup {None}

\* A product that Process does not know, and a record for which the server has
\* given no answer, are never reported as sent: those the collector hears of.
\* Not so a record that standard output or the server refuses.
UnansweredReported ==
    result = "nil" =>
        /\ product.kind \in Known
        /\ Convert(product) = "record" /\ product.finite => left = "posted" \/ dest = ""

\* ndjson.toml:6, "The URL should respond with a 2xx status code on success":
\* Process reports success for an answer of 2xx, and only for that.
SuccessMeans2xx ==
    status # None => (result = "nil" <=> status \in 200..299)

=============================================================================
