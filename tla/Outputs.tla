------------------------------ MODULE Outputs ------------------------------
(***************************************************************************)
(* The outputs that post metrics (internal/collector/outputs: http and     *)
(* promrw) as the two goroutines of the pipeline call them: Write of       *)
(* gatherOnce and Write of pushAggregators, whose last call comes after    *)
(* the context is cancelled.  The http output cuts the metrics into        *)
(* batches and tries each of them retry_count more times; the remote-write *)
(* output posts once and does not look at the context.  A failed Write is  *)
(* logged by its caller and not repeated.                                  *)
(*                                                                         *)
(* A request can fail after the endpoint has taken it: the answer is lost  *)
(* or comes after the client's timeout.                                    *)
(***************************************************************************)
EXTENDS Integers

CONSTANTS
    Writer,         \* the goroutines that write
    Batches,        \* batches a Write is cut into
    retryCount      \* retry_count of the http output

ASSUME OutputAssumption == Batches \in Nat \ {0} /\ retryCount \in Nat

VARIABLES
    output,     \* "http" or "promrw"
    ctxDone,    \* the context is cancelled
    wpc,        \* where every Write is
    batch,      \* the batch it is at
    attempt,    \* the attempt at it
    stored,     \* how often the endpoint has taken each batch of each writer
    tried       \* how often it was sent

outputVars == <<output, ctxDone, wpc, batch, attempt, stored, tried>>

LastBatch == IF output = "http" THEN Batches ELSE 1      \* promrw posts all at once
Retries == IF output = "http" THEN retryCount ELSE 0

WriteBegins(w) ==
    /\ wpc[w] = "new"
    /\ wpc' = [wpc EXCEPT ![w] = "send"]
    /\ batch' = [batch EXCEPT ![w] = 1]
    /\ UNCHANGED <<output, ctxDone, attempt, stored, tried>>

CancelContext ==
    /\ ~ctxDone
    /\ ctxDone' = TRUE
    /\ UNCHANGED <<output, wpc, batch, attempt, stored, tried>>

\* One request: what became of it at the endpoint and what the client saw.
\* With the context cancelled the http client fails at once.
doRequest ==
    {[taken |-> FALSE, ok |-> FALSE]} \cup
    IF ctxDone /\ output = "http" THEN {}
    ELSE {[taken |-> TRUE, ok |-> FALSE], [taken |-> TRUE, ok |-> TRUE]}

Sent(w, r) ==
    /\ tried' = [tried EXCEPT ![w][batch[w]] = @ + 1]
    /\ stored' = IF r.taken THEN [stored EXCEPT ![w][batch[w]] = @ + 1] ELSE stored

\* Variant: a batch that failed every time is passed over.
sendBatchSkips(w) ==
    /\ wpc[w] = "send"
    /\ \E r \in doRequest :
           /\ Sent(w, r)
           /\ IF r.ok \/ attempt[w] = Retries
              THEN /\ attempt' = [attempt EXCEPT ![w] = 0]
                   /\ batch' = [batch EXCEPT ![w] = @ + 1]
                   /\ wpc' = IF batch[w] = LastBatch THEN [wpc EXCEPT ![w] = "nil"] ELSE wpc
              ELSE /\ attempt' = [attempt EXCEPT ![w] = @ + 1]
                   /\ UNCHANGED <<wpc, batch>>
    /\ UNCHANGED <<output, ctxDone>>

\* An attempt at the present batch: on success the next batch, on the last
\* failure the error of the whole Write.
sendBatch(w) ==
    /\ wpc[w] = "send"
    /\ \E r \in doRequest :
           /\ Sent(w, r)
           /\ IF r.ok
              THEN /\ attempt' = [attempt EXCEPT ![w] = 0]
                   /\ batch' = [batch EXCEPT ![w] = @ + 1]
                   /\ wpc' = IF batch[w] = LastBatch THEN [wpc EXCEPT ![w] = "nil"] ELSE wpc
              ELSE IF attempt[w] < Retries
              THEN attempt' = [attempt EXCEPT ![w] = @ + 1] /\ UNCHANGED <<wpc, batch>>
              ELSE wpc' = [wpc EXCEPT ![w] = "error"] /\ UNCHANGED <<batch, attempt>>
    /\ UNCHANGED <<output, ctxDone>>

OutputInit ==
    /\ output \in {"http", "promrw"}
    /\ ctxDone = FALSE
    /\ wpc = [w \in Writer |-> "new"]
    /\ batch = [w \in Writer |-> 0]
    /\ attempt = [w \in Writer |-> 0]
    /\ stored = [w \in Writer |-> [b \in 1 .. Batches |-> 0]]
    /\ tried = stored

OutputNext == CancelContext \/ \E w \in Writer : WriteBegins(w) \/ sendBatch(w)

OutputSpec == OutputInit /\ [][OutputNext]_outputVars

(***************************************************************************)
(* Properties.                                                             *)
(***************************************************************************)

\* A Write that returned nil had every batch taken by the endpoint.  One that
\* failed had every batch before the failing one taken, none after it sent,
\* and the failing one tried as often as the output allows.
WriteOutcome ==
    \A w \in Writer :
        /\ wpc[w] = "nil" => \A b \in 1 .. LastBatch : stored[w][b] >= 1
        /\ wpc[w] = "error" =>
               /\ \A b \in 1 .. batch[w] - 1 : stored[w][b] >= 1
               /\ \A b \in batch[w] + 1 .. Batches : tried[w][b] = 0
               /\ tried[w][batch[w]] = Retries + 1
============================================================================
