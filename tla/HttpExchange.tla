----------------------------- MODULE HttpExchange -----------------------------
(***************************************************************************)
(* What a client connection of the MITM proxy promises to the client: one  *)
(* response per request, a response is ended only if its source ended, and *)
(* the connection is used again only after the whole request was read and  *)
(* the whole response was sent.  It may break off at any moment.           *)
(***************************************************************************)

VARIABLES
    phase,     \* idle, requested, responding, answered, closed
    consumed,  \* the request has been read to its end
    faithful   \* the source of the response has not broken

vars == <<phase, consumed, faithful>>

Init == phase = "idle" /\ consumed = FALSE /\ faithful = TRUE

Request ==
    /\ phase = "idle" /\ phase' = "requested"
    /\ consumed' = FALSE /\ faithful' = TRUE

Consume ==
    /\ phase = "requested" /\ consumed' = TRUE
    /\ UNCHANGED <<phase, faithful>>

\* A response starts; one to a request that could not be read has none before it.
Answer ==
    /\ phase \in {"idle", "requested"} /\ phase' = "responding"
    /\ UNCHANGED <<consumed, faithful>>

Break == phase = "responding" /\ faithful' = FALSE /\ UNCHANGED <<phase, consumed>>

Finish ==
    /\ phase = "responding" /\ faithful
    /\ phase' = "answered"
    /\ UNCHANGED <<consumed, faithful>>

Reuse ==
    /\ phase = "answered" /\ consumed
    /\ phase' = "idle"
    /\ consumed' = FALSE /\ faithful' = TRUE

Close == phase # "closed" /\ phase' = "closed" /\ UNCHANGED <<consumed, faithful>>

Next == Request \/ Consume \/ Answer \/ Break \/ Finish \/ Reuse \/ Close

Spec == Init /\ [][Next]_vars
=============================================================================
