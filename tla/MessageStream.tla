---------------------------- MODULE MessageStream ----------------------------
(***************************************************************************)
(* A streamed Anthropic message as its reader understands it (the client,  *)
(* and _MessageAssembler of src/services/thread_store.py): blocks open one *)
(* after another, grow while they are open, a tool's input comes in one    *)
(* piece, and the message ends when all of them are closed, or in an error.*)
(***************************************************************************)
EXTENDS Naturals

VARIABLES
    phase,   \* idle, open, delta, stopped, failed
    blocks   \* the blocks by index

vars == <<phase, blocks>>

Opened(kind) == [kind |-> kind, open |-> TRUE, parts |-> 0]

Init == phase = "idle" /\ blocks = [n \in {} |-> Opened("text")]

\* message_start
Start == phase = "idle" /\ phase' = "open" /\ UNCHANGED blocks

\* content_block_start, at the first index not used yet.
Open(kind) ==
    /\ phase = "open"
    /\ \E n \in {0} \cup {m + 1 : m \in DOMAIN blocks} :
          /\ DOMAIN blocks = {m \in 0..n : m < n}
          /\ blocks' = [m \in 0..n |-> IF m = n THEN Opened(kind) ELSE blocks[m]]
    /\ UNCHANGED phase

\* content_block_delta
Grow ==
    /\ phase = "open"
    /\ \E n \in DOMAIN blocks :
          /\ blocks[n].open
          /\ blocks[n].kind = "tool" => blocks[n].parts = 0
          /\ blocks' = [blocks EXCEPT ![n].parts = @ + 1]
    /\ UNCHANGED phase

\* content_block_stop
Close ==
    /\ phase = "open"
    /\ \E n \in DOMAIN blocks :
          /\ blocks[n].open
          /\ blocks' = [blocks EXCEPT ![n].open = FALSE]
    /\ UNCHANGED phase

\* message_delta, behind the last block.
Conclude ==
    /\ phase = "open" /\ blocks # [n \in {} |-> Opened("text")]
    /\ \A n \in DOMAIN blocks : ~blocks[n].open
    /\ phase' = "delta"
    /\ UNCHANGED blocks

\* message_stop
Stop == phase = "delta" /\ phase' = "stopped" /\ UNCHANGED blocks

\* An error event ends the message where it is.
Fail == phase = "open" /\ phase' = "failed" /\ UNCHANGED blocks

Next == Start \/ Open("text") \/ Open("tool") \/ Grow \/ Close \/ Conclude \/ Stop \/ Fail

Spec == Init /\ [][Next]_vars
=============================================================================
