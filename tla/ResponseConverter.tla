-------------------------- MODULE ResponseConverter --------------------------
(***************************************************************************)
(* The two stream converters of src/conversion/response_converter.py: from *)
(* Chat Completions chunks and from Responses events to the frames of an   *)
(* Anthropic message.  One action is one upstream event and the frame it   *)
(* makes the generator yield; a chunk of several parts (text, tool deltas, *)
(* finish_reason) is several events with nothing in between.               *)
(*                                                                         *)
(* The arguments of a tool call come in pieces 1..Pieces; a buffer is valid*)
(* JSON when it holds all of them in order.  The upstream is external: it  *)
(* gives every call an index of its own, sends the pieces of a call in     *)
(* order, and says that it finished with tool calls, or completed, only    *)
(* when it has sent all of them.                                           *)
(***************************************************************************)
EXTENDS Naturals, Sequences

CONSTANTS
    Indexes,    \* index (chat) or output_index (responses) of the tool calls
    Pieces,     \* pieces of the arguments of a call
    MaxTexts    \* bound: text deltas

ASSUME ConverterAssumption == Pieces \in Nat \ {0} /\ MaxTexts \in Nat

VARIABLES
    flavor,      \* which of the two converters runs
    stage,       \* the frame it yields next, or "reading"
    texts,       \* text deltas passed on
    calls,       \* current_tool_calls, with the calls not seen yet
    order,       \* its keys in the order of insertion
    counter,     \* tool_block_counter
    closed,      \* indexes of the blocks that were stopped
    stopReason,  \* final_stop_reason
    cancelled,   \* cancel_request was called
    remembered,  \* calls whose reasoning went to the reasoning cache
    sent,        \* per call, what the upstream sent: identity, pieces, early pieces
    finish       \* how it said that it ended

upstreamVars == <<sent, finish>>
outside == <<cancelled, remembered>>
vars == <<flavor, stage, texts, calls, order, counter, closed, stopReason, outside, upstreamVars>>

Identity == {"id", "name"}
Whole == [n \in 1..Pieces |-> n]
Unseen == [known |-> {}, buffer |-> <<>>, inputs |-> 0, block |-> 0]
Nothing == [known |-> {}, pieces |-> 0, early |-> FALSE]
Preamble == {"message_start", "block_start", "ping"}

Seen == {i \in Indexes : \E k \in DOMAIN order : order[k] = i}
Started == {i \in Indexes : calls[i].block > 0}

Entries == [known : SUBSET Identity, buffer : Seq(1..Pieces), inputs : Nat, block : Nat]
Accounts == [known : SUBSET Identity, pieces : 0..Pieces, early : BOOLEAN]

TypeOK ==
    /\ flavor \in {"chat", "responses"}
    /\ stage \in Preamble \cup {"reading", "closing", "delta", "stop", "stopped", "failed"}
    /\ texts \in 0..MaxTexts
    /\ calls \in [Indexes -> Entries]
    /\ order \in Seq(Indexes)
    /\ counter \in Nat
    /\ closed \subseteq Nat
    /\ stopReason \in {"end_turn", "max_tokens", "tool_use"}
    /\ cancelled \in BOOLEAN /\ remembered \subseteq Indexes
    /\ sent \in [Indexes -> Accounts]
    /\ finish \in {"none", "stop", "length", "tool_calls", "completed", "incomplete", "filtered"}

Init ==
    /\ flavor \in {"chat", "responses"}
    /\ stage = "message_start"
    /\ texts = 0
    /\ calls = [i \in Indexes |-> Unseen]
    /\ order = <<>> /\ counter = 0 /\ closed = {}
    /\ stopReason = "end_turn"
    /\ cancelled = FALSE /\ remembered = {}
    /\ sent = [i \in Indexes |-> Nothing]
    /\ finish = "none"

-----------------------------------------------------------------------------
(* What both converters have in common.                                    *)

\* message_start, the start of the text block, ping: before any upstream data.
YieldPreamble ==
    /\ stage \in Preamble
    /\ stage' = CASE stage = "message_start" -> "block_start"
                  [] stage = "block_start" -> "ping"
                  [] stage = "ping" -> "reading"
    /\ UNCHANGED <<flavor, texts, calls, order, counter, closed, stopReason, outside, upstreamVars>>

\* The upstream goes on as long as it has not said that it ended.
Reads(f) == stage = "reading" /\ flavor = f /\ finish = "none"

Text(f) ==
    /\ Reads(f) /\ texts < MaxTexts
    /\ texts' = texts + 1
    /\ UNCHANGED <<flavor, stage, calls, order, counter, closed, stopReason, outside, upstreamVars>>

\* The transport broke, or the upstream ended (by [DONE] or the end of the
\* connection) whatever it said before: on to the tail.
Ends ==
    /\ stage = "reading"
    /\ stage' = "closing"
    /\ UNCHANGED <<flavor, texts, calls, order, counter, closed, stopReason, outside, upstreamVars>>

\* The next line finds the client gone: the upstream request is cancelled, and the
\* tail is yielded all the same.
ClientGone ==
    /\ stage = "reading"
    /\ stage' = "closing"
    /\ cancelled' = TRUE
    /\ UNCHANGED <<flavor, texts, calls, order, counter, closed, stopReason, remembered, upstreamVars>>

\* An error in the middle (an exception that maps to an error event, an error or a
\* failed response of the Responses stream): the error event, and no tail.
Fails ==
    /\ stage = "reading"
    /\ stage' = "failed"
    /\ UNCHANGED <<flavor, texts, calls, order, counter, closed, stopReason, outside, upstreamVars>>

\* The text block is stopped first ...
CloseText ==
    /\ stage = "closing" /\ 0 \notin closed
    /\ closed' = closed \cup {0}
    /\ UNCHANGED <<flavor, stage, texts, calls, order, counter, stopReason, outside, upstreamVars>>

\* Positions of the calls whose blocks are still to be stopped.
ToClose == {k \in DOMAIN order : calls[order[k]].block > 0 /\ calls[order[k]].block \notin closed}

\* ... then the tools that were started, in the order of the dict.
CloseTool ==
    /\ stage = "closing" /\ 0 \in closed
    /\ \E k \in ToClose :
          /\ \A j \in ToClose : k <= j
          /\ closed' = closed \cup {calls[order[k]].block}
    /\ UNCHANGED <<flavor, stage, texts, calls, order, counter, stopReason, outside, upstreamVars>>

\* message_delta with the stop reason, message_stop.
Conclude ==
    /\ \/ stage = "closing" /\ 0 \in closed /\ ToClose = {} /\ stage' = "delta"
       \/ stage = "delta" /\ stage' = "stop"
       \/ stage = "stop" /\ stage' = "stopped"
    /\ UNCHANGED <<flavor, texts, calls, order, counter, closed, stopReason, outside, upstreamVars>>

-----------------------------------------------------------------------------
(* Chat Completions.                                                       *)

\* The first delta of a call makes its entry.
See(i) == order' = IF i \in Seen THEN order ELSE Append(order, i)

\* Mutant of ChatIdentity: a block is started once for the id and once for the name.
ChatIdentityTwice(i, fields) ==
    /\ Reads("chat")
    /\ sent' = [sent EXCEPT ![i].known = @ \cup fields]
    /\ See(i)
    /\ counter' = counter + 1
    /\ calls' = [calls EXCEPT ![i].known = @ \cup fields, ![i].block = counter + 1]
    /\ UNCHANGED <<flavor, stage, texts, closed, stopReason, outside, finish>>

\* A tool delta brings the id or the name of a call, or both; the block is started
\* when both are known.
ChatIdentity(i, fields) ==
    /\ Reads("chat")
    /\ sent' = [sent EXCEPT ![i].known = @ \cup fields]
    /\ See(i)
    /\ \/ /\ calls[i].block = 0 /\ calls[i].known \cup fields = Identity
          /\ counter' = counter + 1
          /\ calls' = [calls EXCEPT ![i].known = Identity, ![i].block = counter + 1]
       \/ /\ calls[i].block > 0 \/ calls[i].known \cup fields # Identity
          /\ calls' = [calls EXCEPT ![i].known = @ \cup fields]
          /\ UNCHANGED counter
    /\ UNCHANGED <<flavor, stage, texts, closed, stopReason, outside, finish>>

\* The upstream sends the next piece of the arguments of call i.
SendsPiece(i) ==
    /\ sent[i].pieces < Pieces
    /\ sent' = [sent EXCEPT ![i].pieces = @ + 1,
                           ![i].early = @ \/ sent[i].known # Identity]

\* Mutant of Buffered: the piece takes the place of the buffer.
BufferedAlone(i) ==
    LET buffer == <<sent[i].pieces + 1>> IN
    calls' = [calls EXCEPT ![i].buffer = buffer,
                           ![i].inputs = IF buffer = Whole /\ @ = 0 THEN 1 ELSE @]

\* The piece joins the buffer, which is passed on as soon as it is valid JSON.
Buffered(i) ==
    LET buffer == Append(calls[i].buffer, sent[i].pieces + 1) IN
    calls' = [calls EXCEPT ![i].buffer = buffer,
                           ![i].inputs = IF buffer = Whole /\ @ = 0 THEN 1 ELSE @]

\* A piece that comes before its block is started is dropped.
ChatPiece(i) ==
    /\ Reads("chat") /\ SendsPiece(i)
    /\ See(i)
    /\ \/ calls[i].block > 0 /\ Buffered(i)
       \/ calls[i].block = 0 /\ UNCHANGED calls
    /\ UNCHANGED <<flavor, stage, texts, counter, closed, stopReason, outside, finish>>

AllSent == \A i \in Indexes : sent[i] # Nothing => sent[i].known = Identity /\ sent[i].pieces = Pieces

\* finish_reason.
ChatFinish(reason) ==
    /\ Reads("chat")
    /\ reason = "tool_calls" => AllSent
    /\ finish' = reason
    /\ stopReason' = CASE reason = "length" -> "max_tokens"
                       [] reason = "tool_calls" -> "tool_use"
                       [] reason = "stop" -> "end_turn"
    /\ UNCHANGED <<flavor, stage, texts, calls, order, counter, closed, outside, sent>>

-----------------------------------------------------------------------------
(* Responses.                                                              *)

\* response.output_item.added with a function call: id and name come together and
\* the block is started at once.
ResponsesItem(i) ==
    /\ Reads("responses") /\ sent[i].known = {}
    /\ sent' = [sent EXCEPT ![i].known = Identity]
    /\ order' = Append(order, i)
    /\ counter' = counter + 1
    /\ calls' = [calls EXCEPT ![i] = [Unseen EXCEPT !.known = Identity, !.block = counter + 1]]
    /\ UNCHANGED <<flavor, stage, texts, closed, stopReason, outside, finish>>

\* response.function_call_arguments.delta
ResponsesPiece(i) ==
    /\ Reads("responses") /\ SendsPiece(i)
    /\ \/ i \in Seen /\ calls[i].inputs = 0 /\ Buffered(i)
       \/ (i \notin Seen \/ calls[i].inputs > 0) /\ UNCHANGED calls
    /\ UNCHANGED <<flavor, stage, texts, order, counter, closed, stopReason, outside, finish>>

\* The upstream sends the arguments of call i as a whole.
SendsArguments(i) ==
    sent' = [sent EXCEPT ![i].pieces = Pieces,
                         ![i].early = @ \/ sent[i].known # Identity]

\* Mutant of ResponsesArguments: sent although the buffer was passed on already.
ResponsesArgumentsAgain(i) ==
    /\ Reads("responses")
    /\ SendsArguments(i)
    /\ IF i \in Seen
       THEN calls' = [calls EXCEPT ![i].buffer = Whole, ![i].inputs = @ + 1]
       ELSE UNCHANGED calls
    /\ UNCHANGED <<flavor, stage, texts, order, counter, closed, stopReason, outside, finish>>

\* response.function_call_arguments.done: the arguments once more, as a whole, for
\* a call whose buffer never became valid.
ResponsesArguments(i) ==
    /\ Reads("responses")
    /\ SendsArguments(i)
    /\ IF i \in Seen /\ calls[i].inputs = 0
       THEN calls' = [calls EXCEPT ![i].buffer = Whole, ![i].inputs = 1]
       ELSE UNCHANGED calls
    /\ UNCHANGED <<flavor, stage, texts, order, counter, closed, stopReason, outside, finish>>

\* response.completed, or response.incomplete for want of tokens or for another
\* reason ("filtered"): the stop reason is taken from the final object and the
\* calls seen, the reasoning of any of the upstream's calls goes to the cache, and
\* nothing is read any more.
ResponsesTerminal(kind) ==
    /\ Reads("responses")
    /\ kind = "completed" => AllSent
    /\ finish' = kind
    /\ stopReason' = IF kind = "incomplete" THEN "max_tokens"
                     ELSE IF Seen # {} THEN "tool_use" ELSE "end_turn"
    /\ stage' = "closing"
    /\ \E reasoned \in SUBSET {i \in Indexes : sent[i].known # {}} : remembered' = reasoned
    /\ UNCHANGED <<flavor, texts, calls, order, counter, closed, cancelled, sent>>

ChatStep ==
    \/ Text("chat")
    \/ \E i \in Indexes : ChatPiece(i) \/ \E fields \in SUBSET Identity : ChatIdentity(i, fields)
    \/ \E reason \in {"stop", "length", "tool_calls"} : ChatFinish(reason)

ResponsesStep ==
    \/ Text("responses")
    \/ \E i \in Indexes : ResponsesItem(i) \/ ResponsesPiece(i) \/ ResponsesArguments(i)
    \/ \E kind \in {"completed", "incomplete", "filtered"} : ResponsesTerminal(kind)

TailStep == Ends \/ ClientGone \/ Fails \/ CloseText \/ CloseTool \/ Conclude

Next == YieldPreamble \/ ChatStep \/ ResponsesStep \/ TailStep

Spec == Init /\ [][Next]_vars

-----------------------------------------------------------------------------
(* Properties.                                                             *)

\* The frames of either converter form one proper Anthropic message: blocks open at
\* consecutive indexes, grow only while they are open, get their input in one piece,
\* are each stopped once, and all before the message ends.
CallOf(n) == CHOOSE i \in Indexes : calls[i].block = n

Phase == CASE stage = "message_start" -> "idle"
           [] stage = "stop" -> "delta"
           [] stage \in {"stopped", "failed"} -> stage
           [] OTHER -> "open"

Announced == IF stage \in {"message_start", "block_start"} THEN {} ELSE 0..counter

BlockAt(n) == [kind |-> IF n = 0 THEN "text" ELSE "tool",
               open |-> n \notin closed,
               parts |-> IF n = 0 THEN texts ELSE calls[CallOf(n)].inputs]

Blocks == [n \in Announced |-> BlockAt(n)]

Stream == INSTANCE MessageStream WITH phase <- Phase, blocks <- Blocks

KeepsStream == Stream!Spec

\* A message that asks the client to run tools has the whole input of each of them,
\* however the pieces of several calls were mixed, unless the upstream sent
\* arguments ahead of the call they belong to or broke off in the middle.
ToolUseComplete ==
    stage = "stopped" /\ stopReason = "tool_use" /\ finish # "filtered" =>
        \A i \in Indexes : sent[i].known # {} /\ ~sent[i].early =>
            calls[i].inputs = 1 /\ calls[i].buffer = Whole /\ calls[i].block \in closed

\* The inductive invariant.  Blocks are numbered without gaps and without sharing, and
\* belong to calls in the dict.
BlockInv ==
    /\ \A i \in Indexes : calls[i].block \in 0..counter
    /\ \A i, j \in Started : calls[i].block = calls[j].block => i = j
    /\ \A n \in 1..counter : \E i \in Started : calls[i].block = n
    /\ Started \subseteq Seen
    /\ flavor = "responses" => Seen \subseteq Started
    /\ \A i \in Indexes : calls[i].inputs > 0 => i \in Started

\* They are stopped in the tail only, and all of them before the message ends.
StageInv ==
    /\ stage \in Preamble => counter = 0 /\ texts = 0 /\ order = <<>>
    /\ stage \in Preamble \cup {"reading"} => closed = {}
    /\ closed \subseteq 0..counter
    /\ stage \in {"delta", "stop", "stopped"} => closed = 0..counter

\* What arrived of a call whose pieces came in time is what was sent of it.
Arrived(i) ==
    \/ calls[i].inputs = 0 /\ sent[i].pieces < Pieces /\ calls[i].buffer = [n \in 1..sent[i].pieces |-> n]
    \/ calls[i].inputs = 1 /\ sent[i].pieces = Pieces /\ calls[i].buffer = Whole

ArrivalInv ==
    /\ \A i \in Indexes : calls[i].known = sent[i].known /\ (i \in Started <=> calls[i].known = Identity)
    /\ \A i \in Indexes : ~sent[i].early => Arrived(i) /\ (sent[i].pieces > 0 => i \in Started)
    /\ finish \in {"tool_calls", "completed"} => AllSent
    /\ stopReason = "tool_use" => finish \in {"tool_calls", "completed", "filtered"}

IInv == TypeOK /\ BlockInv /\ StageInv /\ ArrivalInv
=============================================================================
