--------------------------- MODULE RequestConverter ---------------------------
(***************************************************************************)
(* The messages of an Anthropic request turned into Chat Completions messages *)
(* or into a Responses input array (src/conversion/request_converter.py), one *)
(* round of the converter's loop per step.  A block is its kind and an id; a   *)
(* tool result has the id of its call.  An output item is a role with its      *)
(* parts, and the calls it makes or the one it answers.                        *)
(***************************************************************************)
EXTENDS Selections

CONSTANTS
    Conversations,   \* messages of requests
    Cached           \* ids of calls whose reasoning the cache has

VARIABLES
    target,     \* "chat" or "responses"
    messages,   \* the request's messages
    turn,       \* the loop's index
    pending,    \* pending_system_text
    items       \* what has been converted, or more than that once done

converterVars == <<target, messages, turn, pending, items>>

Item(role, parts, calls) == [role |-> role, parts |-> parts, calls |-> calls]

Of(message, kinds) == OfKinds(message.blocks, kinds)
Ids(blocks) == [i \in DOMAIN blocks |-> blocks[i].id]

\* A message whose content is a string is one block of text, a blank one when the string
\* is empty; the request model admits no message without content.  An image by URL is no
\* base64 image and is left out.
Content(message) == Of(message, {"text", "blank", "image"})
SystemText(message) == Of(message, {"text"})
Results(message) == Of(message, {"result"})

ContentBlock == [kind : {"text", "blank", "image", "link", "use", "result"}, id : Nat \X Nat]
Message == [role : {"user", "system", "assistant"}, blocks : Seq(ContentBlock)]

\* A user message's results are of calls of the last assistant message before it, as the
\* Messages API requires.  The ids tell the blocks of user and system messages apart.
ASSUME ConversationsAssumption ==
    \A c \in Conversations :
        /\ c \in Seq(Message)
        /\ \A m \in DOMAIN c : c[m].role = "user" =>
              \A r \in ToSet(Results(c[m])) : \E k \in 1..(m - 1) :
                  /\ c[k].role = "assistant" /\ \A l \in k + 1..m - 1 : c[l].role # "assistant"
                  /\ \E u \in ToSet(Of(c[k], {"use"})) : u.id = r.id
        /\ \A m, n \in DOMAIN c : c[m].role = "user" /\ c[n].role = "system" =>
              ToSet(c[m].blocks) \cap ToSet(c[n].blocks) = {}

-----------------------------------------------------------------------------
(* Chat Completions.                                                       *)

UserItem(message) == Item("user", Content(message), <<>>)

AssistantItem(message) ==
    Item("assistant", Of(message, {"text", "blank"}), Ids(Of(message, {"use"})))

ToolItems(message) ==
    [i \in DOMAIN Results(message) |-> Item("tool", <<Results(message)[i]>>, <<Results(message)[i].id>>)]

\* has_visible_content of what stands beside the tool results.
Remainder(message) ==
    IF \E i \in DOMAIN Content(message) : Content(message)[i].kind # "blank"
    THEN <<UserItem(message)>> ELSE <<>>

\* System text that waits becomes a user turn of its own.
Flushed == IF pending = <<>> THEN <<>> ELSE <<Item("user", pending, <<>>)>>

Converting(role) ==
    /\ turn <= Len(messages) /\ messages[turn].role = role
    /\ UNCHANGED <<target, messages>>

\* A user message, behind the system text that waits for one; tool results that do not
\* follow their assistant message directly have no place here and are left out.
ChatUser ==
    /\ target = "chat" /\ Converting("user")
    /\ items' = Append(items, Item("user", pending \o Content(messages[turn]), <<>>))
    /\ pending' = <<>> /\ turn' = turn + 1

\* Mutant of ChatSystem: system text becomes a user turn where it stands.
ChatSystemInPlace ==
    /\ target = "chat" /\ Converting("system")
    /\ items' = IF SystemText(messages[turn]) = <<>> THEN items
                ELSE Append(items, Item("user", SystemText(messages[turn]), <<>>))
    /\ turn' = turn + 1 /\ UNCHANGED pending

\* System text goes to the end of a user turn right before it, or waits for the next.
ChatSystem ==
    /\ target = "chat" /\ Converting("system")
    /\ LET text == SystemText(messages[turn])
       IN  IF items # <<>> /\ Last(items).role = "user"
           THEN /\ items' = [items EXCEPT ![Len(items)].parts = @ \o text]
                /\ UNCHANGED pending
           ELSE /\ pending' = pending \o text
                /\ UNCHANGED items
    /\ turn' = turn + 1

\* An assistant message takes the tool results of a user message right behind it along,
\* and what stands beside them follows as a user turn.
ChatAssistant ==
    /\ target = "chat" /\ Converting("assistant")
    /\ LET answered == turn < Len(messages) /\ messages[turn + 1].role = "user"
                       /\ Results(messages[turn + 1]) # <<>>
       IN  /\ items' = items \o Flushed \o <<AssistantItem(messages[turn])>> \o
                       (IF answered THEN ToolItems(messages[turn + 1]) \o Remainder(messages[turn + 1])
                        ELSE <<>>)
           /\ turn' = IF answered THEN turn + 2 ELSE turn + 1
    /\ pending' = <<>>

ChatEnds ==
    /\ target = "chat" /\ turn = Len(messages) + 1
    /\ items' = items \o Flushed /\ pending' = <<>>
    /\ turn' = turn + 1 /\ UNCHANGED <<target, messages>>

-----------------------------------------------------------------------------
(* Responses.                                                              *)

\* The results of a user message, then the message itself.
ResponsesUser ==
    /\ target = "responses" /\ Converting("user")
    /\ LET results == Results(messages[turn])  content == Content(messages[turn])
       IN  items' = items
              \o [i \in DOMAIN results |-> Item("function_call_output", <<results[i]>>, <<results[i].id>>)]
              \o (IF content = <<>> THEN <<>> ELSE <<Item("user", content, <<>>)>>)
    /\ turn' = turn + 1 /\ UNCHANGED pending

\* The reasoning the cache has of a call, and the call.
Call(id) ==
    (IF id \in Cached THEN <<Item("reasoning", <<>>, <<id>>)>> ELSE <<>>)
    \o <<Item("function_call", <<>>, <<id>>)>>

Called(message) ==
    LET uses == Ids(Of(message, {"use"})) IN FlattenSeq([i \in DOMAIN uses |-> Call(uses[i])])

ResponsesAssistant ==
    /\ target = "responses" /\ Converting("assistant")
    /\ LET text == Of(messages[turn], {"text", "blank"})
       IN  items' = items \o (IF text = <<>> THEN <<>> ELSE <<Item("assistant", text, <<>>)>>)
                          \o Called(messages[turn])
    /\ turn' = turn + 1 /\ UNCHANGED pending

ResponsesSystem ==
    /\ target = "responses" /\ Converting("system")
    /\ LET text == SystemText(messages[turn])
       IN  items' = items \o (IF text = <<>> THEN <<>> ELSE <<Item("system", text, <<>>)>>)
    /\ turn' = turn + 1 /\ UNCHANGED pending

ResponsesEnds ==
    /\ target = "responses" /\ turn = Len(messages) + 1
    /\ turn' = turn + 1 /\ UNCHANGED <<target, messages, pending, items>>

-----------------------------------------------------------------------------
\* The top-level system text stands before the messages of a chat request, and in the
\* instructions of the other target.
ConverterInit ==
    /\ target \in {"chat", "responses"}
    /\ messages \in Conversations
    /\ turn = 1 /\ pending = <<>>
    /\ \/ items = <<>>
       \/ target = "chat" /\ items = <<Item("system", <<>>, <<>>)>>

ConverterNext ==
    \/ ChatUser \/ ChatSystem \/ ChatAssistant \/ ChatEnds
    \/ ResponsesUser \/ ResponsesAssistant \/ ResponsesSystem \/ ResponsesEnds

ConverterSpec == ConverterInit /\ [][ConverterNext]_converterVars

-----------------------------------------------------------------------------
(* Properties.                                                             *)

Converted == turn = Len(messages) + 2

Words(blocks) == OfKinds(blocks, {"text", "image"})

\* What is said in a message: images are a user's.
Said(message) == Of(message, IF message.role = "user" THEN {"text", "image"} ELSE {"text"})

\* Text and images arrive once each and in the order of the request, wherever system
\* text was moved to.
WordsInOrder ==
    FlattenSeq([i \in DOMAIN items |-> Words(items[i].parts)])
        = FlattenSeq([m \in DOMAIN messages |-> Said(messages[m])])

\* User messages of which an empty user turn is left: of nothing the upstream takes, but
\* for results that do not follow their calls directly.
Stray ==
    {m \in DOMAIN messages :
        /\ messages[m].role = "user" /\ Content(messages[m]) = <<>>
        /\ m > 1 /\ messages[m - 1].role = "assistant" => Results(messages[m]) = <<>>}

\* "The text never opens a turn of its own next to another user turn"
\* (src/conversion/request_converter.py:87), as long as something is left of each user message.
SystemOpensNoTurn ==
    LET systemBlocks == UNION {ToSet(messages[m].blocks) :
                               m \in {m \in DOMAIN messages : messages[m].role = "system"}}
    IN  Stray = {} =>
            \A i \in 1..(Len(items) - 1) :
                items[i].role = "user" /\ items[i + 1].role = "user" =>
                    \A k \in {i, i + 1} : ~(ToSet(items[k].parts) \subseteq systemBlocks)

\* The messages of role tool directly behind the assistant message at i.
ToolRun(i) ==
    {j \in i + 1..Len(items) : \A k \in i + 1..j : items[k].role = "tool"}

\* In a chat request the results of the calls of an assistant message stand directly
\* behind it, in order and with nothing in between, and no other result stands anywhere;
\* only results with a message between them and their calls are lost.
ChatResultsFollow ==
    /\ \A i \in DOMAIN items : items[i].role = "tool" =>
          \E j \in DOMAIN items : items[j].role = "assistant" /\ i \in ToolRun(j)
                                  /\ items[i].calls[1] \in ToSet(items[j].calls)
    /\ \A m \in 1..(Len(messages) - 1) :
          messages[m].role = "assistant" /\ messages[m + 1].role = "user" =>
              \A r \in ToSet(Results(messages[m + 1])) :
                  \E i \in DOMAIN items : items[i].role = "tool" /\ items[i].calls = <<r.id>>

\* In a Responses request every result is there and follows its call, and a call whose
\* reasoning the cache has stands directly behind it.
ResponsesResultsFollow ==
    /\ \A m \in DOMAIN messages : messages[m].role = "user" =>
          \A r \in ToSet(Results(messages[m])) : \E j \in DOMAIN items : \E i \in 1..(j - 1) :
              /\ items[i].role = "function_call" /\ items[j].role = "function_call_output"
              /\ items[i].calls = <<r.id>> /\ items[j].calls = <<r.id>>
    /\ \A i \in DOMAIN items : items[i].role = "function_call" /\ items[i].calls[1] \in Cached =>
          i > 1 /\ items[i - 1] = Item("reasoning", <<>>, items[i].calls)

ConvertedSound ==
    Converted =>
        /\ WordsInOrder
        /\ target = "chat" => SystemOpensNoTurn /\ ChatResultsFollow
        /\ target = "responses" => ResponsesResultsFollow
=============================================================================
