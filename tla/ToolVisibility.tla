---------------------------- MODULE ToolVisibility ----------------------------
(***************************************************************************)
(* Deferred tools of a growing conversation (src/services/tool_visibility.py): *)
(* what fold_tool_additions makes of each request on an own-key passthrough    *)
(* provider, and visible_tools and cap_tools of                                *)
(* src/providers/openai_translate.py of the same request on a translate        *)
(* provider.  A tool is [name, deferred, definition]; a block is a             *)
(* tool_addition with the tool it names or with none, or anything else.        *)
(***************************************************************************)
EXTENDS Selections

CONSTANTS
    ToolArrays,   \* tools of the requests of a session: sequences of tools, or NoTools
    NoTools,      \* the field is missing
    PlainText,    \* the string
    ToolMessages, \* what the messages of a conversation hold: sequences of blocks, or a string
    Placeholder,  \* DeferredToolPlaceholder
    Builtins,     \* CLAUDE_BUILTIN_TOOL_NAMES
    ToolsMax,     \* tools_max
    MaxMessages   \* bound on the length of a conversation

VARIABLES
    tools,      \* the tools array, the same in every request of the session
    talk,       \* the messages so far: each a sequence of blocks, or a string
    folded,     \* the last request as the passthrough provider sends it
    offered     \* the tools the translate provider offers for it

toolsVars == <<tools, talk, folded, offered>>

\* A tool of a request; a block that loads a tool, by name or with a definition, which
\* may be none that can be used; one whose tool is no object or has no name, which loads
\* none (of those, the translate path's request model admits the second only); any other.
RequestTool == [name : STRING, deferred : BOOLEAN, definition : Nat]
AdditionBlock == [kind : {"tool_addition"}, name : STRING, id : Nat,
                  schema : {"none", "valid", "invalid"}]
NamelessBlock == [kind |-> "nameless"]
TextBlock == [kind |-> "text"]

AdditionKinds == {"tool_addition", "nameless"}

ASSUME ToolsAssumption ==
    /\ ToolArrays \ {NoTools} \subseteq Seq(RequestTool)
    /\ ToolMessages \ {PlainText} \subseteq Seq(AdditionBlock \cup {NamelessBlock, TextBlock})
    /\ ToolsMax \in Nat

-----------------------------------------------------------------------------
(* resolve_visible.                                                        *)

AdditionsOf(message) == IF message = PlainText THEN <<>> ELSE OfKinds(message, {"tool_addition"})

\* Mutant of AdditionsIn: only the newest message is looked at.
AdditionsInNewest(messages) ==
    IF messages = <<>> THEN <<>> ELSE AdditionsOf(messages[Len(messages)])

\* The blocks of the conversation that load tools, in order.
AdditionsIn(messages) == FlattenSeq([i \in DOMAIN messages |-> AdditionsOf(messages[i])])

\* The definitions of blocks that carry one and whose tool is valid: in the order of
\* their names' first, the last one of each name.
Defined(additions) ==
    LET whole == Kept(additions, {i \in DOMAIN additions : additions[i].schema = "valid"})
        firsts == {i \in DOMAIN whole : \A j \in 1..(i - 1) : whole[j].name # whole[i].name}
        latest(name) == whole[CHOOSE i \in DOMAIN whole :
                            /\ whole[i].name = name
                            /\ \A j \in DOMAIN whole : whole[j].name = name => j <= i]
    IN  Kept([i \in DOMAIN whole |-> [name |-> whole[i].name, deferred |-> FALSE,
                                      definition |-> latest(whole[i].name).id]], firsts)

Named(sequence) == {sequence[i].name : i \in DOMAIN sequence}

\* What the blocks define and the request does not.
New(array, additions) ==
    LET defined == Defined(additions)
    IN  Kept(defined, {i \in DOMAIN defined : defined[i].name \notin Named(array) \cup {Placeholder}})

\* The tools of the request that are not deferred, or are in some names.
Callable(array, names) ==
    Kept(array, {i \in DOMAIN array : /\ array[i].name # Placeholder
                                      /\ ~array[i].deferred \/ array[i].name \in names})

\* Mutant of Visible: a deferred tool stays hidden unless its block defines it.
VisibleIfDefined(array, additions) ==
    Callable(array, Named(Defined(additions))) \o New(array, additions)

\* The tools that are not deferred or have been loaded, and those defined on the way.
Visible(array, additions) == Callable(array, Named(additions)) \o New(array, additions)

-----------------------------------------------------------------------------
(* fold_tool_additions.                                                    *)

WithoutAdditions(message) ==
    IF message = PlainText THEN message
    ELSE Kept(message, {i \in DOMAIN message : message[i].kind \notin AdditionKinds})

\* A message emptied by the fold goes; one that was empty stays.
KeptMessages(messages) ==
    LET without == [i \in DOMAIN messages |-> WithoutAdditions(messages[i])]
    IN  Kept(without, {i \in DOMAIN messages : without[i] # <<>> \/ without[i] = messages[i]})

Shown(tool) == [tool EXCEPT !.deferred = FALSE]

HasAdditions(message) ==
    message # PlainText /\ \E i \in DOMAIN message : message[i].kind \in AdditionKinds

\* It has something to do: a block to take out, even one that loads nothing, or a tool
\* that is deferred.
Folds(array, messages) ==
    \/ \E i \in DOMAIN messages : HasAdditions(messages[i])
    \/ array # NoTools /\ \E i \in DOMAIN array : array[i].deferred

Fold(array, messages) ==
    [messages |-> KeptMessages(messages),
     tools |-> IF array = NoTools THEN NoTools
               ELSE LET visible == Visible(array, AdditionsIn(messages))
                    IN  [i \in DOMAIN visible |-> Shown(visible[i])]]

\* What the upstream gets: PassthroughProvider._fold_body.
FoldBody(array, messages) ==
    IF Folds(array, messages) THEN Fold(array, messages)
    ELSE [messages |-> messages, tools |-> array]

-----------------------------------------------------------------------------
(* cap_tools.                                                              *)

Capped(array) ==
    IF ToolsMax = 0 \/ Len(array) <= ToolsMax THEN array
    ELSE LET built == {i \in DOMAIN array : array[i].name \in Builtins}
             builtins == Kept(array, built)
             others == Kept(array, DOMAIN array \ built)
             room == IF ToolsMax > Len(builtins) THEN ToolsMax - Len(builtins) ELSE 0
         IN  builtins \o SubSeq(others, 1, IF room < Len(others) THEN room ELSE Len(others))

\* visible_tools and cap_tools, as _build_openai_request calls them.
Offered(array, messages) ==
    IF array = NoTools THEN NoTools ELSE Capped(Visible(array, AdditionsIn(messages)))

-----------------------------------------------------------------------------
ToolsInit ==
    /\ tools \in ToolArrays
    /\ talk = <<>> /\ folded = [messages |-> <<>>, tools |-> tools]
    /\ offered = Offered(tools, talk)

\* The conversation grows by a message, and the whole of it is sent.
Ask(message) ==
    /\ Len(talk) < MaxMessages
    /\ talk' = Append(talk, message)
    /\ folded' = FoldBody(tools, talk')
    /\ offered' = Offered(tools, talk')
    /\ UNCHANGED tools

ToolsNext == \E message \in ToolMessages : Ask(message)

ToolsSpec == ToolsInit /\ [][ToolsNext]_toolsVars

-----------------------------------------------------------------------------
(* Properties.                                                             *)

\* What an own-key upstream gets has no trace of deferral: no tool_addition block, no
\* deferred tool, no placeholder, no message emptied by the fold, and folding it again
\* changes nothing; no two tools have one name unless the client sent them; a name the
\* conversation loaded is callable if anything defines it.  Without a tools array there
\* is nothing to add to: the definitions of the blocks are lost with them.
FoldedIsPlain ==
    talk # <<>> =>
        /\ \A i \in DOMAIN folded.messages : ~HasAdditions(folded.messages[i])
        /\ ~Folds(folded.tools, folded.messages)
        /\ Len(folded.messages) <= Len(talk)
        /\ \A i \in DOMAIN folded.messages :
              folded.messages[i] = <<>> => \E j \in DOMAIN talk : talk[j] = <<>>
        /\ tools # NoTools =>
              LET plain == folded.tools  folding == Folds(tools, talk)
                  loaded == Named(AdditionsIn(talk)) \cap
                                (Named(tools) \cup Named(Defined(AdditionsIn(talk))))
              IN  /\ folding => Placeholder \notin Named(plain)
                  /\ \A i, j \in DOMAIN plain :
                        plain[i].name = plain[j].name => i = j \/ plain[i].name \in Named(tools)
                  /\ loaded \ {Placeholder} \subseteq Named(plain)

\* As a conversation grows no tool it could call is taken away, on either path: only a
\* translate provider's limit may push one out, and never a built-in one.
ToolsNeverShrink ==
    [][tools # NoTools =>
          /\ talk # <<>> => Named(folded.tools) \ {Placeholder} \subseteq Named(folded'.tools)
          /\ LET lost == Named(offered) \ Named(offered')
             IN  lost # {} => Len(offered') >= ToolsMax /\ lost \cap Builtins = {}]_toolsVars
=============================================================================
