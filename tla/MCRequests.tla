----------------------------- MODULE MCRequests -----------------------------
(* One request from the router's parts that have no part in each other's     *)
(* state, for TLC, each in behaviours of its own: the routing file and the   *)
(* provider it finds, the headers, the tools of a growing conversation, the  *)
(* conversion of the messages, and that of the answer.                       *)
EXTENDS ResponseConverter, Routing, RequestHeaders, ToolVisibility, RequestConverter

CONSTANTS i1, i2, i3

VARIABLE part   \* what the behaviour is about

allVars == <<part, routingVars, headersVars, toolsVars, converterVars, vars>>

-----------------------------------------------------------------------------
(* Routing files: three providers of which one deviates in one field from a  *)
(* native, an own-key or a translating one, and up to two rules of every     *)
(* kind, each with at most one field out of the ordinary.                    *)

MCModels == {<<"a">>, <<"a", "b">>, <<"b">>}

Native == [type |-> "passthrough", keyed |-> FALSE, forward |-> TRUE, given |-> {}, fold |-> FALSE,
           flavor |-> "chat", tokenParam |-> "max_tokens", drops |-> {}, extra |-> {}, max |-> Null,
           window |-> Null, price |-> Null, keySet |-> TRUE, bundle |-> "none"]

Vendor == [Native EXCEPT !.keyed = TRUE, !.forward = FALSE, !.given = {"forward_client_auth"}]

Fleet == [Native EXCEPT !.type = "openai-translate", !.keyed = TRUE, !.max = 2, !.window = 5]

Deviations(p) ==
    {[p EXCEPT !.keyed = ~p.keyed], [p EXCEPT !.forward = ~p.forward],
     [p EXCEPT !.given = {"forward_client_auth", "auth_header"} \ p.given],
     [p EXCEPT !.fold = TRUE], [p EXCEPT !.flavor = "responses"],
     [p EXCEPT !.tokenParam = "max_completion_tokens"],
     [p EXCEPT !.drops = {"stop"}], [p EXCEPT !.drops = {p.tokenParam}],
     [p EXCEPT !.extra = {"x-team"}], [p EXCEPT !.extra = {"x-api-key"}],
     [p EXCEPT !.max = Null], [p EXCEPT !.max = 4], [p EXCEPT !.max = -1],
     [p EXCEPT !.window = Null], [p EXCEPT !.window = 6], [p EXCEPT !.window = -1], [p EXCEPT !.price = 1],
     [p EXCEPT !.keySet = FALSE], [p EXCEPT !.bundle = "missing"]}

ProvidersOfOthers == UNION {{p} \cup Deviations(p) : p \in {Native, Vendor, Fleet}}

Rule(kind, value) ==
    [provider |-> "other", kind |-> kind, value |-> value, finds |-> {<<"a">>, <<"b">>},
     compiles |-> TRUE, upstream |-> Null, max |-> Null, window |-> Null, clients |-> {}, price |-> Null]

WholeName == Rule("exact", <<"a", "b">>)

Rules ==
    {Rule("exact", <<"a">>), WholeName, Rule("prefix", <<"a">>), Rule("contains", <<"b">>),
     Rule("regex", <<"a">>), [Rule("regex", <<"a">>) EXCEPT !.compiles = FALSE],
     [Rule("prefix", <<"a">>) EXCEPT !.clients = {<<"a">>, <<"a", "b">>}],
     [Rule("contains", <<"b">>) EXCEPT !.clients = {<<"a">>}],
     [WholeName EXCEPT !.provider = "nobody"], [WholeName EXCEPT !.provider = "native"],
     [WholeName EXCEPT !.upstream = "gpt"], [WholeName EXCEPT !.max = 4],
     [WholeName EXCEPT !.window = 6], [WholeName EXCEPT !.max = 4, !.window = 7],
     [WholeName EXCEPT !.max = -1, !.window = 2],
     [WholeName EXCEPT !.price = 2]}

MCConfigs ==
    [providers : {[native |-> Native, other |-> p] : p \in ProvidersOfOthers},
     rules : {<<>>} \cup {<<r>> : r \in Rules} \cup (Rules \X Rules),
     default : {"native"}]
    \cup [providers : {[native |-> Native, other |-> p] : p \in ProvidersOfOthers},
          rules : {<<>>}, default : {"other", "nobody"}]

-----------------------------------------------------------------------------
(* Headers: repeated lines, both credentials, a configured name in another   *)
(* spelling or in two.                                                       *)

Line(name, value) == [name |-> name, value |-> value]

MCLines ==
    {<<Line("anthropic-beta", 1), Line("anthropic-beta", 2), Line("x-api-key", 1)>>,
     <<Line("authorization", 1), Line("cookie", 1), Line("accept", 1)>>,
     <<Line("anthropic-beta", 1), Line("connection", 1), Line("anthropic-beta", 1),
       Line("content-length", 1)>>}

MCExtras ==
    {<<>>, [n \in {"X-Team"} |-> 7], [n \in {"Cookie"} |-> 9],
     [n \in {"Anthropic-Beta", "anthropic-BETA"} |-> 8]}

MCLower ==
    [n \in HopByHop \cup OwnKeyAllowed \cup SecretNames
             \cup {"cookie", "X-Team", "Anthropic-Beta", "anthropic-BETA", "Cookie"} |->
        CASE n = "X-Team" -> "x-team" [] n = "Cookie" -> "cookie"
          [] n \in {"Anthropic-Beta", "anthropic-BETA"} -> "anthropic-beta" [] OTHER -> n]

MCResponses ==
    {<<Line("content-length", 3), Line("content-type", 1)>>,
     <<Line("transfer-encoding", 1), Line("connection", 1)>>, <<>>}

-----------------------------------------------------------------------------
(* Tools: deferred ones, the placeholder, more built-in ones than the limit, *)
(* and blocks that load a known, a new, an invalid or no tool, or define one *)
(* twice.                                                                    *)

Tool(name, deferred) == [name |-> name, deferred |-> deferred, definition |-> 0]

MCToolArrays ==
    {NoTools, <<>>, <<Tool("Bash", FALSE), Tool("mcp", TRUE), Tool("web", FALSE)>>,
     <<Tool(Placeholder, TRUE), Tool("mcp", TRUE), Tool("Read", TRUE)>>,
     <<Tool("web", FALSE), Tool(Placeholder, FALSE)>>}

Addition(name, schema, id) == [kind |-> "tool_addition", name |-> name, schema |-> schema, id |-> id]

MCToolBlocks ==
    {TextBlock, NamelessBlock} \cup {Addition(n, s, 1) : n \in {"mcp", "new"}, s \in {"none", "valid"}}
    \cup {Addition(n, s, 2) : n \in {"new", "Read", Placeholder}, s \in {"valid", "invalid"}}

MCToolMessages ==
    {PlainText, <<>>} \cup {<<b>> : b \in MCToolBlocks}
    \cup {<<b, c>> : b \in MCToolBlocks, c \in MCToolBlocks}

-----------------------------------------------------------------------------
(* Conversations of up to four messages.  A user message has the results of  *)
(* all calls of the last assistant message, which are there to be had and    *)
(* are given once.                                                           *)

Kinds ==
    [user |-> {<<"text">>, <<"results">>, <<"results", "text">>, <<"blank", "results">>,
               <<"blank">>, <<"image", "text", "link">>, <<"link">>},
     system |-> {<<"text">>, <<>>},
     assistant |-> {<<"text">>, <<"use">>, <<"text", "use", "use">>}]

Shapes == UNION {[role : {r}, kinds : Kinds[r]] : r \in DOMAIN Kinds}

WithResults(shape) == Contains(shape.kinds, "results")

CallsBefore(shapes, m) ==
    LET callers == {k \in 1..(m - 1) : shapes[k].role = "assistant"}
    IN  IF callers = {} THEN {}
        ELSE LET k == CHOOSE k \in callers : \A l \in callers : l <= k
             IN  {<<k, b>> : b \in {b \in DOMAIN shapes[k].kinds :
                                      /\ shapes[k].kinds[b] = "use"
                                      /\ \A l \in k..(m - 1) : ~WithResults(shapes[l])}}

BlocksOf(shapes, m) ==
    FlattenSeq([b \in DOMAIN shapes[m].kinds |->
        IF shapes[m].kinds[b] # "results" THEN <<[kind |-> shapes[m].kinds[b], id |-> <<m, b>>]>>
        ELSE LET ids == SetToSortSeq(CallsBefore(shapes, m), LAMBDA c, d : c[2] < d[2])
             IN  [k \in DOMAIN ids |-> [kind |-> "result", id |-> ids[k]]]])

MCConversations ==
    {[m \in DOMAIN shapes |-> [role |-> shapes[m].role, blocks |-> BlocksOf(shapes, m)]] :
        shapes \in {s \in UNION {[1..n -> Shapes] : n \in 1..4} :
                        \A m \in DOMAIN s : WithResults(s[m]) => CallsBefore(s, m) # {}}}

MCCached == {<<1, 2>>, <<2, 1>>, <<2, 3>>}

-----------------------------------------------------------------------------
Parts == {"routing", "headers", "tools", "messages", "answer"}

\* What a behaviour is not about stays as it is.
PlainConfig == [providers |-> [native |-> Native], rules |-> <<>>, default |-> "native"]
RoutingIdle == config = PlainConfig /\ registry = "none" /\ route = Null /\ answer = Null

HeadersIdle ==
    /\ listener = "asgi" /\ arrived = <<>> /\ auth = "forward" /\ extra = <<>>
    /\ headers = "request" /\ upward = <<>> /\ downward = <<>>

ToolsIdle == tools = NoTools /\ talk = <<>> /\ folded = FoldBody(tools, talk) /\ offered = NoTools

ConverterIdle ==
    target = "chat" /\ messages = <<>> /\ turn = 1 /\ pending = <<>> /\ items = <<>>

MCInit ==
    /\ part \in Parts
    /\ IF part = "routing" THEN RoutingInit ELSE RoutingIdle
    /\ IF part = "headers" THEN HeadersInit ELSE HeadersIdle
    /\ IF part = "tools" THEN ToolsInit ELSE ToolsIdle
    /\ IF part = "messages" THEN ConverterInit ELSE ConverterIdle
    /\ Init /\ (part = "answer" \/ flavor = "chat")

MCNext ==
    /\ UNCHANGED part
    /\ \/ /\ part = "routing" /\ RoutingNext
          /\ UNCHANGED <<headersVars, toolsVars, converterVars, vars>>
       \/ /\ part = "headers" /\ HeadersNext
          /\ UNCHANGED <<routingVars, toolsVars, converterVars, vars>>
       \/ /\ part = "tools" /\ ToolsNext
          /\ UNCHANGED <<routingVars, headersVars, converterVars, vars>>
       \/ /\ part = "messages" /\ ConverterNext
          /\ UNCHANGED <<routingVars, headersVars, toolsVars, vars>>
       \/ /\ part = "answer" /\ Next
          /\ UNCHANGED <<routingVars, headersVars, toolsVars, converterVars>>

MCSpec == MCInit /\ [][MCNext]_allVars
=============================================================================
