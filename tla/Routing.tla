------------------------------- MODULE Routing -------------------------------
(***************************************************************************)
(* The routing configuration, from its validation at the start (RoutingConfig *)
(* of src/routing/schema.py, the providers built from it by                  *)
(* src/providers/factory.py) to the routes it gives (ProviderRegistry of      *)
(* src/routing/registry.py) and the completion budget a translate provider    *)
(* makes of a route's limits (_enforce_context_window of                      *)
(* src/providers/openai_translate.py).  A model id is a sequence of letters.  *)
(***************************************************************************)
EXTENDS Integers, Sequences

CONSTANTS
    Configs,    \* what the file may hold, once it is read as YAML
    Models,     \* model ids clients ask for
    Reserve,    \* CONTEXT_WINDOW_RESERVE_TOKENS
    MinUseful,  \* MIN_USEFUL_COMPLETION_TOKENS
    MinTokens,  \* MIN_COMPLETION_TOKENS
    Demands,    \* values of max_tokens in requests
    Estimates,  \* what estimate_openai_request_tokens makes of them
    Null

Droppable == {"temperature", "top_p", "stop"}
Credentials == {"authorization", "x-api-key"}
Limits == Int \cup {Null}    \* nothing keeps a limit from being negative
Prices == Nat \cup {Null}

ProviderCfg == [type : {"passthrough", "openai-translate"}, keyed : BOOLEAN,
                forward : BOOLEAN, given : SUBSET {"forward_client_auth", "auth_header"},
                fold : BOOLEAN, flavor : {"chat", "responses"},
                tokenParam : {"max_tokens", "max_completion_tokens", "max_output_tokens"},
                drops : SUBSET STRING, extra : SUBSET STRING,
                max : Limits, window : Limits, price : Prices,
                keySet : BOOLEAN, bundle : {"none", "there", "missing"}]

RoutingRule == [provider : STRING, kind : {"exact", "prefix", "contains", "regex"},
                value : Seq(STRING), finds : SUBSET Seq(STRING), compiles : BOOLEAN,
                upstream : STRING \cup {Null}, max : Limits, window : Limits,
                clients : SUBSET Seq(STRING), price : Prices]

ASSUME RoutingAssumption ==
    /\ Reserve \in Nat /\ MinUseful \in Nat /\ MinTokens \in Nat
    /\ Null \notin Int
    /\ Demands \subseteq Int /\ Estimates \subseteq Nat
    /\ \A c \in Configs :
          /\ \A n \in DOMAIN c.providers : c.providers[n] \in ProviderCfg
          /\ c.rules \in Seq(RoutingRule)

VARIABLES
    config,     \* the routing file
    registry,   \* "none" before the start, "built", or "refused"
    route,      \* the decision for the request being handled, or Null
    answer      \* what the provider does with it, or Null

routingVars == <<config, registry, route, answer>>

-----------------------------------------------------------------------------
(* match_model.                                                            *)

At(part, model, i) ==
    i + Len(part) - 1 <= Len(model) /\ SubSeq(model, i, i + Len(part) - 1) = part

Matches(rule, model) ==
    CASE rule.kind = "exact" -> model = rule.value
      [] rule.kind = "prefix" -> At(rule.value, model, 1)
      [] rule.kind = "contains" -> \E i \in 1..Len(model) : At(rule.value, model, i)
      [] rule.kind = "regex" -> model \in rule.finds

\* advertised_model_ids: what is offered to clients for a rule.
Advertised(rule) ==
    IF rule.clients # {} THEN rule.clients
    ELSE IF rule.kind = "exact" THEN {rule.value} ELSE {}

-----------------------------------------------------------------------------
(* The limits and the price of a route: those of the rule, else of the provider. *)

Effective(provider, own, field) == IF own = Null THEN provider[field] ELSE own

LimitsOf(provider, rule) ==
    [max |-> Effective(provider, rule.max, "max"),
     window |-> Effective(provider, rule.window, "window")]

PriceOf(provider, rule) == Effective(provider, rule.price, "price")

PriceSource(provider, rule) ==
    IF rule.price # Null THEN "rule" ELSE IF provider.price # Null THEN "provider" ELSE Null

MinimumWindow(max) == max + Reserve + MinUseful

WindowLeavesRoom(limits) ==
    limits.window # Null /\ limits.max # Null => limits.window > MinimumWindow(limits.max)

-----------------------------------------------------------------------------
(* The validators of ProviderCfg.                                          *)

Translates(provider) == provider.type = "openai-translate"

ValidDrops(provider) == provider.drops \subseteq Droppable

ValidFlavor(provider) == provider.flavor = "responses" => Translates(provider)

ValidMax(provider) == Translates(provider) => provider.max # Null

ValidWindow(provider) ==
    provider.window # Null => Translates(provider) /\ WindowLeavesRoom(provider)

ValidAuth(provider) ==
    IF Translates(provider) THEN "forward_client_auth" \notin provider.given
    ELSE provider.forward # provider.keyed

OwnKeyed(provider) == ~Translates(provider) /\ ~provider.forward

ValidFold(provider) == provider.fold => OwnKeyed(provider)

ValidAuthHeader(provider) == "auth_header" \in provider.given => OwnKeyed(provider)

ValidExtra(provider) == provider.extra \cap Credentials = {}

ValidProvider(provider) ==
    /\ ValidDrops(provider) /\ ValidFlavor(provider) /\ ValidMax(provider)
    /\ ValidWindow(provider) /\ ValidAuth(provider) /\ ValidFold(provider)
    /\ ValidAuthHeader(provider) /\ ValidExtra(provider)

-----------------------------------------------------------------------------
(* The validators of RoutingConfig.                                        *)

ValidRule(c, rule) ==
    /\ rule.provider \in DOMAIN c.providers
    /\ rule.kind = "regex" => rule.compiles
    /\ rule.upstream # Null => Translates(c.providers[rule.provider])

ValidDefault(c) ==
    /\ c.default \in DOMAIN c.providers
    /\ ~Translates(c.providers[c.default]) /\ c.providers[c.default].forward

ValidReferences(c) ==
    /\ \A n \in DOMAIN c.providers : Translates(c.providers[n]) => c.providers[n].keyed
    /\ \A i \in DOMAIN c.rules : ValidRule(c, c.rules[i])
    /\ ValidDefault(c)

\* Mutant of ValidLimits: the rule's own limits are compared, not the effective ones.
ValidOwnLimits(c) ==
    \A i \in DOMAIN c.rules :
        LET rule == c.rules[i]  provider == c.providers[rule.provider]
        IN  /\ rule.max # Null \/ rule.window # Null => Translates(provider)
            /\ WindowLeavesRoom(rule)

ValidLimits(c) ==
    \A i \in DOMAIN c.rules :
        LET rule == c.rules[i]  provider == c.providers[rule.provider]
        IN  /\ rule.max # Null \/ rule.window # Null => Translates(provider)
            /\ WindowLeavesRoom(LimitsOf(provider, rule))

\* Mutant of ValidClientModels: an id need only be its rule's and no other rule's.
ValidOwners(c) ==
    \A i \in DOMAIN c.rules : \A model \in Advertised(c.rules[i]) :
        /\ \A j \in DOMAIN c.rules : j # i => model \notin Advertised(c.rules[j])
        /\ Matches(c.rules[i], model)

\* An id offered to clients belongs to one rule, which accepts it and which no
\* earlier rule captures it from.
ValidClientModels(c) ==
    \A i \in DOMAIN c.rules : \A model \in Advertised(c.rules[i]) :
        /\ \A j \in DOMAIN c.rules : j # i => model \notin Advertised(c.rules[j])
        /\ Matches(c.rules[i], model)
        /\ \A j \in 1..(i - 1) : ~Matches(c.rules[j], model)

ValidConfig(c) ==
    /\ \A n \in DOMAIN c.providers : ValidProvider(c.providers[n])
    /\ ValidReferences(c) /\ ValidLimits(c) /\ ValidClientModels(c)

\* build_provider: a bundle that is named is there, a key that is used is set.
Buildable(provider) ==
    /\ provider.bundle # "missing"
    /\ OwnKeyed(provider) \/ Translates(provider) => provider.keySet

-----------------------------------------------------------------------------
(* ProviderRegistry.resolve.                                               *)

First(model) ==
    {i \in DOMAIN config.rules :
        /\ Matches(config.rules[i], model)
        /\ \A j \in 1..(i - 1) : ~Matches(config.rules[j], model)}

NoRule == [provider |-> config.default, upstream |-> Null, max |-> Null, window |-> Null, price |-> Null]

RuleFor(model) == IF First(model) = {} THEN NoRule ELSE config.rules[CHOOSE i \in First(model) : TRUE]

Resolve(model) ==
    LET rule == RuleFor(model)  provider == config.providers[rule.provider]
    IN  [provider |-> rule.provider, upstream |-> rule.upstream,
         limits |-> LimitsOf(provider, rule),
         price |-> PriceOf(provider, rule), source |-> PriceSource(provider, rule)]

-----------------------------------------------------------------------------
RoutingInit ==
    /\ config \in Configs
    /\ registry = "none" /\ route = Null /\ answer = Null

\* The start: load_routing_config and ProviderRegistry.build, or a ConfigError.
Load ==
    /\ registry = "none"
    /\ registry' =
          IF ValidConfig(config) /\ \A n \in DOMAIN config.providers : Buildable(config.providers[n])
          THEN "built" ELSE "refused"
    /\ UNCHANGED <<config, route, answer>>

\* A request: a body that is no JSON or names no model is answered by the router.
NoModelNamed ==
    /\ registry = "built" /\ route = Null /\ answer = Null
    /\ answer' = [kind |-> "bad_request"]
    /\ UNCHANGED <<config, registry, route>>

RouteRequest(model) ==
    /\ registry = "built" /\ route = Null /\ answer = Null
    /\ route' = Resolve(model)
    /\ UNCHANGED <<config, registry, answer>>

\* A passthrough provider sends the body on as it is.
PassOn ==
    /\ route # Null /\ answer = Null
    /\ ~Translates(config.providers[route.provider])
    /\ answer' = [kind |-> "passed"]
    /\ UNCHANGED <<config, registry, route>>

Smaller(a, b) == IF a < b THEN a ELSE b
Larger(a, b) == IF a < b THEN b ELSE a

\* max_tokens as the converters clamp it.
Requested(demand) == Smaller(Larger(demand, MinTokens), route.limits.max)

\* The parameters of a converted request, after apply_param_compat.
TokenParam(provider) == IF provider.flavor = "responses" THEN "max_output_tokens" ELSE provider.tokenParam

Params(provider) ==
    (IF provider.flavor = "responses" THEN {"max_output_tokens", "input"}
     ELSE {provider.tokenParam, "messages", "temperature", "stop", "top_p"}) \ provider.drops

\* _enforce_context_window: the completion budget shrinks to what the window leaves,
\* a prompt that leaves too little is refused.
Fitting(demand, estimate) ==
    LET budget == route.limits.window - Reserve
    IN  IF route.limits.window = Null THEN [kind |-> "sent", tokens |-> Requested(demand)]
        ELSE IF estimate + MinUseful > budget THEN [kind |-> "too_long"]
        ELSE [kind |-> "sent", tokens |-> Smaller(Requested(demand), budget - estimate)]

Translate(demand, estimate) ==
    /\ route # Null /\ answer = Null
    /\ Translates(config.providers[route.provider])
    /\ answer' = [demand |-> demand, estimate |-> estimate, outcome |-> Fitting(demand, estimate),
                  params |-> Params(config.providers[route.provider]), kind |-> "translated"]
    /\ UNCHANGED <<config, registry, route>>

\* count_tokens: the estimate is the answer, whatever the window.
CountTokens(estimate) ==
    /\ route # Null /\ answer = Null
    /\ Translates(config.providers[route.provider])
    /\ answer' = [kind |-> "counted", tokens |-> estimate]
    /\ UNCHANGED <<config, registry, route>>

Answered ==
    /\ answer # Null
    /\ route' = Null /\ answer' = Null
    /\ UNCHANGED <<config, registry>>

RoutingNext ==
    \/ Load \/ NoModelNamed \/ PassOn \/ Answered
    \/ \E model \in Models : RouteRequest(model)
    \/ \E demand \in Demands, estimate \in Estimates : Translate(demand, estimate)
    \/ \E estimate \in Estimates : CountTokens(estimate)

RoutingSpec == RoutingInit /\ [][RoutingNext]_routingVars

-----------------------------------------------------------------------------
(* Properties.                                                             *)

\* A registry that was built routes every model: to a provider it has; a model id that
\* is offered to clients to the rule that offers it, with that rule's own upstream
\* model, limits and price; a model no rule accepts to an upstream that gets the
\* client's own credentials; and to an upstream that gets its body unchanged never
\* under another name.
RoutesSound ==
    registry = "built" => \A model \in Models :
        LET to == Resolve(model)
        IN  /\ to.provider \in DOMAIN config.providers
            /\ \A i \in DOMAIN config.rules :
                  model \in Advertised(config.rules[i]) => RuleFor(model) = config.rules[i]
            /\ First(model) = {} => ~Translates(config.providers[to.provider])
                                    /\ config.providers[to.provider].forward
                                    /\ ~config.providers[to.provider].keyed
            /\ ~Translates(config.providers[to.provider]) => to.upstream = Null

\* What a translate provider asks of its upstream fits into the window with the prompt
\* and the reserve, and is worth asking: not below what was requested and the useful
\* minimum.  A window that passed the validation serves, on every route, any prompt no
\* longer than the completion limit, and one within the useful minimum keeps its whole
\* budget; and the budget stands in a parameter the request really has.
BudgetFits ==
    answer # Null => (answer.kind = "translated" =>
        LET out == answer.outcome
        IN  /\ out.kind = "sent" =>
                  /\ route.limits.window # Null =>
                        answer.estimate + out.tokens + Reserve <= route.limits.window
                  /\ out.tokens >= Smaller(Requested(answer.demand), MinUseful)
            /\ answer.estimate <= route.limits.max =>
                  /\ out.kind = "sent"
                  /\ answer.estimate <= MinUseful => out.tokens = Requested(answer.demand)
            /\ TokenParam(config.providers[route.provider]) \in answer.params)
=============================================================================
