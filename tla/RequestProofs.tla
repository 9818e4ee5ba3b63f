---------------------------- MODULE RequestProofs ----------------------------
(***************************************************************************)
(* What one request meets on its way.  Routing: every route of a registry  *)
(* that was built is sound, and what is asked of a translate provider's    *)
(* upstream fits its window, for any routing files, model ids and sizes.   *)
(* RequestHeaders: what goes up is what is meant and what comes back is    *)
(* framed once, for any lines, extra headers and responses.                *)
(* ToolVisibility: what is folded is plain and a conversation loses no     *)
(* tool, for any tools and messages.  The lemmas of Selections are what    *)
(* FlattenSeq, a recursive function, does, by its stages.                  *)
(***************************************************************************)
EXTENDS Routing, RequestHeaders, ToolVisibility, SequenceTheorems, WellFoundedInduction, TLAPS

(* Routing.                                                                *)

\* What a built registry, its current route and the answer under way keep to.
RoutingInv ==
    /\ config \in Configs
    /\ registry = "built" => ValidConfig(config)
    /\ route # Null => registry = "built" /\ \E model \in Models : route = Resolve(model)
    /\ answer # Null => (answer.kind = "translated" =>
          /\ route # Null /\ Translates(config.providers[route.provider])
          /\ answer.demand \in Int /\ answer.estimate \in Nat
          /\ answer.outcome = Fitting(answer.demand, answer.estimate)
          /\ answer.params = Params(config.providers[route.provider]))

\* The parts of a routing file have their types.
LEMMA ConfigTyped ==
    ASSUME config \in Configs
    PROVE  /\ \A n \in DOMAIN config.providers : config.providers[n] \in ProviderCfg
           /\ Len(config.rules) \in Nat /\ DOMAIN config.rules = 1..Len(config.rules)
           /\ \A i \in DOMAIN config.rules : config.rules[i] \in RoutingRule
<1> DEFINE rules == config.rules
<1>1. rules \in Seq(RoutingRule)
  BY RoutingAssumption
<1> HIDE DEF rules
<1>2. /\ Len(rules) \in Nat /\ DOMAIN rules = 1..Len(rules)
      /\ \A i \in DOMAIN rules : rules[i] \in RoutingRule
  BY <1>1
<1> QED BY <1>2, RoutingAssumption DEF rules

\* Of the rules that accept a model only one is the first.
LEMMA FirstIsOne ==
    ASSUME config \in Configs, NEW model, NEW i \in First(model), NEW j \in First(model)
    PROVE  i = j
<1>2. i \in Nat /\ j \in Nat /\ i >= 1 /\ j >= 1
  BY ConfigTyped DEF First
<1>3. CASE i < j
  BY <1>2, <1>3, i \in 1..(j - 1) DEF First
<1>4. CASE j < i
  BY <1>2, <1>4, j \in 1..(i - 1) DEF First
<1> QED BY <1>2, <1>3, <1>4

\* A model goes to the first rule that accepts it, or to the default.
LEMMA RuleForModel ==
    ASSUME NEW model
    PROVE  \/ First(model) = {} /\ RuleFor(model) = NoRule
           \/ \E i \in First(model) : RuleFor(model) = config.rules[i]
<1>1. CASE First(model) = {}
  BY <1>1 DEF RuleFor
<1>2. CASE First(model) # {}
  <2>1. (CHOOSE i \in First(model) : TRUE) \in First(model)
    BY <1>2
  <2> QED BY <1>2, <2>1 DEF RuleFor
<1> QED BY <1>1, <1>2

\* The routes of a valid configuration are sound.
LEMMA ValidRoutesSound ==
    ASSUME config \in Configs, ValidConfig(config), NEW model
    PROVE  LET to == Resolve(model)
           IN  /\ to.provider \in DOMAIN config.providers
               /\ \A i \in DOMAIN config.rules :
                     model \in Advertised(config.rules[i]) => RuleFor(model) = config.rules[i]
               /\ First(model) = {} => ~Translates(config.providers[to.provider])
                                       /\ config.providers[to.provider].forward
                                       /\ ~config.providers[to.provider].keyed
               /\ ~Translates(config.providers[to.provider]) => to.upstream = Null
<1> DEFINE to == Resolve(model)
<1>1. to.provider = RuleFor(model).provider /\ to.upstream = RuleFor(model).upstream
  BY DEF Resolve
<1>2. ASSUME First(model) = {}
      PROVE  /\ to.provider = config.default /\ to.upstream = Null
             /\ to.provider \in DOMAIN config.providers
             /\ ~Translates(config.providers[to.provider])
             /\ config.providers[to.provider].forward
             /\ ~config.providers[to.provider].keyed
  <2>1. to.provider = config.default /\ to.upstream = Null
    BY <1>1, <1>2, RuleForModel DEF NoRule
  <2>2. /\ config.default \in DOMAIN config.providers
        /\ ~Translates(config.providers[config.default])
        /\ config.providers[config.default].forward
    BY DEF ValidConfig, ValidReferences, ValidDefault
  <2>3. config.providers[config.default] \in ProviderCfg
    BY <2>2, ConfigTyped
  <2>4. ValidAuth(config.providers[config.default])
    BY <2>2 DEF ValidConfig, ValidProvider
  <2>5. config.providers[config.default].keyed \in BOOLEAN
        /\ config.providers[config.default].forward \in BOOLEAN
    BY <2>3 DEF ProviderCfg
  <2>6. ~config.providers[config.default].keyed
    BY <2>2, <2>4, <2>5 DEF ValidAuth
  <2> QED BY <2>1, <2>2, <2>6
<1>3. ASSUME NEW i \in First(model), RuleFor(model) = config.rules[i]
      PROVE  /\ to.provider \in DOMAIN config.providers
             /\ ~Translates(config.providers[to.provider]) => to.upstream = Null
  <2>1. ValidRule(config, config.rules[i])
    BY <1>3 DEF First, ValidConfig, ValidReferences
  <2> QED BY <1>1, <1>3, <2>1 DEF ValidRule
<1>4. ASSUME NEW i \in DOMAIN config.rules, model \in Advertised(config.rules[i])
      PROVE  RuleFor(model) = config.rules[i]
  <2>1. i \in First(model)
    BY <1>4 DEF ValidConfig, ValidClientModels, First
  <2>2. PICK j \in First(model) : RuleFor(model) = config.rules[j]
    BY <2>1, RuleForModel
  <2>3. i = j
    BY <2>1, FirstIsOne
  <2> QED BY <2>2, <2>3
<1>5. First(model) = {} \/ \E i \in First(model) : RuleFor(model) = config.rules[i]
  BY RuleForModel
<1> QED BY <1>2, <1>3, <1>4, <1>5

\* The limits of a route to a translate provider: a completion limit, and a window
\* that leaves room beside it.
LEMMA LimitsOfTranslated ==
    ASSUME config \in Configs, ValidConfig(config), NEW model,
           Translates(config.providers[Resolve(model).provider])
    PROVE  /\ Resolve(model).limits.max \in Int
           /\ Resolve(model).limits.window \in Limits
           /\ WindowLeavesRoom(Resolve(model).limits)
<1>1. First(model) # {}
  BY ValidRoutesSound
<1>2. PICK i \in First(model) : RuleFor(model) = config.rules[i]
  BY <1>1, RuleForModel
<1> DEFINE rule == config.rules[i]
           provider == config.providers[rule.provider]
<1>3. /\ Resolve(model).provider = rule.provider
      /\ Resolve(model).limits = LimitsOf(provider, rule)
  BY <1>2 DEF Resolve
<1>4. i \in DOMAIN config.rules /\ rule.provider \in DOMAIN config.providers
  BY <1>2, ValidRoutesSound, <1>3 DEF First
<1>5. rule.max \in Limits /\ rule.window \in Limits
  BY <1>4, ConfigTyped DEF RoutingRule
<1>6. provider \in ProviderCfg
  BY <1>4, ConfigTyped
<1>7. provider.max \in Limits /\ provider.window \in Limits
  BY <1>6 DEF ProviderCfg
<1>8. provider.max # Null
  BY <1>3, <1>4 DEF ValidConfig, ValidProvider, ValidMax
<1>9. LimitsOf(provider, rule).max \in Int /\ LimitsOf(provider, rule).window \in Limits
  BY <1>5, <1>7, <1>8 DEF LimitsOf, Effective, Limits
<1>10. WindowLeavesRoom(LimitsOf(provider, rule))
  BY <1>4 DEF ValidConfig, ValidLimits
<1> QED BY <1>3, <1>9, <1>10

\* The parameters a provider of a valid configuration sends have the token limit.
LEMMA TokenParamSent ==
    ASSUME NEW provider \in ProviderCfg, ValidDrops(provider)
    PROVE  TokenParam(provider) \in Params(provider)
BY DEF TokenParam, Params, ValidDrops, Droppable, ProviderCfg

\* What is asked of the upstream fits, within limits that leave room.
LEMMA FittingFits ==
    ASSUME route.limits.max \in Int, route.limits.window \in Limits,
           WindowLeavesRoom(route.limits),
           NEW demand \in Int, NEW estimate \in Nat
    PROVE  LET out == Fitting(demand, estimate)
           IN  /\ out.kind = "sent" =>
                     /\ route.limits.window # Null =>
                           estimate + out.tokens + Reserve <= route.limits.window
                     /\ out.tokens >= Smaller(Requested(demand), MinUseful)
               /\ estimate <= route.limits.max =>
                     /\ out.kind = "sent"
                     /\ estimate <= MinUseful => out.tokens = Requested(demand)
<1> DEFINE max == route.limits.max
           window == route.limits.window
           out == Fitting(demand, estimate)
<1>1. Requested(demand) \in Int /\ Requested(demand) <= max
  BY RoutingAssumption DEF Requested, Smaller, Larger
<1>2. Reserve \in Nat /\ MinUseful \in Nat /\ Null \notin Int
  BY RoutingAssumption
<1>3. CASE window = Null
  <2>1. out = [kind |-> "sent", tokens |-> Requested(demand)]
    BY <1>3 DEF Fitting
  <2>2. Requested(demand) >= Smaller(Requested(demand), MinUseful)
    BY <1>1, <1>2 DEF Smaller
  <2> QED BY <2>1, <2>2, <1>3
<1>4. CASE window # Null
  <2>1. window \in Int /\ window > max + Reserve + MinUseful
    BY <1>2, <1>4 DEF WindowLeavesRoom, MinimumWindow, Limits
  <2>2. CASE estimate + MinUseful > window - Reserve
    <3>1. out = [kind |-> "too_long"]
      BY <1>4, <2>2 DEF Fitting
    <3>2. ~(estimate <= max)
      BY <1>2, <2>1, <2>2
    <3> QED BY <3>1, <3>2
  <2>3. CASE ~(estimate + MinUseful > window - Reserve)
    <3>1. out = [kind |-> "sent", tokens |-> Smaller(Requested(demand), window - Reserve - estimate)]
      BY <1>4, <2>3 DEF Fitting
    <3> DEFINE tokens == Smaller(Requested(demand), window - Reserve - estimate)
    <3>2. estimate + tokens + Reserve <= window
      BY <1>1, <1>2, <2>1 DEF Smaller
    <3>3. tokens >= Smaller(Requested(demand), MinUseful)
      BY <1>1, <1>2, <2>1, <2>3 DEF Smaller
    <3>4. estimate <= MinUseful => tokens = Requested(demand)
      BY <1>1, <1>2, <2>1 DEF Smaller
    <3> QED BY <3>1, <3>2, <3>3, <3>4
  <2> QED BY <2>2, <2>3
<1> QED BY <1>3, <1>4

-----------------------------------------------------------------------------
\* The invariant holds at the start and is kept by every step.
THEOREM RoutingInvariance == RoutingSpec => []RoutingInv
<1>1. RoutingInit => RoutingInv
  BY DEF RoutingInit, RoutingInv
<1>2. RoutingInv /\ [RoutingNext]_routingVars => RoutingInv'
  <2> SUFFICES ASSUME RoutingInv, [RoutingNext]_routingVars PROVE RoutingInv'
    OBVIOUS
  <2>1. CASE Load
    <3>1. route = Null /\ route' = Null /\ answer' = answer /\ config' = config
      BY <2>1 DEF Load, RoutingInv
    <3>2. answer # Null => answer.kind # "translated"
      BY <3>1 DEF RoutingInv
    <3>3. registry' = "built" => ValidConfig(config)
      BY <2>1 DEF Load
    <3>4. ValidConfig(config)' = ValidConfig(config)
      BY <3>1
    <3> QED BY <3>1, <3>2, <3>3 DEF RoutingInv
  <2>2. CASE NoModelNamed
    <3>1. answer'.kind # "translated"
      BY <2>2 DEF NoModelNamed
    <3> QED BY <2>2, <3>1 DEF NoModelNamed, RoutingInv
  <2>3. ASSUME NEW model \in Models, RouteRequest(model) PROVE RoutingInv'
    <3>1. route' = Resolve(model) /\ UNCHANGED <<config, registry, answer>> /\ registry = "built"
          /\ answer = Null
      BY <2>3 DEF RouteRequest
    <3>2. Resolve(model)' = Resolve(model)
      BY <3>1 DEF Resolve, RuleFor, First, NoRule
    <3> QED BY <3>1, <3>2 DEF RoutingInv
  <2>4. CASE PassOn
    <3>1. answer'.kind # "translated"
      BY <2>4 DEF PassOn
    <3>2. route' = route /\ config' = config /\ registry' = registry
      BY <2>4 DEF PassOn
    <3>3. \A model : Resolve(model)' = Resolve(model)
      BY <3>2 DEF Resolve, RuleFor, First, NoRule
    <3> QED BY <3>1, <3>2, <3>3 DEF RoutingInv
  <2>5. ASSUME NEW demand \in Demands, NEW estimate \in Estimates, Translate(demand, estimate)
        PROVE  RoutingInv'
    <3>1. route' = route /\ config' = config /\ registry' = registry /\ route # Null
          /\ Translates(config.providers[route.provider])
      BY <2>5 DEF Translate
    <3>2. \A model : Resolve(model)' = Resolve(model)
      BY <3>1 DEF Resolve, RuleFor, First, NoRule
    <3>3. Fitting(demand, estimate)' = Fitting(demand, estimate)
      BY <3>1 DEF Fitting, Requested
    <3>4. /\ answer'.demand = demand /\ answer'.estimate = estimate
          /\ answer'.outcome = Fitting(demand, estimate)
          /\ answer'.params = Params(config.providers[route.provider])
      BY <2>5 DEF Translate
    <3>5. demand \in Int /\ estimate \in Nat
      BY RoutingAssumption
    <3> QED BY <3>1, <3>2, <3>3, <3>4, <3>5 DEF RoutingInv
  <2>6. ASSUME NEW estimate \in Estimates, CountTokens(estimate) PROVE RoutingInv'
    <3>1. answer'.kind # "translated"
      BY <2>6 DEF CountTokens
    <3>2. route' = route /\ config' = config /\ registry' = registry
      BY <2>6 DEF CountTokens
    <3>3. \A model : Resolve(model)' = Resolve(model)
      BY <3>2 DEF Resolve, RuleFor, First, NoRule
    <3> QED BY <3>1, <3>2, <3>3 DEF RoutingInv
  <2>7. CASE Answered
    BY <2>7 DEF Answered, RoutingInv
  <2>8. CASE UNCHANGED routingVars
    <3>1. config' = config /\ registry' = registry /\ route' = route /\ answer' = answer
      BY <2>8 DEF routingVars
    <3>2. \A model : Resolve(model)' = Resolve(model)
      BY <3>1 DEF Resolve, RuleFor, First, NoRule
    <3>3. \A demand, estimate : Fitting(demand, estimate)' = Fitting(demand, estimate)
      BY <3>1 DEF Fitting, Requested
    <3> QED BY <3>1, <3>2, <3>3 DEF RoutingInv
  <2> QED BY <2>1, <2>2, <2>3, <2>4, <2>5, <2>6, <2>7, <2>8 DEF RoutingNext
<1> QED BY <1>1, <1>2, PTL DEF RoutingSpec

\* Offered models reach their own rule, unmatched ones the client's own vendor, and a
\* body that is not rewritten is never renamed: for every routing file that starts.
THEOREM RoutesAreSound == RoutingSpec => []RoutesSound
<1>1. RoutingInv => RoutesSound
  BY ValidRoutesSound DEF RoutingInv, RoutesSound
<1> QED BY <1>1, RoutingInvariance, PTL

\* Prompt, completion and reserve fit every window, and no window that passed the
\* validation turns every request away.
THEOREM BudgetsFit == RoutingSpec => []BudgetFits
<1>1. RoutingInv => BudgetFits
  <2> SUFFICES ASSUME RoutingInv, answer # Null, answer.kind = "translated"
               PROVE  BudgetFits
    BY DEF BudgetFits
  <2>1. PICK model \in Models : route = Resolve(model)
    BY DEF RoutingInv
  <2>2. /\ config \in Configs /\ ValidConfig(config)
        /\ Translates(config.providers[route.provider])
        /\ answer.demand \in Int /\ answer.estimate \in Nat
        /\ answer.outcome = Fitting(answer.demand, answer.estimate)
        /\ answer.params = Params(config.providers[route.provider])
    BY DEF RoutingInv
  <2>3. /\ route.limits.max \in Int /\ route.limits.window \in Limits
        /\ WindowLeavesRoom(route.limits)
    BY <2>1, <2>2, LimitsOfTranslated
  <2>4. route.provider \in DOMAIN config.providers
    BY <2>1, <2>2, ValidRoutesSound
  <2>5. config.providers[route.provider] \in ProviderCfg /\ ValidDrops(config.providers[route.provider])
    BY <2>2, <2>4, ConfigTyped DEF ValidConfig, ValidProvider
  <2>6. TokenParam(config.providers[route.provider]) \in answer.params
    BY <2>2, <2>5, TokenParamSent
  <2> QED BY <2>2, <2>3, <2>6, FittingFits DEF BudgetFits
<1> QED BY <1>1, RoutingInvariance, PTL

-----------------------------------------------------------------------------
(* Headers.                                                                *)

\* The headers a provider is handed have the names of the client's lines, which are in
\* lower case.
LEMMA GivenNames ==
    ASSUME NEW lines \in Lines \cup Responses, NEW from
    PROVE  /\ DOMAIN ClientHeaders(from, lines) = NamesOf(lines)
           /\ \A n \in NamesOf(lines) : Lower[n] = n
<1>1. DOMAIN ClientHeaders(from, lines) = NamesOf(lines)
  BY DEF ClientHeaders, AllLines, LastLines
<1>2. \A n \in NamesOf(lines) : Lower[n] = n
  BY HeadersAssumption DEF NamesOf
<1>. QED BY <1>1, <1>2

\* Extra headers laid over headers with lower-case names: the names of both, each once
\* unless the extra ones have it twice, and the extra ones' values.
LEMMA MergeLaw ==
    ASSUME NEW given, \A n \in DOMAIN given : Lower[n] = n, NEW over
    PROVE  /\ \A n \in DOMAIN MergeExtra(given, over) :
                 \/ n \in DOMAIN over /\ MergeExtra(given, over)[n] = <<over[n]>>
                 \/ /\ n \in DOMAIN given \ DOMAIN over
                    /\ \A e \in DOMAIN over : Lower[e] # n
                    /\ MergeExtra(given, over)[n] = given[n]
           /\ DOMAIN over \subseteq DOMAIN MergeExtra(given, over)
           /\ \A n \in DOMAIN given :
                 (\A e \in DOMAIN over : Lower[e] # n) => n \in DOMAIN MergeExtra(given, over)
<1> DEFINE hidden == {name \in DOMAIN given : \E e \in DOMAIN over : Lower[e] = Lower[name]}
           kept == Without(given, hidden)
           ext == [e \in DOMAIN over |-> <<over[e]>>]
<1>1. /\ DOMAIN kept = {n \in DOMAIN given : \A e \in DOMAIN over : Lower[e] # n}
      /\ \A n \in DOMAIN kept : kept[n] = given[n]
  BY DEF Without, Keeping
<1>2. MergeExtra(given, over) = Overlaid(kept, ext)
  BY DEF MergeExtra
<1>3. DOMAIN ext = DOMAIN over /\ \A e \in DOMAIN over : ext[e] = <<over[e]>>
  OBVIOUS
<1> HIDE DEF hidden, kept, ext
<1>4. /\ DOMAIN Overlaid(kept, ext) = DOMAIN kept \cup DOMAIN ext
      /\ \A n \in DOMAIN kept \cup DOMAIN ext :
            Overlaid(kept, ext)[n] = IF n \in DOMAIN ext THEN ext[n] ELSE kept[n]
  BY DEF Overlaid
<1>. QED BY <1>1, <1>2, <1>3, <1>4

\* What either kind of provider starts from: the names a header may have and what
\* becomes of its value.
LEMMA StartLaw ==
    ASSUME NEW given, NEW name
    PROVE  /\ DOMAIN ForwardHeaders(given) = DOMAIN given \ HopByHop
           /\ \A n \in DOMAIN ForwardHeaders(given) : ForwardHeaders(given)[n] = given[n]
           /\ DOMAIN OwnKeyHeaders(given, name) = (DOMAIN given \cap OwnKeyAllowed) \cup {name}
           /\ \A n \in DOMAIN OwnKeyHeaders(given, name) :
                 OwnKeyHeaders(given, name)[n] = IF n = name THEN <<"own key">> ELSE given[n]
<1>1. /\ DOMAIN ForwardHeaders(given) = DOMAIN given \ HopByHop
      /\ \A n \in DOMAIN ForwardHeaders(given) : ForwardHeaders(given)[n] = given[n]
  BY DEF ForwardHeaders, Without, Keeping
<1> DEFINE kept == Keeping(given, OwnKeyAllowed)
           key == [n \in {name} |-> <<"own key">>]
<1>2. /\ DOMAIN kept = DOMAIN given \cap OwnKeyAllowed
      /\ \A n \in DOMAIN kept : kept[n] = given[n]
  BY DEF Keeping
<1>3. DOMAIN key = {name} /\ key[name] = <<"own key">>
  OBVIOUS
<1>4. OwnKeyHeaders(given, name) = Overlaid(kept, key)
  BY DEF OwnKeyHeaders
<1> HIDE DEF kept, key
<1>5. /\ DOMAIN Overlaid(kept, key) = DOMAIN kept \cup DOMAIN key
      /\ \A n \in DOMAIN kept \cup DOMAIN key :
            Overlaid(kept, key)[n] = IF n \in DOMAIN key THEN key[n] ELSE kept[n]
  BY DEF Overlaid
<1>. QED BY <1>1, <1>2, <1>3, <1>4, <1>5

\* What the provider builds of a client's lines is what is meant.
LEMMA BuiltIsMeant ==
    ASSUME arrived \in Lines, auth \in {"forward"} \cup SecretNames,
           headers' \in {"forwarded", "answered"},
           upward' = BuiltHeaders(ClientHeaders(listener, arrived)),
           UNCHANGED <<listener, arrived, auth, extra>>
    PROVE  NoTwins' /\ OnlyMeantHeaders'
<1> DEFINE given == ClientHeaders(listener, arrived)
           start == IF auth = "forward" THEN ForwardHeaders(given) ELSE OwnKeyHeaders(given, auth)
           names == IF auth = "forward" THEN NamesOf(arrived) \ HopByHop
                    ELSE (NamesOf(arrived) \cap OwnKeyAllowed) \cup {auth}
<1>1. DOMAIN given = NamesOf(arrived) /\ \A n \in NamesOf(arrived) : Lower[n] = n
  BY GivenNames
<1>2. "forward" \notin SecretNames /\ \A n \in SecretNames : Lower[n] = n
  BY HeadersAssumption DEF SecretNames
<1>3. upward' = MergeExtra(start, extra)
  BY DEF BuiltHeaders
<1> HIDE DEF given
<1>4. /\ DOMAIN start = names
      /\ \A n \in names :
            start[n] = IF n = auth /\ auth # "forward" THEN <<"own key">> ELSE given[n]
  <2>1. CASE auth = "forward"
    <3>1. /\ DOMAIN ForwardHeaders(given) = DOMAIN given \ HopByHop
          /\ \A n \in DOMAIN ForwardHeaders(given) : ForwardHeaders(given)[n] = given[n]
      BY StartLaw
    <3>2. start = ForwardHeaders(given) /\ names = NamesOf(arrived) \ HopByHop
      BY <2>1
    <3>. QED BY <1>1, <2>1, <3>1, <3>2
  <2>2. CASE auth # "forward"
    <3>1. /\ DOMAIN OwnKeyHeaders(given, auth) = (DOMAIN given \cap OwnKeyAllowed) \cup {auth}
          /\ \A n \in DOMAIN OwnKeyHeaders(given, auth) :
                OwnKeyHeaders(given, auth)[n] = IF n = auth THEN <<"own key">> ELSE given[n]
      BY StartLaw
    <3>2. /\ start = OwnKeyHeaders(given, auth)
          /\ names = (NamesOf(arrived) \cap OwnKeyAllowed) \cup {auth}
      BY <2>2
    <3>. QED BY <1>1, <2>2, <3>1, <3>2
  <2>. QED BY <2>1, <2>2
<1>5. \A n \in names : Lower[n] = n
  BY <1>1, <1>2
<1> HIDE DEF start, names
<1>6. /\ \A n \in DOMAIN upward' :
            \/ n \in DOMAIN extra /\ upward'[n] = <<extra[n]>>
            \/ /\ n \in names \ DOMAIN extra
               /\ \A e \in DOMAIN extra : Lower[e] # n
               /\ upward'[n] = start[n]
      /\ DOMAIN extra \subseteq DOMAIN upward'
      /\ \A n \in names : (\A e \in DOMAIN extra : Lower[e] # n) => n \in DOMAIN upward'
  <2>1. \A n \in DOMAIN start : Lower[n] = n
    BY <1>4, <1>5
  <2>2. /\ \A n \in DOMAIN MergeExtra(start, extra) :
              \/ n \in DOMAIN extra /\ MergeExtra(start, extra)[n] = <<extra[n]>>
              \/ /\ n \in DOMAIN start \ DOMAIN extra
                 /\ \A e \in DOMAIN extra : Lower[e] # n
                 /\ MergeExtra(start, extra)[n] = start[n]
        /\ DOMAIN extra \subseteq DOMAIN MergeExtra(start, extra)
        /\ \A n \in DOMAIN start :
              (\A e \in DOMAIN extra : Lower[e] # n) => n \in DOMAIN MergeExtra(start, extra)
    BY ONLY <2>1, MergeLaw
  <2>. QED BY <1>3, <1>4, <2>2
<1>7. NoTwins'
  BY <1>5, <1>6 DEF NoTwins
<1>8. {Lower[n] : n \in DOMAIN upward'} = names \cup {Lower[e] : e \in DOMAIN extra}
  <2>1. ASSUME NEW n \in DOMAIN upward'
        PROVE  Lower[n] \in names \cup {Lower[e] : e \in DOMAIN extra}
    BY <1>5, <1>6
  <2>2. ASSUME NEW n \in names
        PROVE  \E m \in DOMAIN upward' : Lower[m] = n
    BY <1>5, <1>6
  <2>3. ASSUME NEW e \in DOMAIN extra
        PROVE  e \in DOMAIN upward'
    BY <1>6
  <2>. QED BY <2>1, <2>2, <2>3
<1>9. \A n \in DOMAIN upward' :
         upward'[n] = CASE n \in DOMAIN extra -> <<extra[n]>>
                        [] n \notin DOMAIN extra /\ n = auth /\ auth # "forward" -> <<"own key">>
                        [] OTHER -> given[n]
  BY <1>4, <1>6
<1>10. OnlyMeantHeaders'
  BY <1>8, <1>9 DEF OnlyMeantHeaders, given, names
<1>. QED BY <1>7, <1>10

\* A framed response has the new framing alone, or none.
LEMMA FramedLaw ==
    ASSUME NEW given, NEW length, NEW allowBody \in BOOLEAN,
           NEW n \in DOMAIN Framed(given, length, allowBody) \cap FramingNames
    PROVE  /\ n = IF length = "unknown" THEN "transfer-encoding" ELSE "content-length"
           /\ Len(Framed(given, length, allowBody)[n]) = 1
<1> DEFINE kept == Without(given, (HopByHop \ {"host"}) \cup FramingNames)
           framing == IF length = "unknown" THEN "transfer-encoding" ELSE "content-length"
<1>1. DOMAIN kept \cap FramingNames = {}
  BY DEF Without, Keeping
<1>2. Framed(given, length, allowBody) = IF allowBody THEN WithLine(kept, framing, length) ELSE kept
  BY DEF Framed
<1> HIDE DEF kept, framing
<1>3. /\ DOMAIN WithLine(kept, framing, length) = DOMAIN kept \cup {framing}
      /\ framing \notin DOMAIN kept =>
            WithLine(kept, framing, length)[framing] = Append(<<>>, length)
  BY DEF WithLine
<1>4. n = framing /\ allowBody
  BY <1>1, <1>2, <1>3
<1>5. Framed(given, length, allowBody)[n] = Append(<<>>, length)
  BY <1>1, <1>2, <1>3, <1>4
<1>6. Len(Append(<<>>, length)) = 1
  OBVIOUS
<1>. QED BY <1>4, <1>5, <1>6 DEF framing

\* What is known of a request's headers on the way.
HeadersInv ==
    /\ arrived \in Lines /\ auth \in {"forward"} \cup SecretNames
    /\ headers \in {"request", "forwarded", "answered", "relayed"}
    /\ headers \in {"request", "relayed"} => upward = <<>>
    /\ HeadersSound

LEMMA HeadersKept == HeadersInv /\ [HeadersNext]_headersVars => HeadersInv'
<1> SUFFICES ASSUME HeadersInv, [HeadersNext]_headersVars
             PROVE  HeadersInv'
  OBVIOUS
<1> USE DEF HeadersInv, HeadersSound
<1>1. CASE BuildHeaders
  <2>1. NoTwins' /\ OnlyMeantHeaders'
    BY <1>1, BuiltIsMeant DEF BuildHeaders
  <2>. QED BY <1>1, <2>1 DEF BuildHeaders, OneFraming
<1>2. CASE SendResponse
  <2>1. PICK response \in Responses, length \in {"known", "unknown"} :
           downward' = Framed(Without(AllLines(response), HopByHop), length, TRUE)
    BY <1>2 DEF SendResponse
  <2>2. OneFraming'
    <3> DEFINE given == Without(AllLines(response), HopByHop)
    <3>1. PICK allowBody \in BOOLEAN : downward' = Framed(given, length, allowBody)
      BY <2>1, Zenon
    <3> HIDE DEF given
    <3>. QED BY <3>1, FramedLaw DEF OneFraming
  <2>3. NoTwins' /\ OnlyMeantHeaders'
    BY <1>2 DEF SendResponse, NoTwins, OnlyMeantHeaders
  <2>. QED BY <1>2, <2>2, <2>3 DEF SendResponse
<1>3. CASE RelayHead
  <2>1. PICK response \in Responses, allowBody \in BOOLEAN :
           \E length : downward' = Framed(AllLines(response), length, allowBody)
    BY <1>3 DEF RelayHead
  <2>2. OneFraming'
    BY <2>1, FramedLaw DEF OneFraming
  <2>3. NoTwins' /\ OnlyMeantHeaders'
    BY <1>3 DEF RelayHead, NoTwins, OnlyMeantHeaders
  <2>. QED BY <1>3, <2>2, <2>3 DEF RelayHead
<1>4. CASE UNCHANGED headersVars
  BY <1>4 DEF headersVars, NoTwins, OnlyMeantHeaders, OneFraming
<1>. QED BY <1>1, <1>2, <1>3, <1>4 DEF HeadersNext

\* Whatever lines a client sends, extra headers a configuration has and upstreams
\* answer: no header goes up twice, nothing goes up that is not meant to, and no
\* response comes back with two framings.
THEOREM HeadersAreSound == HeadersSpec => []HeadersSound
<1>1. HeadersInit => HeadersInv
  BY DEF HeadersInit, HeadersInv, HeadersSound, NoTwins, OnlyMeantHeaders, OneFraming
<1>2. HeadersInv => HeadersSound
  BY DEF HeadersInv
<1>. QED BY <1>1, <1>2, HeadersKept, PTL DEF HeadersSpec

-----------------------------------------------------------------------------
(* Selections.                                                             *)

\* A set of numbers has a least one.
LEMMA LeastNumber ==
    ASSUME NEW T \in SUBSET Nat, T # {}
    PROVE  \E m \in T : \A k \in T : m <= k
<1> DEFINE Less == {p \in Nat \X Nat : p[1] < p[2]}
<1>1. IsWellFoundedOn(Less, Nat)
  BY NatLessThanWellFounded DEF OpToRel
<1>2. \A k \in Nat, m \in Nat : <<k, m>> \notin Less => m <= k
  OBVIOUS
<1> HIDE DEF Less
<1>3. PICK m \in T : \A k \in T : <<k, m>> \notin Less
  BY <1>1, WFMin
<1> QED BY <1>2, <1>3

\* f is the first n stages of putting together the sequences of ss.
Stages(f, ss, n) == f = [i \in 1..n |-> IF i = 1 THEN ss[i] ELSE f[i - 1] \o ss[i]]

\* Each of the stages from the one before.
LEMMA StageByStage ==
    ASSUME NEW n, NEW ss, NEW f, Stages(f, ss, n)
    PROVE  \A i \in 1..n : f[i] = IF i = 1 THEN ss[i] ELSE f[i - 1] \o ss[i]
BY Zenon DEF Stages

\* f and g agree up to n.
Agree(f, g, n) == \A i \in 1..n : f[i] = g[i]

\* Two such functions agree where what they put together does.
LEMMA StagesAgree ==
    ASSUME NEW m \in Nat, NEW n \in Nat, m <= n, NEW ss, NEW tt, Agree(ss, tt, m),
           NEW f, Stages(f, ss, m), NEW g, Stages(g, tt, n)
    PROVE  Agree(f, g, m)
<1> DEFINE T == {i \in 1..m : f[i] # g[i]}
<1>1. SUFFICES ASSUME T # {} PROVE FALSE
  BY DEF Agree
<1>2. PICK i \in T : \A k \in T : i <= k
  <2>1. T \in SUBSET Nat
    OBVIOUS
  <2> HIDE DEF T
  <2> QED BY <1>1, <2>1, LeastNumber
<1>3. /\ f[i] = IF i = 1 THEN ss[i] ELSE f[i - 1] \o ss[i]
      /\ g[i] = IF i = 1 THEN tt[i] ELSE g[i - 1] \o tt[i]
  BY <1>2, StageByStage
<1>4. i # 1 => i - 1 \in 1..m /\ i - 1 \notin T
  BY <1>2
<1>5. ss[i] = tt[i]
  BY <1>2 DEF Agree
<1> QED BY <1>2, <1>3, <1>4, <1>5

\* There is such a function.
LEMMA StagesExist ==
    ASSUME NEW ss, NEW n \in Nat
    PROVE  \E f : Stages(f, ss, n)
<1> DEFINE T == {m \in 0..n : ~ \E f : Stages(f, ss, m)}
<1>1. SUFFICES ASSUME T # {} PROVE FALSE
  OBVIOUS
<1>2. PICK m \in T : \A k \in T : m <= k
  <2>1. T \in SUBSET Nat
    OBVIOUS
  <2> HIDE DEF T
  <2> QED BY <1>1, <2>1, LeastNumber
<1>3. m \in 0..n /\ ~ \E f : Stages(f, ss, m)
  BY <1>2
<1>4. m # 0
  <2>1. Stages([i \in 1..0 |-> TRUE], ss, 0)
    BY DEF Stages
  <2> QED BY <1>3, <2>1
<1>5. PICK f : Stages(f, ss, m - 1)
  <2>1. m - 1 \in 0..n /\ m - 1 \notin T
    BY <1>2, <1>3, <1>4
  <2> QED BY <2>1
<1> DEFINE g == [i \in 1..m |-> IF i = 1 THEN ss[i] ELSE f[i - 1] \o ss[i]]
<1>6. \A i \in 1..(m - 1) : f[i] = g[i]
  <2>1. \A i \in 1..(m - 1) : f[i] = IF i = 1 THEN ss[i] ELSE f[i - 1] \o ss[i]
    BY <1>5, StageByStage
  <2>2. 1..(m - 1) \subseteq 1..m
    BY <1>3
  <2> QED BY <2>1, <2>2
<1>7. Stages(g, ss, m)
  <2>1. \A i \in 1..m : i # 1 => i - 1 \in 1..(m - 1)
    BY <1>3
  <2> HIDE DEF g
  <2>3. \A i \in 1..m : i # 1 => f[i - 1] = g[i - 1]
    BY <1>6, <2>1
  <2> USE DEF g
  <2>2. g = [i \in 1..m |-> IF i = 1 THEN ss[i] ELSE g[i - 1] \o ss[i]]
    BY <2>3
  <2> QED BY <2>2 DEF Stages
<1> QED BY <1>3, <1>7

\* What FlattenSeq makes of a sequence, by that function.
LEMMA Flattened ==
    ASSUME NEW ss, Len(ss) \in Nat
    PROVE  /\ Len(ss) = 0 => FlattenSeq(ss) = ss
           /\ Len(ss) # 0 => \E f : Stages(f, ss, Len(ss)) /\ FlattenSeq(ss) = f[Len(ss)]
<1>1. PICK g : Stages(g, ss, Len(ss))
  BY StagesExist
<1> DEFINE flatten == CHOOSE f : f = [i \in 1..Len(ss) |->
                          IF i = 1 THEN ss[i] ELSE f[i - 1] \o ss[i]]
<1>2. flatten = [i \in 1..Len(ss) |-> IF i = 1 THEN ss[i] ELSE flatten[i - 1] \o ss[i]]
  BY <1>1 DEF Stages
<1>3. Len(ss) # 0 => FlattenSeq(ss) = flatten[Len(ss)]
  BY DEF FlattenSeq
<1>4. Stages(flatten, ss, Len(ss))
  BY ONLY <1>2 DEF Stages
<1> HIDE DEF flatten
<1>5. Len(ss) = 0 => FlattenSeq(ss) = ss
  BY DEF FlattenSeq
<1> QED BY <1>3, <1>4, <1>5

\* One more sequence is put behind the others.
LEMMA FlattenAppend ==
    ASSUME NEW S, NEW ss \in Seq(Seq(S)), NEW s \in Seq(S), FlattenSeq(ss) \in Seq(S)
    PROVE  FlattenSeq(Append(ss, s)) = FlattenSeq(ss) \o s
<1> DEFINE n == Len(ss)  tt == Append(ss, s)
<1>1. n \in Nat
  OBVIOUS
<1>2. Len(tt) = n + 1 /\ tt[n + 1] = s /\ \A i \in 1..n : ss[i] = tt[i]
  OBVIOUS
<1>3. n = 0 => ss = <<>>
  OBVIOUS
<1>4. <<>> \o s = s
  OBVIOUS
<1> HIDE DEF n, tt
<1>5. n + 1 \in Nat /\ n <= n + 1 /\ n + 1 # 0 /\ n + 1 \in 1..(n + 1) /\ n + 1 - 1 = n
  BY ONLY <1>1
<1>6. PICK g : Stages(g, tt, n + 1) /\ FlattenSeq(tt) = g[n + 1]
  BY ONLY <1>2, <1>5, Flattened
<1>7. g[n + 1] = IF n + 1 = 1 THEN tt[n + 1] ELSE g[n + 1 - 1] \o tt[n + 1]
  <2>1. \A i \in 1..(n + 1) : g[i] = IF i = 1 THEN tt[i] ELSE g[i - 1] \o tt[i]
    BY ONLY <1>6, StageByStage
  <2> QED BY ONLY <1>1, <1>5, <2>1
<1>8. CASE n = 0
  <2>1. FlattenSeq(ss) = ss
    BY <1>1, <1>8, Flattened DEF n
  <2>2. g[n + 1] = s
    BY ONLY <1>2, <1>7, <1>8
  <2> QED BY <1>3, <1>4, <1>6, <1>8, <2>1, <2>2 DEF tt
<1>9. CASE n # 0
  <2>1. PICK f : Stages(f, ss, n) /\ FlattenSeq(ss) = f[n]
    BY <1>1, <1>9, Flattened DEF n
  <2>2. \A i \in 1..n : f[i] = g[i]
    <3>1. Stages(g, tt, n + 1)
      BY ONLY <1>6
    <3>2. Agree(ss, tt, n)
      BY ONLY <1>2 DEF Agree
    <3>3. Agree(f, g, n)
      BY ONLY <1>1, <1>5, <2>1, <3>1, <3>2, StagesAgree
    <3> QED BY ONLY <3>3 DEF Agree
  <2>3. n \in 1..n /\ n + 1 # 1
    BY ONLY <1>1, <1>9
  <2>4. g[n + 1] = FlattenSeq(ss) \o s
    BY ONLY <1>2, <1>5, <1>7, <2>1, <2>2, <2>3
  <2> QED BY ONLY <1>6, <2>4 DEF tt
<1> QED BY <1>8, <1>9

\* What holds of the empty sequence, and of each one longer, holds of all.
LEMMA OneByOne ==
    ASSUME NEW S, NEW P \in SUBSET Seq(S), <<>> \in P,
           \A s \in P : \A e \in S : Append(s, e) \in P
    PROVE  \A s \in Seq(S) : s \in P
<1> DEFINE T == {n \in Nat : \E s \in Seq(S) : Len(s) = n /\ s \notin P}
<1>1. SUFFICES ASSUME NEW s \in Seq(S), s \notin P PROVE FALSE
  OBVIOUS
<1>2. PICK n \in T : \A k \in T : n <= k
  <2>1. T \in SUBSET Nat /\ Len(s) \in T
    BY <1>1
  <2> HIDE DEF T
  <2> QED BY <2>1, LeastNumber
<1>3. PICK t \in Seq(S) : Len(t) = n /\ t \notin P
  BY <1>2
<1>4. PICK u \in Seq(S), e \in S : t = Append(u, e)
  BY <1>3, SequenceEmptyOrAppend
<1>5. Len(u) \in Nat /\ Len(t) = Len(u) + 1
  BY <1>4
<1>6. u \notin P
  BY <1>3, <1>4
<1>7. Len(u) \in T
  BY <1>5, <1>6
<1>8. n <= Len(u)
  BY <1>2, <1>7
<1> QED BY ONLY <1>3, <1>5, <1>8

\* Of no sequences nothing comes.
LEMMA FlattenEmpty == FlattenSeq(<<>>) = <<>>
BY DEF FlattenSeq

\* It does not matter which two of three sequences are put together first.
LEMMA ConcatThree ==
    ASSUME NEW S, NEW s \in Seq(S), NEW t \in Seq(S), NEW u \in Seq(S)
    PROVE  s \o (t \o u) = (s \o t) \o u
BY ConcatAssociative

\* No elements are a sequence of anything.
LEMMA EmptyIsSeq == ASSUME NEW S PROVE <<>> \in Seq(S)
OBVIOUS

\* What is put together is a sequence of what the parts are.
LEMMA FlattenTyped ==
    ASSUME NEW S, NEW ss \in Seq(Seq(S))
    PROVE  FlattenSeq(ss) \in Seq(S)
<1> DEFINE P == {tt \in Seq(Seq(S)) : FlattenSeq(tt) \in Seq(S)}
<1>1. P \in SUBSET Seq(Seq(S))
  OBVIOUS
<1>2. <<>> \in P
  BY FlattenEmpty, EmptyIsSeq
<1>3. ASSUME NEW tt \in P, NEW s \in Seq(S) PROVE Append(tt, s) \in P
  <2>0. tt \in Seq(Seq(S)) /\ FlattenSeq(tt) \in Seq(S)
    OBVIOUS
  <2>1. FlattenSeq(Append(tt, s)) = FlattenSeq(tt) \o s
    BY <2>0, FlattenAppend
  <2>2. FlattenSeq(tt) \o s \in Seq(S) /\ Append(tt, s) \in Seq(Seq(S))
    BY ONLY <2>0, s \in Seq(S)
  <2> QED BY <2>1, <2>2
<1> HIDE DEF P
<1>4. ss \in P
  BY <1>1, <1>2, <1>3, OneByOne
<1> QED BY <1>4 DEF P

\* The same, without the typing to be shown first.
LEMMA FlattenOneMore ==
    ASSUME NEW S, NEW ss \in Seq(Seq(S)), NEW s \in Seq(S)
    PROVE  FlattenSeq(Append(ss, s)) = FlattenSeq(ss) \o s
BY FlattenTyped, FlattenAppend

\* Of two sequences of parts the second's follow the first's.
LEMMA FlattenConcat ==
    ASSUME NEW S, NEW ss \in Seq(Seq(S)), NEW tt \in Seq(Seq(S))
    PROVE  FlattenSeq(ss \o tt) = FlattenSeq(ss) \o FlattenSeq(tt)
<1> DEFINE P == {uu \in Seq(Seq(S)) : FlattenSeq(ss \o uu) = FlattenSeq(ss) \o FlattenSeq(uu)}
<1>1. P \in SUBSET Seq(Seq(S))
  OBVIOUS
<1>2. <<>> \in P
  <2>1. ss \o <<>> = ss
    OBVIOUS
  <2>2. FlattenSeq(ss) \in Seq(S)
    BY FlattenTyped
  <2>3. FlattenSeq(ss) \o <<>> = FlattenSeq(ss)
    BY ONLY <2>2
  <2> QED BY <2>1, <2>3, FlattenEmpty, EmptyIsSeq
<1>3. ASSUME NEW uu \in P, NEW s \in Seq(S) PROVE Append(uu, s) \in P
  <2>0. uu \in Seq(Seq(S)) /\ FlattenSeq(ss \o uu) = FlattenSeq(ss) \o FlattenSeq(uu)
    OBVIOUS
  <2>1. FlattenSeq(Append(uu, s)) = FlattenSeq(uu) \o s
    BY <2>0, FlattenOneMore
  <2>2. ss \o Append(uu, s) = Append(ss \o uu, s) /\ ss \o uu \in Seq(Seq(S))
        /\ Append(uu, s) \in Seq(Seq(S))
    BY ONLY <2>0, ss \in Seq(Seq(S)), s \in Seq(S)
  <2>3. FlattenSeq(Append(ss \o uu, s)) = FlattenSeq(ss \o uu) \o s
    BY <2>2, FlattenOneMore
  <2>4. FlattenSeq(ss) \in Seq(S) /\ FlattenSeq(uu) \in Seq(S)
    BY <2>0, FlattenTyped
  <2>5. FlattenSeq(ss) \o (FlattenSeq(uu) \o s) = (FlattenSeq(ss) \o FlattenSeq(uu)) \o s
    BY ONLY <2>4, s \in Seq(S), ConcatThree
  <2> QED BY <2>0, <2>1, <2>2, <2>3, <2>5
<1> HIDE DEF P
<1>4. tt \in P
  BY <1>1, <1>2, <1>3, OneByOne
<1> QED BY <1>4 DEF P

Elements(s) == {s[i] : i \in DOMAIN s}

\* Two sequences put together have the elements of both.
LEMMA ElementsConcat ==
    ASSUME NEW S, NEW s \in Seq(S), NEW t \in Seq(S)
    PROVE  Elements(s \o t) = Elements(s) \cup Elements(t)
<1> DEFINE u == s \o t  n == Len(s)
<1>1. \A i \in DOMAIN s : i \in DOMAIN u /\ u[i] = s[i]
  OBVIOUS
<1>2. \A i \in DOMAIN t : n + i \in DOMAIN u /\ u[n + i] = t[i]
  OBVIOUS
<1>3. \A i \in DOMAIN u : i \in DOMAIN s \/ \E j \in DOMAIN t : i = n + j
  <2>1. \A i \in DOMAIN u : i \in DOMAIN s \/ (i - n \in DOMAIN t /\ i = n + (i - n))
    OBVIOUS
  <2> QED BY <2>1
<1> HIDE DEF u, n
<1>4. Elements(s) \subseteq Elements(u)
  BY ONLY <1>1 DEF Elements
<1>5. Elements(t) \subseteq Elements(u)
  BY ONLY <1>2 DEF Elements
<1>6. Elements(u) \subseteq Elements(s) \cup Elements(t)
  <2>1. SUFFICES ASSUME NEW i \in DOMAIN u PROVE u[i] \in Elements(s) \cup Elements(t)
    BY DEF Elements
  <2>2. CASE i \in DOMAIN s
    BY ONLY <1>1, <2>2 DEF Elements
  <2>3. CASE i \notin DOMAIN s
    BY ONLY <1>2, <1>3, <2>1, <2>3 DEF Elements
  <2> QED BY <2>2, <2>3
<1> QED BY <1>4, <1>5, <1>6 DEF u

\* One more element is one more element.
LEMMA ElementsAppend ==
    ASSUME NEW S, NEW s \in Seq(S), NEW e \in S
    PROVE  Elements(Append(s, e)) = Elements(s) \cup {e}
<1>1. \A i \in DOMAIN s : i \in DOMAIN Append(s, e) /\ Append(s, e)[i] = s[i]
  OBVIOUS
<1>2. Len(s) + 1 \in DOMAIN Append(s, e) /\ Append(s, e)[Len(s) + 1] = e
  OBVIOUS
<1>3. \A i \in DOMAIN Append(s, e) : i \in DOMAIN s \/ i = Len(s) + 1
  OBVIOUS
<1> QED BY <1>1, <1>2, <1>3 DEF Elements

\* What is put together has the elements of the parts.
LEMMA FlattenElements ==
    ASSUME NEW S, NEW ss \in Seq(Seq(S))
    PROVE  Elements(FlattenSeq(ss)) = UNION {Elements(s) : s \in Elements(ss)}
<1> DEFINE All(tt) == UNION {Elements(s) : s \in Elements(tt)}
           P == {tt \in Seq(Seq(S)) : Elements(FlattenSeq(tt)) = All(tt)}
<1>1. P \in SUBSET Seq(Seq(S))
  OBVIOUS
<1>2. <<>> \in P
  BY FlattenEmpty, EmptyIsSeq DEF Elements
<1>3. ASSUME NEW tt \in P, NEW s \in Seq(S) PROVE Append(tt, s) \in P
  <2>0. tt \in Seq(Seq(S)) /\ Elements(FlattenSeq(tt)) = All(tt) /\ Append(tt, s) \in Seq(Seq(S))
    OBVIOUS
  <2>1. FlattenSeq(Append(tt, s)) = FlattenSeq(tt) \o s /\ FlattenSeq(tt) \in Seq(S)
    BY <2>0, FlattenOneMore, FlattenTyped
  <2>2. Elements(FlattenSeq(tt) \o s) = Elements(FlattenSeq(tt)) \cup Elements(s)
    BY ONLY <2>1, s \in Seq(S), ElementsConcat
  <2>3. Elements(Append(tt, s)) = Elements(tt) \cup {s}
    BY ONLY <2>0, s \in Seq(S), ElementsAppend
  <2>4. All(Append(tt, s)) = All(tt) \cup Elements(s)
    BY ONLY <2>3
  <2> QED BY <2>0, <2>1, <2>2, <2>4
<1> HIDE DEF P
<1>4. ss \in P
  BY <1>1, <1>2, <1>3, OneByOne
<1> QED BY <1>4 DEF P

\* A sequence that is another with an element behind it.
LEMMA AppendIs ==
    ASSUME NEW S, NEW a \in Seq(S), NEW z \in Seq(S), NEW x \in S, Len(a) = Len(z) + 1,
           \A i \in 1..Len(z) : a[i] = z[i], a[Len(z) + 1] = x
    PROVE  a = Append(z, x)
<1> DEFINE b == Append(z, x)
<1>1. b \in Seq(S) /\ Len(b) = Len(a) /\ b[Len(z) + 1] = x /\ \A i \in 1..Len(z) : b[i] = z[i]
  OBVIOUS
<1>2. \A i \in 1..Len(a) : i \in 1..Len(z) \/ i = Len(z) + 1
  OBVIOUS
<1> HIDE DEF b
<1>3. \A i \in 1..Len(a) : a[i] = b[i]
  BY ONLY <1>1, <1>2, \A i \in 1..Len(z) : a[i] = z[i], a[Len(z) + 1] = x
<1>4. a = b
  BY ONLY <1>1, <1>3, a \in Seq(S), SeqEqual
<1> QED BY <1>4 DEF b

\* The parts Kept is put together of.
KeptParts(s, places) == [i \in DOMAIN s |-> IF i \in places THEN <<s[i]>> ELSE <<>>]

\* The parts that Kept puts together are sequences of what s is.
LEMMA PartsTyped ==
    ASSUME NEW S, NEW s \in Seq(S), NEW K
    PROVE  KeptParts(s, K) \in Seq(Seq(S)) /\ Len(KeptParts(s, K)) = Len(s)
<1>1. \A i \in DOMAIN s : s[i] \in S
  OBVIOUS
<1>2. \A i \in DOMAIN s : (IF i \in K THEN <<s[i]>> ELSE <<>>) \in Seq(S)
  BY <1>1
<1>3. DOMAIN s = 1..Len(s) /\ Len(s) \in Nat
  OBVIOUS
<1> QED BY <1>2, <1>3 DEF KeptParts

\* One more element is kept behind the others, or not.
LEMMA KeptAppend ==
    ASSUME NEW S, NEW s \in Seq(S), NEW e \in S, NEW K
    PROVE  /\ Kept(s, K) \in Seq(S)
           /\ Kept(<<>>, K) = <<>>
           /\ Kept(Append(s, e), K) = IF Len(s) + 1 \in K THEN Append(Kept(s, K), e) ELSE Kept(s, K)
<1> DEFINE x == IF Len(s) + 1 \in K THEN <<e>> ELSE <<>>
<1>1. x \in Seq(S)
  OBVIOUS
<1>2. KeptParts(Append(s, e), K) = Append(KeptParts(s, K), x)
  <2>1. Append(s, e) \in Seq(S) /\ Len(Append(s, e)) = Len(s) + 1 /\ Len(s) \in Nat
    OBVIOUS
  <2>2. /\ KeptParts(Append(s, e), K) \in Seq(Seq(S)) /\ Len(KeptParts(Append(s, e), K)) = Len(s) + 1
        /\ KeptParts(s, K) \in Seq(Seq(S)) /\ Len(KeptParts(s, K)) = Len(s)
    BY <2>1, PartsTyped
  <2>3. /\ \A i \in 1..Len(s) : KeptParts(Append(s, e), K)[i] = KeptParts(s, K)[i]
        /\ KeptParts(Append(s, e), K)[Len(s) + 1] = x
    BY DEF KeptParts
  <2> HIDE DEF x
  <2> QED BY ONLY <1>1, <2>2, <2>3, AppendIs
<1>3. FlattenSeq(Append(KeptParts(s, K), x)) = FlattenSeq(KeptParts(s, K)) \o x
  BY <1>1, PartsTyped, FlattenOneMore
<1>4. FlattenSeq(KeptParts(s, K)) \in Seq(S)
  BY PartsTyped, FlattenTyped
<1>5. KeptParts(<<>>, K) = <<>>
  BY DEF KeptParts
<1>6. Kept(s, K) = FlattenSeq(KeptParts(s, K)) /\ Kept(<<>>, K) = FlattenSeq(KeptParts(<<>>, K))
      /\ Kept(Append(s, e), K) = FlattenSeq(KeptParts(Append(s, e), K))
  BY DEF Kept, KeptParts
<1>7. Kept(s, K) \o x = IF Len(s) + 1 \in K THEN Append(Kept(s, K), e) ELSE Kept(s, K)
  BY <1>4, <1>6
<1> QED BY <1>2, <1>3, <1>4, <1>5, <1>6, <1>7, FlattenEmpty

\* What is kept of a sequence is of what it is.
LEMMA KeptTyped ==
    ASSUME NEW S, NEW s \in Seq(S), NEW K
    PROVE  Kept(s, K) \in Seq(S)
BY PartsTyped, FlattenTyped DEF Kept, KeptParts

\* Kept goes through the places in their order, and leaves none of them out.
InOrder(p, s, K) ==
    /\ p \in [1..Len(Kept(s, K)) -> K \cap DOMAIN s]
    /\ \A i \in DOMAIN p : Kept(s, K)[i] = s[p[i]]
    /\ \A i \in DOMAIN p, j \in DOMAIN p : i < j => p[i] < p[j]
    /\ \A k \in K \cap DOMAIN s : \E i \in DOMAIN p : p[i] = k

\* Every element kept has its place, and the order is that of the places.
LEMMA KeptInOrder ==
    ASSUME NEW S, NEW s \in Seq(S), NEW K
    PROVE  \E p : InOrder(p, s, K)
<1> DEFINE P == {t \in Seq(S) : \E p : InOrder(p, t, K)}
<1>1. P \in SUBSET Seq(S)
  OBVIOUS
<1>2. <<>> \in P
  <2>1. Kept(<<>>, K) = <<>>
    BY FlattenEmpty DEF Kept
  <2>2. InOrder(<<>>, <<>>, K)
    BY <2>1 DEF InOrder
  <2> QED BY <2>2
<1>3. ASSUME NEW t \in P, NEW e \in S PROVE Append(t, e) \in P
  <2> DEFINE n == Len(t)  u == Append(t, e)  k == Kept(t, K)  l == Len(k)
  <2>1. t \in Seq(S) /\ n \in Nat /\ u \in Seq(S)
    OBVIOUS
  <2>2. k \in Seq(S) /\ l \in Nat
    BY <2>1, KeptTyped
  <2>3. DOMAIN t = 1..n /\ DOMAIN u = 1..(n + 1) /\ u[n + 1] = e /\ \A i \in 1..n : u[i] = t[i]
    BY <2>1
  <2>4. Kept(u, K) = IF n + 1 \in K THEN Append(k, e) ELSE k
    BY <2>1, KeptAppend
  <2>5. PICK p : InOrder(p, t, K)
    OBVIOUS
  <2> HIDE DEF n, u, l
  <2>6. /\ p \in [1..l -> K \cap 1..n]
        /\ \A i \in 1..l : k[i] = t[p[i]]
        /\ \A i \in 1..l, j \in 1..l : i < j => p[i] < p[j]
        /\ \A m \in K \cap 1..n : \E i \in 1..l : p[i] = m
    BY <2>3, <2>5 DEF InOrder, l
  <2> HIDE DEF k
  <2>7. CASE n + 1 \in K
    <3> DEFINE q == [i \in 1..(l + 1) |-> IF i = l + 1 THEN n + 1 ELSE p[i]]
    <3>1. Kept(u, K) = Append(k, e) /\ Len(Append(k, e)) = l + 1 /\ Append(k, e)[l + 1] = e
          /\ \A i \in 1..l : Append(k, e)[i] = k[i]
      BY <2>2, <2>4, <2>7 DEF l
    <3>2. DOMAIN q = 1..(l + 1) /\ q[l + 1] = n + 1 /\ \A i \in 1..l : q[i] = p[i] /\ p[i] \in K \cap 1..n
      BY <2>2, <2>6
    <3> HIDE DEF q
    <3>3. \A i \in 1..(l + 1) : i \in 1..l \/ i = l + 1
      BY <2>2
    <3>4. q \in [1..(l + 1) -> K \cap 1..(n + 1)]
      <4>1. \A i \in 1..(l + 1) : q[i] \in K \cap 1..(n + 1)
        BY <2>1, <2>7, <3>2, <3>3
      <4>2. q = [i \in 1..(l + 1) |-> q[i]]
        BY DEF q
      <4> QED BY <4>1, <4>2
    <3>5. \A i \in 1..(l + 1) : Kept(u, K)[i] = u[q[i]]
      BY <2>3, <2>6, <3>1, <3>2, <3>3
    <3>6. \A i \in 1..(l + 1), j \in 1..(l + 1) : i < j => q[i] < q[j]
      <4>1. SUFFICES ASSUME NEW i \in 1..(l + 1), NEW j \in 1..(l + 1), i < j PROVE q[i] < q[j]
        OBVIOUS
      <4>2. i \in 1..l
        BY <2>2, <4>1
      <4>3. q[i] = p[i] /\ p[i] \in 1..n
        BY <3>2, <4>2
      <4>4. CASE j \in 1..l
        BY <2>6, <3>2, <4>1, <4>2, <4>4
      <4>5. CASE j = l + 1
        BY <2>1, <3>2, <4>3, <4>5
      <4> QED BY <3>3, <4>4, <4>5
    <3>7. \A m \in K \cap 1..(n + 1) : \E i \in 1..(l + 1) : q[i] = m
      <4>1. \A m \in 1..(n + 1) : m \in 1..n \/ m = n + 1
        BY <2>1
      <4>2. \A i \in 1..l : i \in 1..(l + 1)
        BY <2>2
      <4>3. l + 1 \in 1..(l + 1)
        BY <2>2
      <4> QED BY <2>6, <3>2, <4>1, <4>2, <4>3
    <3>8. InOrder(q, u, K)
      BY <2>3, <3>1, <3>2, <3>4, <3>5, <3>6, <3>7 DEF InOrder
    <3> QED BY <2>1, <3>8 DEF u
  <2>8. CASE n + 1 \notin K
    <3>1. K \cap 1..(n + 1) = K \cap 1..n
      BY <2>1, <2>8
    <3>2. InOrder(p, u, K)
      BY <2>3, <2>4, <2>6, <2>8, <3>1 DEF InOrder, l
    <3> QED BY <2>1, <3>2 DEF u
  <2> QED BY <2>7, <2>8
<1> HIDE DEF P
<1>4. s \in P
  BY <1>1, <1>2, <1>3, OneByOne
<1> QED BY <1>4 DEF P

\* The elements kept are those at the places.
LEMMA KeptElements ==
    ASSUME NEW S, NEW s \in Seq(S), NEW K
    PROVE  /\ \A i \in DOMAIN Kept(s, K) : \E k \in K \cap DOMAIN s : Kept(s, K)[i] = s[k]
           /\ \A k \in K \cap DOMAIN s : \E i \in DOMAIN Kept(s, K) : Kept(s, K)[i] = s[k]
<1>1. PICK p : InOrder(p, s, K)
  BY KeptInOrder
<1>2. Kept(s, K) \in Seq(S)
  BY KeptTyped
<1>3. DOMAIN Kept(s, K) = 1..Len(Kept(s, K))
  BY <1>2
<1> QED BY <1>1, <1>3 DEF InOrder

\* No more is kept than there was.
LEMMA KeptNoMore ==
    ASSUME NEW S, NEW s \in Seq(S), NEW K
    PROVE  Len(Kept(s, K)) \in Nat /\ Len(Kept(s, K)) <= Len(s)
<1> DEFINE P == {t \in Seq(S) : Len(Kept(t, K)) <= Len(t)}
<1>1. P \in SUBSET Seq(S)
  OBVIOUS
<1>2. <<>> \in P
  BY FlattenEmpty DEF Kept
<1>3. ASSUME NEW t \in P, NEW e \in S PROVE Append(t, e) \in P
  <2>1. Len(Kept(t, K)) <= Len(t) /\ t \in Seq(S) /\ Kept(t, K) \in Seq(S)
    BY KeptTyped
  <2>2. Kept(Append(t, e), K) = IF Len(t) + 1 \in K THEN Append(Kept(t, K), e) ELSE Kept(t, K)
    BY <2>1, KeptAppend
  <2> QED BY <2>1, <2>2
<1> HIDE DEF P
<1>4. s \in P
  BY <1>1, <1>2, <1>3, OneByOne
<1>5. Kept(s, K) \in Seq(S)
  BY KeptTyped
<1> QED BY <1>4, <1>5 DEF P

\* What is kept at some places and what is kept at the others is as much as there was.
LEMMA KeptAndOthers ==
    ASSUME NEW S, NEW s \in Seq(S), NEW K
    PROVE  Len(Kept(s, K)) + Len(Kept(s, DOMAIN s \ K)) = Len(s)
<1> DEFINE P == {t \in Seq(S) : Len(Kept(t, K)) + Len(Kept(t, Nat \ K)) = Len(t)}
<1>1. P \in SUBSET Seq(S)
  OBVIOUS
<1>2. <<>> \in P
  BY FlattenEmpty DEF Kept
<1>3. ASSUME NEW t \in P, NEW e \in S PROVE Append(t, e) \in P
  <2>1. /\ Len(Kept(t, K)) + Len(Kept(t, Nat \ K)) = Len(t)
        /\ t \in Seq(S) /\ Kept(t, K) \in Seq(S) /\ Kept(t, Nat \ K) \in Seq(S)
    BY KeptTyped
  <2>0. t \in Seq(S)
    OBVIOUS
  <2>2. Kept(Append(t, e), K) = IF Len(t) + 1 \in K THEN Append(Kept(t, K), e) ELSE Kept(t, K)
    BY ONLY <2>0, e \in S, KeptAppend
  <2>3. Kept(Append(t, e), Nat \ K) =
            IF Len(t) + 1 \in Nat \ K THEN Append(Kept(t, Nat \ K), e) ELSE Kept(t, Nat \ K)
    BY ONLY <2>0, e \in S, KeptAppend
  <2> DEFINE a == Kept(t, K)  b == Kept(t, Nat \ K)
  <2>4. Len(Append(a, e)) = Len(a) + 1 /\ Len(Append(b, e)) = Len(b) + 1
        /\ Len(Append(t, e)) = Len(t) + 1 /\ Len(t) + 1 \in Nat /\ Len(a) \in Nat /\ Len(b) \in Nat
    BY <2>1
  <2> HIDE DEF a, b
  <2>5. CASE Len(t) + 1 \in K
    BY <2>1, <2>2, <2>3, <2>4, <2>5 DEF a, b
  <2>6. CASE Len(t) + 1 \notin K
    BY <2>1, <2>2, <2>3, <2>4, <2>6 DEF a, b
  <2> QED BY <2>5, <2>6
<1> HIDE DEF P
<1>4. s \in P
  BY <1>1, <1>2, <1>3, OneByOne
<1>5. Kept(s, Nat \ K) = Kept(s, DOMAIN s \ K)
  <2>1. \A i \in DOMAIN s : i \in Nat \ K <=> i \in DOMAIN s \ K
    OBVIOUS
  <2> QED BY <2>1 DEF Kept
<1> QED BY <1>4, <1>5 DEF P

\* Nothing is kept at no place.
LEMMA KeptNothing ==
    ASSUME NEW S, NEW s \in Seq(S), NEW K
    PROVE  Kept(s, K) = <<>> <=> K \cap DOMAIN s = {}
<1>1. Kept(s, K) \in Seq(S)
  BY KeptTyped
<1>2. Kept(s, K) = <<>> <=> DOMAIN Kept(s, K) = {}
  BY <1>1
<1> QED BY <1>2, KeptElements

\* Blocks of some kinds are what the blocks are.
LEMMA OfKindsTyped ==
    ASSUME NEW S, NEW s \in Seq(S), NEW A
    PROVE  OfKinds(s, A) \in Seq(S)
BY KeptTyped DEF OfKinds

\* Of no blocks none are of a kind.
LEMMA OfKindsEmpty == ASSUME NEW A PROVE OfKinds(<<>>, A) = <<>>
BY FlattenEmpty DEF OfKinds, Kept

\* One more block is one more of its kind.
LEMMA OfKindsAppend ==
    ASSUME NEW S, NEW s \in Seq(S), NEW e \in S, NEW A
    PROVE  OfKinds(Append(s, e), A) = IF e.kind \in A THEN Append(OfKinds(s, A), e) ELSE OfKinds(s, A)
<1> DEFINE t == Append(s, e)
           K == {i \in DOMAIN t : t[i].kind \in A}
           L == {i \in DOMAIN s : s[i].kind \in A}
<1>1. Len(s) + 1 \in DOMAIN t /\ t[Len(s) + 1] = e
  OBVIOUS
<1>2. Len(s) + 1 \in K <=> e.kind \in A
  BY <1>1
<1>3. \A i \in DOMAIN s : i \in DOMAIN t /\ t[i] = s[i]
  OBVIOUS
<1>4. \A i \in DOMAIN s : i \in K <=> i \in L
  BY <1>3
<1> HIDE DEF K, L
<1>5. Kept(s, K) = Kept(s, L)
  BY <1>4 DEF Kept
<1>6. Kept(t, K) = IF Len(s) + 1 \in K THEN Append(Kept(s, K), e) ELSE Kept(s, K)
  BY KeptAppend
<1>7. OfKinds(t, A) = Kept(t, K) /\ OfKinds(s, A) = Kept(s, L)
  BY DEF OfKinds, K, L
<1> QED BY <1>2, <1>5, <1>6, <1>7

\* The blocks of some kinds of two sequences, one behind the other.
LEMMA OfKindsConcat ==
    ASSUME NEW S, NEW s \in Seq(S), NEW t \in Seq(S), NEW A
    PROVE  OfKinds(s \o t, A) = OfKinds(s, A) \o OfKinds(t, A)
<1> DEFINE P == {u \in Seq(S) : OfKinds(s \o u, A) = OfKinds(s, A) \o OfKinds(u, A)}
<1>1. P \in SUBSET Seq(S)
  OBVIOUS
<1>2. <<>> \in P
  <2>1. s \o <<>> = s
    OBVIOUS
  <2>2. OfKinds(s, A) \in Seq(S)
    BY OfKindsTyped
  <2>3. OfKinds(s, A) \o <<>> = OfKinds(s, A)
    BY <2>2
  <2>4. OfKinds(s \o <<>>, A) = OfKinds(s, A) \o OfKinds(<<>>, A)
    BY ONLY <2>1, <2>3, OfKindsEmpty, Zenon
  <2> QED BY <2>4, EmptyIsSeq
<1>3. ASSUME NEW u \in P, NEW e \in S PROVE Append(u, e) \in P
  <2>1. u \in Seq(S) /\ OfKinds(s \o u, A) = OfKinds(s, A) \o OfKinds(u, A)
    OBVIOUS
  <2>2. s \o u \in Seq(S) /\ s \o Append(u, e) = Append(s \o u, e) /\ Append(u, e) \in Seq(S)
    BY <2>1
  <2>3. OfKinds(Append(s \o u, e), A) =
            IF e.kind \in A THEN Append(OfKinds(s \o u, A), e) ELSE OfKinds(s \o u, A)
    BY <2>2, OfKindsAppend
  <2>4. OfKinds(Append(u, e), A) = IF e.kind \in A THEN Append(OfKinds(u, A), e) ELSE OfKinds(u, A)
    BY <2>1, OfKindsAppend
  <2>5. OfKinds(s, A) \in Seq(S) /\ OfKinds(u, A) \in Seq(S)
    BY <2>1, OfKindsTyped
  <2>6. OfKinds(s, A) \o Append(OfKinds(u, A), e) = Append(OfKinds(s, A) \o OfKinds(u, A), e)
    BY <2>5
  <2> QED BY <2>1, <2>2, <2>3, <2>4, <2>6
<1> HIDE DEF P
<1>4. t \in P
  BY <1>1, <1>2, <1>3, OneByOne
<1> QED BY <1>4 DEF P

\* Of blocks of some kinds those of other kinds: those of the kinds in both.
LEMMA OfKindsTwice ==
    ASSUME NEW S, NEW s \in Seq(S), NEW A, NEW B
    PROVE  OfKinds(OfKinds(s, A), B) = OfKinds(s, A \cap B)
<1> DEFINE P == {u \in Seq(S) : OfKinds(OfKinds(u, A), B) = OfKinds(u, A \cap B)}
<1>1. P \in SUBSET Seq(S)
  OBVIOUS
<1>2. <<>> \in P
  BY OfKindsEmpty
<1>3. ASSUME NEW u \in P, NEW e \in S PROVE Append(u, e) \in P
  <2>1. u \in Seq(S) /\ OfKinds(OfKinds(u, A), B) = OfKinds(u, A \cap B) /\ Append(u, e) \in Seq(S)
    OBVIOUS
  <2> DEFINE q == OfKinds(u, A)
  <2>2. q \in Seq(S)
    BY <2>1, OfKindsTyped
  <2>3. OfKinds(Append(u, e), A) = IF e.kind \in A THEN Append(q, e) ELSE q
    BY <2>1, OfKindsAppend
  <2>4. OfKinds(Append(u, e), A \cap B) =
            IF e.kind \in A \cap B THEN Append(OfKinds(q, B), e) ELSE OfKinds(q, B)
    BY <2>1, OfKindsAppend
  <2> HIDE DEF q
  <2>5. OfKinds(Append(q, e), B) = IF e.kind \in B THEN Append(OfKinds(q, B), e) ELSE OfKinds(q, B)
    BY <2>2, OfKindsAppend
  <2>6. OfKinds(OfKinds(Append(u, e), A), B) = OfKinds(Append(u, e), A \cap B)
    <3>1. CASE e.kind \in A
      BY <2>3, <2>4, <2>5, <3>1
    <3>2. CASE e.kind \notin A
      BY <2>3, <2>4, <3>2
    <3> QED BY <3>1, <3>2
  <2> QED BY <2>1, <2>6
<1> HIDE DEF P
<1>4. s \in P
  BY <1>1, <1>2, <1>3, OneByOne
<1> QED BY <1>4 DEF P

\* The blocks of some kinds are blocks, and of those kinds.
LEMMA OfKindsElements ==
    ASSUME NEW S, NEW s \in Seq(S), NEW A
    PROVE  /\ \A i \in DOMAIN OfKinds(s, A) :
                 OfKinds(s, A)[i].kind \in A /\ \E k \in DOMAIN s : OfKinds(s, A)[i] = s[k]
           /\ \A k \in DOMAIN s : s[k].kind \in A => \E i \in DOMAIN OfKinds(s, A) : OfKinds(s, A)[i] = s[k]
<1> DEFINE K == {i \in DOMAIN s : s[i].kind \in A}
<1>1. OfKinds(s, A) = Kept(s, K)
  BY DEF OfKinds
<1>2. \A k \in K \cap DOMAIN s : k \in DOMAIN s /\ s[k].kind \in A
  OBVIOUS
<1>3. \A k \in DOMAIN s : s[k].kind \in A => k \in K \cap DOMAIN s
  OBVIOUS
<1> HIDE DEF K
<1>4. /\ \A i \in DOMAIN Kept(s, K) : \E k \in K \cap DOMAIN s : Kept(s, K)[i] = s[k]
      /\ \A k \in K \cap DOMAIN s : \E i \in DOMAIN Kept(s, K) : Kept(s, K)[i] = s[k]
  BY KeptElements
<1> QED BY <1>1, <1>2, <1>3, <1>4

-----------------------------------------------------------------------------
(* ToolVisibility.                                                         *)

\* The blocks of a tool message.
ToolBlock == AdditionBlock \cup {NamelessBlock, TextBlock}

\* What a message of a conversation is.
LEMMA MessageTyped ==
    ASSUME NEW m \in ToolMessages
    PROVE  m = PlainText \/ m \in Seq(ToolBlock)
BY ToolsAssumption DEF ToolBlock

\* The blocks of one message that load tools.
LEMMA AdditionsOfTyped ==
    ASSUME NEW m, m = PlainText \/ m \in Seq(ToolBlock)
    PROVE  AdditionsOf(m) \in Seq(AdditionBlock)
<1>1. CASE m = PlainText
  BY <1>1 DEF AdditionsOf
<1>2. CASE m # PlainText
  <2> DEFINE K == {i \in DOMAIN m : m[i].kind \in {"tool_addition"}}
  <2>1. m \in Seq(ToolBlock) /\ AdditionsOf(m) = Kept(m, K)
    BY <1>2 DEF AdditionsOf, OfKinds
  <2>2. \A k \in K \cap DOMAIN m : m[k] \in AdditionBlock
    <3>1. \A k \in DOMAIN m : m[k] \in ToolBlock
      BY <2>1
    <3> QED BY <3>1 DEF ToolBlock, NamelessBlock, TextBlock
  <2> HIDE DEF K
  <2>3. Kept(m, K) \in Seq(ToolBlock)
    BY <2>1, KeptTyped
  <2>4. \A i \in DOMAIN Kept(m, K) : Kept(m, K)[i] \in AdditionBlock
    BY <2>1, <2>2, KeptElements
  <2>5. Kept(m, K) \in Seq(AdditionBlock)
    BY <2>3, <2>4
  <2> QED BY <2>1, <2>5
<1> QED BY <1>1, <1>2

\* The sequences AdditionsIn puts together.
Loads(messages) == [i \in DOMAIN messages |-> AdditionsOf(messages[i])]

\* The messages' blocks that load tools are such blocks.
LEMMA LoadsTyped ==
    ASSUME NEW messages \in Seq(ToolMessages)
    PROVE  Loads(messages) \in Seq(Seq(AdditionBlock)) /\ Len(Loads(messages)) = Len(messages)
<1>1. \A i \in DOMAIN messages : AdditionsOf(messages[i]) \in Seq(AdditionBlock)
  <2>1. \A i \in DOMAIN messages : messages[i] \in ToolMessages
    OBVIOUS
  <2> QED BY <2>1, MessageTyped, AdditionsOfTyped
<1>2. DOMAIN messages = 1..Len(messages) /\ Len(messages) \in Nat
  OBVIOUS
<1> QED BY <1>1, <1>2 DEF Loads

\* So are those of the whole conversation.
LEMMA AdditionsInTyped ==
    ASSUME NEW messages \in Seq(ToolMessages)
    PROVE  AdditionsIn(messages) \in Seq(AdditionBlock)
BY LoadsTyped, FlattenTyped DEF AdditionsIn, Loads

\* A message adds its own blocks to those before.
LEMMA AdditionsGrow ==
    ASSUME NEW messages \in Seq(ToolMessages), NEW m \in ToolMessages
    PROVE  AdditionsIn(Append(messages, m)) = AdditionsIn(messages) \o AdditionsOf(m)
<1>1. AdditionsOf(m) \in Seq(AdditionBlock)
  BY MessageTyped, AdditionsOfTyped
<1>2. Append(messages, m) \in Seq(ToolMessages) /\ Len(Append(messages, m)) = Len(messages) + 1
  OBVIOUS
<1>3. /\ Loads(Append(messages, m)) \in Seq(Seq(AdditionBlock))
      /\ Len(Loads(Append(messages, m))) = Len(messages) + 1
      /\ Loads(messages) \in Seq(Seq(AdditionBlock)) /\ Len(Loads(messages)) = Len(messages)
  BY <1>2, LoadsTyped
<1>4. /\ \A i \in 1..Len(messages) : Loads(Append(messages, m))[i] = Loads(messages)[i]
      /\ Loads(Append(messages, m))[Len(messages) + 1] = AdditionsOf(m)
  BY DEF Loads
<1>5. Loads(Append(messages, m)) = Append(Loads(messages), AdditionsOf(m))
  BY ONLY <1>1, <1>3, <1>4, AppendIs
<1>6. FlattenSeq(Append(Loads(messages), AdditionsOf(m))) = FlattenSeq(Loads(messages)) \o AdditionsOf(m)
  BY ONLY <1>1, <1>3, FlattenOneMore
<1> QED BY <1>5, <1>6 DEF AdditionsIn, Loads

\* Only the empty sequence has no elements.
LEMMA EmptyHasNone ==
    ASSUME NEW S, NEW s \in Seq(S)
    PROVE  s = <<>> <=> Elements(s) = {}
<1>1. s = <<>> <=> DOMAIN s = {}
  OBVIOUS
<1> QED BY <1>1 DEF Elements

\* A conversation loads nothing when none of its messages does.
LEMMA NothingLoaded ==
    ASSUME NEW messages, Loads(messages) \in Seq(Seq(AdditionBlock))
    PROVE  AdditionsIn(messages) = <<>> <=> \A i \in DOMAIN messages : AdditionsOf(messages[i]) = <<>>
<1> DEFINE ss == Loads(messages)
<1>1. FlattenSeq(ss) \in Seq(AdditionBlock)
  BY FlattenTyped
<1>2. AdditionsIn(messages) = FlattenSeq(ss)
  BY DEF AdditionsIn, Loads
<1>3. DOMAIN ss = DOMAIN messages /\ \A i \in DOMAIN messages : ss[i] = AdditionsOf(messages[i])
  BY DEF Loads
<1>4. \A i \in DOMAIN ss : ss[i] \in Seq(AdditionBlock)
  OBVIOUS
<1>5. Elements(FlattenSeq(ss)) = UNION {Elements(s) : s \in Elements(ss)}
  BY FlattenElements
<1>6. \A s \in Seq(AdditionBlock) : s = <<>> <=> Elements(s) = {}
  BY EmptyHasNone
<1> HIDE DEF ss
<1>7. Elements(FlattenSeq(ss)) = {} <=> \A i \in DOMAIN ss : Elements(ss[i]) = {}
  BY ONLY <1>5 DEF Elements
<1> QED BY ONLY <1>1, <1>2, <1>3, <1>4, <1>6, <1>7

\* The blocks with a definition, and the tools made of them.
Whole(additions) == Kept(additions, {i \in DOMAIN additions : additions[i].schema = "valid"})
Latest(whole, name) == whole[CHOOSE i \in DOMAIN whole :
                            /\ whole[i].name = name
                            /\ \A j \in DOMAIN whole : whole[j].name = name => j <= i]
Built(whole) == [i \in DOMAIN whole |-> [name |-> whole[i].name, deferred |-> FALSE,
                                         definition |-> Latest(whole, whole[i].name).id]]
Firsts(whole) == {i \in DOMAIN whole : \A j \in 1..(i - 1) : whole[j].name # whole[i].name}

\* A tool with any definition.
ToolOf(D) == [name : STRING, deferred : BOOLEAN, definition : D]

\* The tools defined by blocks: not deferred, no two of a name, one for each name that a
\* block defines with a valid schema.
LEMMA DefinedTools ==
    ASSUME NEW additions \in Seq(AdditionBlock)
    PROVE  /\ \E D : Defined(additions) \in Seq(ToolOf(D))
           /\ \A i \in DOMAIN Defined(additions) : ~Defined(additions)[i].deferred
           /\ \A i, j \in DOMAIN Defined(additions) :
                 Defined(additions)[i].name = Defined(additions)[j].name => i = j
           /\ Named(Defined(additions)) =
                 {additions[k].name : k \in {k \in DOMAIN additions : additions[k].schema = "valid"}}
<1> DEFINE V == {k \in DOMAIN additions : additions[k].schema = "valid"}
           whole == Whole(additions)
           D == {Latest(whole, whole[i].name).id : i \in DOMAIN whole}
           built == Built(whole)
           firsts == Firsts(whole)
           defined == Kept(built, firsts)
<1>1. Defined(additions) = defined
  BY DEF Defined, Whole, Built, Firsts, Latest
<1>2. whole \in Seq(AdditionBlock)
  BY KeptTyped DEF Whole
<1>3. \A n \in STRING : (\E k \in V : additions[k].name = n) <=> \E i \in DOMAIN whole : whole[i].name = n
  <2>1. /\ \A i \in DOMAIN whole : \E k \in V : whole[i] = additions[k]
        /\ \A k \in V : \E i \in DOMAIN whole : whole[i] = additions[k]
    <3>1. V \cap DOMAIN additions = V /\ whole = Kept(additions, V)
      BY DEF Whole
    <3> HIDE DEF V, whole
    <3> QED BY <3>1, KeptElements
  <2> HIDE DEF whole, V
  <2> QED BY <2>1
<1>4. DOMAIN whole = 1..Len(whole) /\ Len(whole) \in Nat /\ \A i \in DOMAIN whole : whole[i] \in AdditionBlock
  BY <1>2
<1> HIDE DEF whole
<1>5. built \in Seq(ToolOf(D)) /\ DOMAIN built = DOMAIN whole
  <2>1. \A i \in DOMAIN whole : whole[i].name \in STRING /\ Latest(whole, whole[i].name).id \in D
    BY <1>4 DEF AdditionBlock
  <2> HIDE DEF D
  <2>2. \A i \in DOMAIN whole : [name |-> whole[i].name, deferred |-> FALSE,
                                 definition |-> Latest(whole, whole[i].name).id] \in ToolOf(D)
    BY <2>1 DEF ToolOf
  <2> QED BY <1>4, <2>2 DEF Built
<1>6. \A i \in DOMAIN whole : built[i].name = whole[i].name /\ ~built[i].deferred
  BY DEF Built
<1> HIDE DEF D, built
<1>7. firsts \subseteq DOMAIN whole
  BY DEF Firsts
<1>8. defined \in Seq(ToolOf(D))
  BY <1>5, KeptTyped
<1>9. PICK p : InOrder(p, built, firsts)
  BY <1>5, KeptInOrder
<1>10. DOMAIN defined = 1..Len(defined) /\ DOMAIN p = DOMAIN defined
  BY <1>8, <1>9 DEF InOrder
<1>11. \A i \in DOMAIN defined : p[i] \in firsts /\ p[i] \in DOMAIN whole /\ defined[i] = built[p[i]]
  BY <1>5, <1>7, <1>9, <1>10 DEF InOrder
<1>12. \A i, j \in DOMAIN defined : i < j => p[i] < p[j]
  BY <1>9, <1>10 DEF InOrder
<1>13. \A k \in firsts : \E i \in DOMAIN defined : p[i] = k
  BY <1>5, <1>7, <1>9, <1>10 DEF InOrder
<1> HIDE DEF defined
<1>14. \A i \in DOMAIN defined : ~defined[i].deferred
  BY <1>6, <1>11
<1>15. \A i, j \in DOMAIN defined : defined[i].name = defined[j].name => i = j
  <2>1. ASSUME NEW i \in DOMAIN defined, NEW j \in DOMAIN defined, i < j
        PROVE  defined[i].name # defined[j].name
    <3>1. p[i] \in DOMAIN whole /\ p[j] \in firsts /\ p[i] < p[j] /\ p[j] \in DOMAIN whole
      BY <1>11, <1>12, <2>1
    <3>2. p[i] \in 1..(p[j] - 1)
      BY <1>4, <3>1
    <3>3. whole[p[i]].name # whole[p[j]].name
      BY <3>1, <3>2 DEF Firsts
    <3> QED BY <1>6, <1>11, <3>3
  <2>2. \A i, j \in DOMAIN defined : i < j \/ j < i \/ i = j
    BY <1>8, <1>10
  <2> QED BY <2>1, <2>2
<1>16. \A n \in STRING : (\E i \in DOMAIN whole : whole[i].name = n) <=> \E i \in DOMAIN defined : defined[i].name = n
  <2>1. ASSUME NEW n \in STRING, NEW i \in DOMAIN whole, whole[i].name = n
        PROVE  \E k \in firsts : whole[k].name = n
    <3> DEFINE T == {k \in DOMAIN whole : whole[k].name = n}
    <3>1. T \in SUBSET Nat /\ i \in T
      BY <1>4, <2>1
    <3>2. PICK k \in T : \A l \in T : k <= l
      <4> HIDE DEF T
      <4> QED BY <3>1, LeastNumber
    <3>3. \A j \in 1..(k - 1) : j \in DOMAIN whole /\ ~(k <= j)
      BY <1>4, <3>2
    <3>4. k \in firsts
      BY <3>2, <3>3 DEF Firsts
    <3> QED BY <3>2, <3>4
  <2>2. ASSUME NEW n \in STRING, NEW i \in DOMAIN defined, defined[i].name = n
        PROVE  \E k \in DOMAIN whole : whole[k].name = n
    BY <1>6, <1>11, <2>2
  <2>3. ASSUME NEW n \in STRING, NEW k \in firsts, whole[k].name = n
        PROVE  \E i \in DOMAIN defined : defined[i].name = n
    BY <1>6, <1>7, <1>11, <1>13, <2>3
  <2> QED BY <2>1, <2>2, <2>3
<1>17. Named(defined) = {additions[k].name : k \in V}
  <2>1. \A k \in V : additions[k].name \in STRING
    <3>1. \A k \in DOMAIN additions : additions[k] \in AdditionBlock
      OBVIOUS
    <3> QED BY <3>1 DEF AdditionBlock
  <2>2. \A i \in DOMAIN defined : defined[i].name \in STRING
    <3>1. \A i \in DOMAIN defined : defined[i] \in ToolOf(D)
      BY <1>8
    <3> QED BY <3>1 DEF ToolOf
  <2>3. \A n \in STRING : (\E k \in V : additions[k].name = n) <=> \E i \in DOMAIN defined : defined[i].name = n
    BY <1>3, <1>16
  <2> HIDE DEF V
  <2> QED BY ONLY <2>1, <2>2, <2>3 DEF Named
<1> HIDE DEF V
<1>18. \E E : defined \in Seq(ToolOf(E))
  BY <1>8
<1> QED BY <1>1, <1>14, <1>15, <1>17, <1>18 DEF V

\* The tools of a request that can be called.
CallableAt(array, names) ==
    {i \in DOMAIN array : array[i].name # Placeholder /\ (~array[i].deferred \/ array[i].name \in names)}

\* The names of those kept of a sequence are those of its elements at the places.
LEMMA KeptNamed ==
    ASSUME NEW S, NEW s \in Seq(S), NEW K \in SUBSET DOMAIN s
    PROVE  Named(Kept(s, K)) = {s[k].name : k \in K}
<1>1. /\ \A i \in DOMAIN Kept(s, K) : \E k \in K : Kept(s, K)[i] = s[k]
      /\ \A k \in K : \E i \in DOMAIN Kept(s, K) : Kept(s, K)[i] = s[k]
  <2>1. K \cap DOMAIN s = K
    OBVIOUS
  <2> QED BY <2>1, KeptElements
<1> QED BY <1>1 DEF Named

\* The names in a sequence are those of its elements.
LEMMA NamedElements ==
    ASSUME NEW s
    PROVE  Named(s) = {e.name : e \in Elements(s)}
BY DEF Named, Elements

\* What is visible: the callable tools of the request and the new ones of the blocks, no
\* placeholder, and of one name several only if the request has them.
LEMMA VisibleTools ==
    ASSUME NEW array \in Seq(RequestTool), NEW additions \in Seq(AdditionBlock)
    PROVE  /\ \E D : Visible(array, additions) \in Seq(ToolOf(D))
           /\ Named(Visible(array, additions)) =
                 {array[i].name : i \in CallableAt(array, Named(additions))}
                 \cup (Named(Defined(additions)) \ (Named(array) \cup {Placeholder}))
           /\ \A i, j \in DOMAIN Visible(array, additions) :
                 Visible(array, additions)[i].name = Visible(array, additions)[j].name =>
                    i = j \/ Visible(array, additions)[i].name \in Named(array)
<1> DEFINE old == Callable(array, Named(additions))
           defined == Defined(additions)
           F == {i \in DOMAIN defined : defined[i].name \notin Named(array) \cup {Placeholder}}
           new == New(array, additions)
           visible == Visible(array, additions)
           K == CallableAt(array, Named(additions))
<1>1. PICK D : defined \in Seq(ToolOf(D))
  BY DefinedTools
<1>2. /\ \A i, j \in DOMAIN defined : defined[i].name = defined[j].name => i = j
      /\ visible = old \o new /\ old = Kept(array, K) /\ new = Kept(defined, F)
  BY DefinedTools DEF Visible, Callable, New, CallableAt
<1>3. K \in SUBSET DOMAIN array /\ F \in SUBSET DOMAIN defined
  BY DEF CallableAt
<1>4. \A k \in F : defined[k].name \notin Named(array) /\ defined[k].name # Placeholder
  OBVIOUS
<1>5. \A k \in DOMAIN defined : k \in F \/ defined[k].name \in Named(array) \cup {Placeholder}
  OBVIOUS
<1> HIDE DEF K, F, new, old, defined, visible
<1> DEFINE E == Nat \cup D  T == ToolOf(E)
<1>6. array \in Seq(T) /\ defined \in Seq(T)
  <2>1. RequestTool \subseteq T /\ ToolOf(D) \subseteq T
    BY DEF RequestTool, ToolOf
  <2> HIDE DEF T
  <2> QED BY <1>1, <2>1
<1> HIDE DEF E
<1>7. old \in Seq(T) /\ new \in Seq(T)
  BY <1>2, <1>6, KeptTyped
<1> HIDE DEF T
<1>8. visible \in Seq(T)
  BY <1>2, <1>7
<1>9. Named(old) = {array[i].name : i \in K} /\ Named(new) = {defined[i].name : i \in F}
  <2>1. Named(Kept(array, K)) = {array[i].name : i \in K}
    BY ONLY <1>3, <1>6, KeptNamed
  <2>2. Named(Kept(defined, F)) = {defined[i].name : i \in F}
    BY ONLY <1>3, <1>6, KeptNamed
  <2> QED BY <1>2, <2>1, <2>2
<1>10. Named(visible) = Named(old) \cup Named(new)
  <2>1. Elements(visible) = Elements(old) \cup Elements(new)
    BY <1>2, <1>7, ElementsConcat
  <2> QED BY <2>1, NamedElements
<1>11. Named(new) = Named(defined) \ (Named(array) \cup {Placeholder})
  BY <1>3, <1>4, <1>5, <1>9 DEF Named
<1>12. \A i, j \in DOMAIN new : new[i].name = new[j].name => i = j
  <2>1. PICK p : InOrder(p, defined, F)
    BY <1>6, KeptInOrder
  <2>2. DOMAIN new = 1..Len(new) /\ Len(new) \in Nat
    BY <1>7
  <2>3. \A i \in DOMAIN new : p[i] \in DOMAIN defined /\ new[i] = defined[p[i]]
    BY <1>2, <2>1, <2>2 DEF InOrder
  <2>4. \A i, j \in DOMAIN new : i < j => p[i] < p[j]
    BY <1>2, <2>1, <2>2 DEF InOrder
  <2>5. DOMAIN defined \subseteq Nat
    BY <1>6
  <2>6. \A i, j \in DOMAIN new : p[i] = p[j] => i = j
    BY <2>2, <2>3, <2>4, <2>5
  <2> QED BY <1>2, <2>3, <2>6
<1>13. \A i \in DOMAIN old : old[i].name \in Named(array)
  <2>1. Named(old) \subseteq Named(array)
    BY <1>3, <1>9 DEF Named
  <2> QED BY <2>1 DEF Named
<1>14. \A i, j \in DOMAIN visible :
          visible[i].name = visible[j].name => i = j \/ visible[i].name \in Named(array)
  <2> DEFINE n == Len(old)
  <2>1. n \in Nat /\ DOMAIN visible = 1..(n + Len(new)) /\ Len(new) \in Nat
        /\ DOMAIN old = 1..n /\ DOMAIN new = 1..Len(new)
    BY <1>2, <1>7
  <2>2. \A i \in 1..n : visible[i] = old[i]
    BY <1>2, <1>7
  <2>3. \A i \in 1..(n + Len(new)) : i \notin 1..n => i - n \in 1..Len(new) /\ visible[i] = new[i - n]
    BY <1>2, <1>7
  <2> HIDE DEF n
  <2>4. SUFFICES ASSUME NEW i \in DOMAIN visible, NEW j \in DOMAIN visible,
                        visible[i].name = visible[j].name, visible[i].name \notin Named(array)
                 PROVE  i = j
    OBVIOUS
  <2>5. i \notin 1..n /\ j \notin 1..n
    BY <1>13, <2>1, <2>2, <2>4
  <2>6. i - n \in DOMAIN new /\ j - n \in DOMAIN new /\ new[i - n].name = new[j - n].name
    BY <2>1, <2>3, <2>4, <2>5
  <2>7. i - n = j - n
    BY <1>12, <2>6
  <2>8. i \in Int /\ j \in Int
    BY <2>1, <2>4
  <2> QED BY <2>1, <2>7, <2>8
<1>15. visible \in Seq(ToolOf(E))
  BY <1>8 DEF T
<1>16. Named(visible) = {array[i].name : i \in K} \cup (Named(defined) \ (Named(array) \cup {Placeholder}))
  BY <1>9, <1>10, <1>11
<1>17. \E G : visible \in Seq(ToolOf(G))
  BY <1>15
<1> QED BY <1>14, <1>16, <1>17 DEF visible, K, defined

MessageBody == {PlainText} \cup Seq(ToolBlock)

\* A message without its blocks that load tools has none of them.
LEMMA WithoutTyped ==
    ASSUME NEW m \in MessageBody
    PROVE  WithoutAdditions(m) \in MessageBody /\ ~HasAdditions(WithoutAdditions(m))
<1>1. CASE m = PlainText
  BY <1>1 DEF WithoutAdditions, HasAdditions
<1>2. CASE m # PlainText
  <2> DEFINE K == {i \in DOMAIN m : m[i].kind \notin AdditionKinds}
             w == WithoutAdditions(m)
  <2>1. m \in Seq(ToolBlock) /\ w = Kept(m, K)
    BY <1>2 DEF WithoutAdditions, MessageBody
  <2>2. \A k \in K \cap DOMAIN m : m[k].kind \notin AdditionKinds
    OBVIOUS
  <2> HIDE DEF K, w
  <2>3. w \in Seq(ToolBlock)
    BY <2>1, KeptTyped
  <2>4. \A i \in DOMAIN w : w[i].kind \notin AdditionKinds
    BY <2>1, <2>2, KeptElements
  <2>5. ~HasAdditions(w)
    BY <2>4 DEF HasAdditions
  <2> QED BY <2>3, <2>5 DEF w, MessageBody
<1> QED BY <1>1, <1>2

\* A conversation without such blocks loads nothing.
LEMMA NothingAdded ==
    ASSUME NEW messages \in Seq(ToolMessages),
           \A i \in DOMAIN messages : ~HasAdditions(messages[i])
    PROVE  AdditionsIn(messages) = <<>>
<1>1. ASSUME NEW i \in DOMAIN messages PROVE AdditionsOf(messages[i]) = <<>>
  <2> DEFINE m == messages[i]  K == {k \in DOMAIN m : m[k].kind \in {"tool_addition"}}
  <2>1. m \in ToolMessages
    OBVIOUS
  <2>2. CASE m = PlainText
    BY <2>2 DEF AdditionsOf
  <2>3. CASE m # PlainText
    <3>1. m \in Seq(ToolBlock) /\ AdditionsOf(m) = Kept(m, K)
      BY <2>1, <2>3, MessageTyped DEF AdditionsOf, OfKinds
    <3>2. ~HasAdditions(m)
      OBVIOUS
    <3>3. K \cap DOMAIN m = {}
      BY <2>3, <3>2 DEF HasAdditions, AdditionKinds
    <3> HIDE DEF K, m
    <3>4. Kept(m, K) = <<>>
      BY <3>1, <3>3, KeptNothing
    <3> QED BY <3>1, <3>4 DEF m
  <2> QED BY <2>2, <2>3
<1> QED BY <1>1, LoadsTyped, NothingLoaded

\* What is left of a conversation has no block that loads a tool, no more messages, and an empty one
\* only where one was empty.
LEMMA KeptMessagesPlain ==
    ASSUME NEW messages \in Seq(ToolMessages)
    PROVE  /\ \A i \in DOMAIN KeptMessages(messages) : ~HasAdditions(KeptMessages(messages)[i])
           /\ Len(KeptMessages(messages)) <= Len(messages)
           /\ \A i \in DOMAIN KeptMessages(messages) :
                 KeptMessages(messages)[i] = <<>> => \E j \in DOMAIN messages : messages[j] = <<>>
<1> DEFINE without == [i \in DOMAIN messages |-> WithoutAdditions(messages[i])]
           K == {i \in DOMAIN messages : without[i] # <<>> \/ without[i] = messages[i]}
           kept == KeptMessages(messages)
<1>1. \A i \in DOMAIN messages : without[i] \in MessageBody /\ ~HasAdditions(without[i])
  <2>1. \A i \in DOMAIN messages : messages[i] \in ToolMessages
    OBVIOUS
  <2>2. \A i \in DOMAIN messages : messages[i] \in MessageBody
    BY <2>1, MessageTyped DEF MessageBody
  <2> QED BY <2>2, WithoutTyped
<1>2. without \in Seq(MessageBody) /\ Len(without) = Len(messages) /\ DOMAIN without = DOMAIN messages
  BY <1>1
<1>3. kept = Kept(without, K)
  BY DEF KeptMessages
<1>4. \A k \in K \cap DOMAIN without : without[k] = <<>> => k \in DOMAIN messages /\ messages[k] = <<>>
  OBVIOUS
<1> HIDE DEF without, K, kept
<1>5. kept \in Seq(MessageBody) /\ Len(kept) <= Len(messages)
  BY <1>2, <1>3, KeptTyped, KeptNoMore
<1>6. \A i \in DOMAIN kept : \E k \in K \cap DOMAIN without : kept[i] = without[k]
  BY <1>2, <1>3, KeptElements
<1>7. \A i \in DOMAIN kept : ~HasAdditions(kept[i])
  BY <1>1, <1>2, <1>6
<1>8. \A i \in DOMAIN kept : kept[i] = <<>> => \E j \in DOMAIN messages : messages[j] = <<>>
  BY <1>4, <1>6
<1> QED BY <1>5, <1>7, <1>8 DEF kept

\* The folded tools have the names of the visible ones, and none is deferred.
LEMMA ShownTools ==
    ASSUME NEW D, NEW visible \in Seq(ToolOf(D)), NEW shown,
           shown = [i \in DOMAIN visible |-> Shown(visible[i])]
    PROVE  /\ DOMAIN shown = DOMAIN visible
           /\ \A i \in DOMAIN visible : shown[i].name = visible[i].name /\ ~shown[i].deferred
           /\ Named(shown) = Named(visible)
<1>1. \A i \in DOMAIN visible : visible[i] \in ToolOf(D)
  OBVIOUS
<1>2. \A tool \in ToolOf(D) : Shown(tool).name = tool.name /\ Shown(tool).deferred = FALSE
  BY DEF Shown, ToolOf
<1>3. DOMAIN shown = DOMAIN visible /\ \A i \in DOMAIN visible : shown[i] = Shown(visible[i])
  OBVIOUS
<1>4. \A i \in DOMAIN visible : shown[i].name = visible[i].name /\ ~shown[i].deferred
  BY <1>1, <1>2, <1>3
<1> QED BY <1>3, <1>4 DEF Named

\* FoldedIsPlain of one request.
LEMMA FoldPlain ==
    ASSUME NEW array \in ToolArrays, NEW messages \in Seq(ToolMessages),
           NEW sent, sent = FoldBody(array, messages)
    PROVE  /\ \A i \in DOMAIN sent.messages : ~HasAdditions(sent.messages[i])
           /\ ~Folds(sent.tools, sent.messages)
           /\ Len(sent.messages) <= Len(messages)
           /\ \A i \in DOMAIN sent.messages :
                 sent.messages[i] = <<>> => \E j \in DOMAIN messages : messages[j] = <<>>
           /\ array # NoTools =>
                 LET plain == sent.tools  folding == Folds(array, messages)
                     loaded == Named(AdditionsIn(messages)) \cap
                                   (Named(array) \cup Named(Defined(AdditionsIn(messages))))
                 IN  /\ folding => Placeholder \notin Named(plain)
                     /\ \A i, j \in DOMAIN plain :
                           plain[i].name = plain[j].name => i = j \/ plain[i].name \in Named(array)
                     /\ loaded \ {Placeholder} \subseteq Named(plain)
<1> DEFINE additions == AdditionsIn(messages)
<1>1. CASE ~Folds(array, messages)
  <2>1. sent.messages = messages /\ sent.tools = array /\ additions = <<>>
    BY <1>1, NothingAdded DEF FoldBody, Folds
  <2>2. Named(additions) = {}
    BY <2>1 DEF Named
  <2>3. Len(messages) \in Nat
    OBVIOUS
  <2>4. \A i \in DOMAIN sent.messages : ~HasAdditions(sent.messages[i])
    BY <1>1, <2>1 DEF Folds
  <2> QED BY <1>1, <2>1, <2>2, <2>3, <2>4 DEF Named
<1>2. CASE Folds(array, messages)
  <2>1. sent.messages = KeptMessages(messages) /\ sent.tools = Fold(array, messages).tools
    BY <1>2 DEF FoldBody, Fold
  <2>2. /\ \A i \in DOMAIN sent.messages : ~HasAdditions(sent.messages[i])
        /\ Len(sent.messages) <= Len(messages)
        /\ \A i \in DOMAIN sent.messages :
              sent.messages[i] = <<>> => \E j \in DOMAIN messages : messages[j] = <<>>
    BY <2>1, KeptMessagesPlain
  <2>3. CASE array = NoTools
    BY <2>1, <2>2, <2>3 DEF Fold, Folds
  <2>4. CASE array # NoTools
    <3> DEFINE visible == Visible(array, additions)  plain == sent.tools
    <3>1. plain = [i \in DOMAIN visible |-> Shown(visible[i])]
      BY <2>1, <2>4 DEF Fold
    <3>2. array \in Seq(RequestTool) /\ additions \in Seq(AdditionBlock)
      BY <2>4, ToolsAssumption, AdditionsInTyped
    <3>3. PICK D : visible \in Seq(ToolOf(D))
      BY <3>2, VisibleTools
    <3>4. /\ Named(visible) = {array[i].name : i \in CallableAt(array, Named(additions))}
                              \cup (Named(Defined(additions)) \ (Named(array) \cup {Placeholder}))
          /\ \A i, j \in DOMAIN visible :
                visible[i].name = visible[j].name => i = j \/ visible[i].name \in Named(array)
      BY <3>2, VisibleTools
    <3> HIDE DEF visible, plain, additions
    <3>5. /\ DOMAIN plain = DOMAIN visible /\ Named(plain) = Named(visible)
          /\ \A i \in DOMAIN visible : plain[i].name = visible[i].name /\ ~plain[i].deferred
      BY <3>1, <3>3, ShownTools
    <3>6. ~Folds(plain, sent.messages)
      BY <2>2, <3>5 DEF Folds
    <3>7. Placeholder \notin Named(plain)
      BY <3>4, <3>5 DEF CallableAt
    <3>8. \A i, j \in DOMAIN plain :
             plain[i].name = plain[j].name => i = j \/ plain[i].name \in Named(array)
      BY <3>4, <3>5
    <3>9. ASSUME NEW n \in Named(additions), n # Placeholder,
                 n \in Named(array) \cup Named(Defined(additions))
          PROVE  n \in Named(plain)
      <4>1. CASE n \in Named(array)
        <5>1. PICK i \in DOMAIN array : array[i].name = n
          BY <4>1 DEF Named
        <5>2. i \in CallableAt(array, Named(additions))
          BY <3>9, <5>1 DEF CallableAt
        <5> QED BY <3>4, <3>5, <5>1, <5>2
      <4>2. CASE n \notin Named(array)
        BY <3>4, <3>5, <3>9, <4>2
      <4> QED BY <4>1, <4>2
    <3> QED BY <2>2, <3>6, <3>7, <3>8, <3>9 DEF plain, additions
  <2> QED BY <2>3, <2>4
<1> QED BY <1>1, <1>2

\* What the proof of the properties rests on.
ToolsInv ==
    /\ tools \in ToolArrays
    /\ talk \in Seq(ToolMessages)
    /\ talk # <<>> => folded = FoldBody(tools, talk)
    /\ offered = Offered(tools, talk)

\* What is sent is always what FoldBody and Offered make of the conversation so far.
THEOREM ToolsInvariance == ToolsSpec => []ToolsInv
<1>1. ToolsInit => ToolsInv
  BY DEF ToolsInit, ToolsInv
<1>2. ToolsInv /\ [ToolsNext]_toolsVars => ToolsInv'
  <2> SUFFICES ASSUME ToolsInv, [ToolsNext]_toolsVars PROVE ToolsInv'
    OBVIOUS
  <2>1. CASE UNCHANGED toolsVars
    BY <2>1 DEF ToolsInv, toolsVars
  <2>2. CASE ToolsNext
    <3>1. PICK m \in ToolMessages : Ask(m)
      BY <2>2 DEF ToolsNext
    <3> QED BY <3>1 DEF Ask, ToolsInv
  <2> QED BY <2>1, <2>2
<1> QED BY <1>1, <1>2, PTL DEF ToolsSpec

\* What goes to an endpoint that knows no tool_addition (FoldedIsPlain) is plain however the
\* conversation loads its tools: no such block, no deferred tool, no two tools of a name the
\* request did not send twice, and folding it again would change nothing.
THEOREM FoldsArePlain == ToolsSpec => []FoldedIsPlain
<1>1. ToolsInv => FoldedIsPlain
  <2> SUFFICES ASSUME ToolsInv, talk # <<>> PROVE FoldedIsPlain
    BY DEF FoldedIsPlain
  <2>1. tools \in ToolArrays /\ talk \in Seq(ToolMessages) /\ folded = FoldBody(tools, talk)
    BY DEF ToolsInv
  <2> QED BY ONLY <2>1, FoldPlain DEF FoldedIsPlain
<1> QED BY <1>1, ToolsInvariance, PTL

\* The limit takes no built-in tool away, and none at all below it.
LEMMA CappedTools ==
    ASSUME NEW S, NEW array \in Seq(S)
    PROVE  /\ Named(Capped(array)) \subseteq Named(array)
           /\ Builtins \cap Named(array) \subseteq Named(Capped(array))
           /\ Capped(array) # array => Len(Capped(array)) >= ToolsMax
<1>1. CASE ToolsMax = 0 \/ Len(array) <= ToolsMax
  BY <1>1 DEF Capped
<1>2. CASE ~(ToolsMax = 0 \/ Len(array) <= ToolsMax)
  <2> DEFINE built == {i \in DOMAIN array : array[i].name \in Builtins}
             builtins == Kept(array, built)
             others == Kept(array, DOMAIN array \ built)
             b == Len(builtins)  o == Len(others)
             room == IF ToolsMax > b THEN ToolsMax - b ELSE 0
             r == IF room < o THEN room ELSE o
             rest == SubSeq(others, 1, r)
             c == Capped(array)
  <2>1. c = builtins \o rest
    BY <1>2 DEF Capped
  <2>2. built \in SUBSET DOMAIN array /\ DOMAIN array \ built \in SUBSET DOMAIN array
    OBVIOUS
  <2>3. \A k \in DOMAIN array : array[k].name \in Builtins => k \in built
    OBVIOUS
  <2> HIDE DEF built
  <2>4. builtins \in Seq(S) /\ others \in Seq(S)
    BY KeptTyped
  <2>5. b + o = Len(array)
    BY KeptAndOthers
  <2>6. Named(builtins) = {array[k].name : k \in built} /\ Named(others) \subseteq Named(array)
    <3>1. Named(builtins) = {array[k].name : k \in built}
      BY ONLY <2>2, array \in Seq(S), KeptNamed
    <3>2. Named(others) = {array[k].name : k \in DOMAIN array \ built}
      BY ONLY <2>2, array \in Seq(S), KeptNamed
    <3> QED BY <3>1, <3>2 DEF Named
  <2> HIDE DEF builtins, others, c
  <2>7. b \in Nat /\ o \in Nat /\ room \in Nat /\ r \in Nat /\ r <= o
    BY <2>4, ToolsAssumption
  <2>8. b + r >= ToolsMax
    BY <1>2, <2>5, <2>7, ToolsAssumption
  <2> HIDE DEF b, o, r, room
  <2>9. rest \in Seq(S) /\ Len(rest) = r /\ \A i \in 1..r : rest[i] = others[i] /\ i \in DOMAIN others
    BY <2>4, <2>7 DEF o
  <2> HIDE DEF rest
  <2>10. Len(c) = b + r
    <3>1. Len(builtins \o rest) = Len(builtins) + Len(rest)
      BY ONLY <2>4, <2>9
    <3> QED BY ONLY <2>1, <2>9, <3>1 DEF b
  <2>11. Named(c) = Named(builtins) \cup Named(rest)
    <3>1. Elements(c) = Elements(builtins) \cup Elements(rest)
      BY <2>1, <2>4, <2>9, ElementsConcat
    <3> QED BY <3>1, NamedElements
  <2>12. Named(rest) \subseteq Named(others)
    <3>1. DOMAIN rest = 1..r
      BY <2>9
    <3> QED BY <2>9, <3>1 DEF Named
  <2>13. Named(c) \subseteq Named(array)
    BY <2>2, <2>6, <2>11, <2>12 DEF Named
  <2>14. Builtins \cap Named(array) \subseteq Named(c)
    BY <2>3, <2>6, <2>11 DEF Named
  <2> QED BY <2>8, <2>10, <2>13, <2>14 DEF c
<1> QED BY <1>1, <1>2

\* The more is loaded, the more is visible.
LEMMA VisibleGrows ==
    ASSUME NEW array \in Seq(RequestTool), NEW a \in Seq(AdditionBlock), NEW b \in Seq(AdditionBlock)
    PROVE  Named(Visible(array, a)) \subseteq Named(Visible(array, a \o b))
<1> DEFINE c == a \o b
<1>1. c \in Seq(AdditionBlock)
  OBVIOUS
<1>2. \A i \in DOMAIN a : i \in DOMAIN c /\ c[i] = a[i]
  OBVIOUS
<1> HIDE DEF c
<1>3. Named(a) \subseteq Named(c)
  BY <1>2 DEF Named
<1>4. Named(Defined(a)) \subseteq Named(Defined(c))
  <2>1. Named(Defined(a)) = {a[k].name : k \in {k \in DOMAIN a : a[k].schema = "valid"}}
    BY DefinedTools
  <2>2. Named(Defined(c)) = {c[k].name : k \in {k \in DOMAIN c : c[k].schema = "valid"}}
    BY <1>1, DefinedTools
  <2> QED BY <1>2, <2>1, <2>2
<1>5. CallableAt(array, Named(a)) \subseteq CallableAt(array, Named(c))
  BY <1>3 DEF CallableAt
<1>6. Named(Visible(array, a)) = {array[i].name : i \in CallableAt(array, Named(a))}
                                 \cup (Named(Defined(a)) \ (Named(array) \cup {Placeholder}))
  BY VisibleTools
<1>7. Named(Visible(array, c)) = {array[i].name : i \in CallableAt(array, Named(c))}
                                 \cup (Named(Defined(c)) \ (Named(array) \cup {Placeholder}))
  BY <1>1, VisibleTools
<1> QED BY <1>4, <1>5, <1>6, <1>7 DEF c

\* What is sent when the conversation has grown offers no tool less.
LEMMA NoToolLess ==
    ASSUME NEW array \in ToolArrays, array # NoTools, NEW messages \in Seq(ToolMessages),
           NEW m \in ToolMessages, NEW more, more = Append(messages, m)
    PROVE  /\ Named(FoldBody(array, messages).tools) \ {Placeholder}
                 \subseteq Named(FoldBody(array, more).tools)
           /\ LET lost == Named(Offered(array, messages)) \ Named(Offered(array, more))
              IN  lost # {} => Len(Offered(array, more)) >= ToolsMax /\ lost \cap Builtins = {}
<1> DEFINE a == AdditionsIn(messages)  b == AdditionsOf(m)  c == AdditionsIn(more)
           old == Visible(array, a)  new == Visible(array, c)
<1>1. array \in Seq(RequestTool) /\ more \in Seq(ToolMessages)
  BY ToolsAssumption
<1>2. a \in Seq(AdditionBlock) /\ b \in Seq(AdditionBlock) /\ c \in Seq(AdditionBlock)
  BY <1>1, AdditionsInTyped, MessageTyped, AdditionsOfTyped
<1>3. c = a \o b
  BY AdditionsGrow
<1>4. Offered(array, messages) = Capped(old) /\ Offered(array, more) = Capped(new)
  BY DEF Offered
<1>5. /\ Folds(array, messages) => FoldBody(array, messages).tools = [i \in DOMAIN old |-> Shown(old[i])]
      /\ ~Folds(array, messages) => FoldBody(array, messages).tools = array
      /\ Folds(array, more) => FoldBody(array, more).tools = [i \in DOMAIN new |-> Shown(new[i])]
      /\ ~Folds(array, more) => FoldBody(array, more).tools = array
  BY DEF FoldBody, Fold
<1>6. ~Folds(array, messages) => \A i \in DOMAIN array : ~array[i].deferred
  BY DEF Folds
<1>7. Folds(array, messages) => Folds(array, more)
  <2>1. \A i \in DOMAIN messages : i \in DOMAIN more /\ more[i] = messages[i]
    OBVIOUS
  <2> QED BY <2>1 DEF Folds
<1> HIDE DEF a, b, c
<1>8. Named(old) \subseteq Named(new)
  BY <1>1, <1>2, <1>3, VisibleGrows
<1>9. PICK D : old \in Seq(ToolOf(D))
  BY <1>1, <1>2, VisibleTools
<1>10. PICK E : new \in Seq(ToolOf(E))
  BY <1>1, <1>2, VisibleTools
<1>11. Named(new) = {array[i].name : i \in CallableAt(array, Named(c))}
                    \cup (Named(Defined(c)) \ (Named(array) \cup {Placeholder}))
  BY <1>1, <1>2, VisibleTools
<1> HIDE DEF old, new
<1>12. Named(FoldBody(array, messages).tools) \ {Placeholder} \subseteq Named(FoldBody(array, more).tools)
  <2>1. Folds(array, messages) => Named(FoldBody(array, messages).tools) = Named(old)
    BY <1>5, <1>9, ShownTools
  <2>2. Folds(array, more) => Named(FoldBody(array, more).tools) = Named(new)
    BY <1>5, <1>10, ShownTools
  <2>4. CASE Folds(array, messages)
    BY <1>7, <1>8, <2>1, <2>2, <2>4
  <2>5. CASE ~Folds(array, messages)
    <3>1. \A i \in DOMAIN array : array[i].name # Placeholder => i \in CallableAt(array, Named(c))
      BY <1>6, <2>5 DEF CallableAt
    <3>2. Named(array) \ {Placeholder} \subseteq Named(new)
      BY <1>11, <3>1 DEF Named
    <3> QED BY <1>5, <2>2, <2>5, <3>2
  <2> QED BY <2>4, <2>5
<1>13. /\ Named(Capped(old)) \subseteq Named(old)
       /\ Builtins \cap Named(new) \subseteq Named(Capped(new))
       /\ Capped(new) # new => Len(Capped(new)) >= ToolsMax
  BY <1>9, <1>10, CappedTools
<1>14. LET lost == Named(Capped(old)) \ Named(Capped(new))
       IN  lost # {} => Len(Capped(new)) >= ToolsMax /\ lost \cap Builtins = {}
  BY <1>8, <1>13
<1> QED BY <1>4, <1>12, <1>14

\* However a conversation goes on (ToolsNeverShrink), what it has once offered stays offered:
\* only the limit takes a tool away, never a built-in one.
THEOREM ToolsOnlyGrow == ToolsSpec => ToolsNeverShrink
<1> DEFINE OneMore == tools # NoTools =>
          /\ talk # <<>> => Named(folded.tools) \ {Placeholder} \subseteq Named(folded'.tools)
          /\ LET lost == Named(offered) \ Named(offered')
             IN  lost # {} => Len(offered') >= ToolsMax /\ lost \cap Builtins = {}
<1>1. ToolsInv /\ [ToolsNext]_toolsVars => [OneMore]_toolsVars
  <2> SUFFICES ASSUME ToolsInv, ToolsNext, tools # NoTools PROVE OneMore
    OBVIOUS
  <2>1. PICK m \in ToolMessages : Ask(m)
    BY DEF ToolsNext
  <2>2. /\ tools \in ToolArrays /\ talk \in Seq(ToolMessages) /\ talk' = Append(talk, m)
        /\ talk # <<>> => folded = FoldBody(tools, talk)
        /\ offered = Offered(tools, talk)
        /\ folded' = FoldBody(tools, talk') /\ offered' = Offered(tools, talk')
    BY <2>1 DEF ToolsInv, Ask
  <2>3. /\ Named(FoldBody(tools, talk).tools) \ {Placeholder} \subseteq Named(FoldBody(tools, talk').tools)
        /\ LET lost == Named(Offered(tools, talk)) \ Named(Offered(tools, talk'))
           IN  lost # {} => Len(Offered(tools, talk')) >= ToolsMax /\ lost \cap Builtins = {}
    BY <2>2, NoToolLess
  <2> QED BY <2>2, <2>3
<1> QED BY <1>1, ToolsInvariance, PTL DEF ToolsSpec, ToolsNeverShrink
=============================================================================
