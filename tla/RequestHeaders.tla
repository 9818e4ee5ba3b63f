---------------------------- MODULE RequestHeaders ----------------------------
(***************************************************************************)
(* The headers of one routed request on their way to a passthrough           *)
(* provider's upstream, and of its response on the way back                   *)
(* (src/services/header_utils.py, PassthroughProvider._build_headers,         *)
(* framed_headers of src/proxy/session.py).  Both listeners hand the router   *)
(* lower-case names; only names in the configuration have a spelling of their *)
(* own.  A header is its name with the values of its lines, in order.         *)
(***************************************************************************)
EXTENDS Sequences, SequencesExt

CONSTANTS
    Lines,      \* what clients send: sequences of [name, value]
    Extras,     \* values of extra_headers: functions from names to values
    Lower,      \* function: the lower-case form of a name
    Responses   \* what upstreams answer: sequences of [name, value]

HopByHop == {"host", "content-length", "connection", "keep-alive", "transfer-encoding",
             "upgrade", "proxy-authenticate", "proxy-authorization", "te", "trailer"}

OwnKeyAllowed == {"anthropic-version", "anthropic-beta", "content-type", "accept",
                  "accept-encoding", "user-agent"}

SecretNames == {"authorization", "x-api-key"}
FramingNames == {"content-length", "transfer-encoding"}

ASSUME HeadersAssumption ==
    /\ \A name \in SecretNames : Lower[name] = name
    /\ \A lines \in Lines \cup Responses :
          \A i \in DOMAIN lines : Lower[lines[i].name] = lines[i].name

VARIABLES
    listener,   \* "asgi" or "mitm"
    arrived,    \* the client's lines
    auth,       \* "forward", or the header of the provider's own key
    extra,      \* the provider's extra_headers
    headers,    \* "request", "forwarded", "answered": how far they are
    upward,     \* what the upstream is sent
    downward    \* what the client is sent: the response's lines

headersVars == <<listener, arrived, auth, extra, headers, upward, downward>>

-----------------------------------------------------------------------------
NamesOf(lines) == {lines[i].name : i \in DOMAIN lines}

LinesNamed(lines, name) == SelectSeq(lines, LAMBDA line : line.name = name)

ValuesOf(lines, name) ==
    [i \in DOMAIN LinesNamed(lines, name) |-> LinesNamed(lines, name)[i].value]

\* What the provider is handed: Starlette's Headers, or client_headers_mapping, where
\* a later line takes the place of an earlier one.
AllLines(lines) == [name \in NamesOf(lines) |-> ValuesOf(lines, name)]
LastLines(lines) == [name \in NamesOf(lines) |-> <<Last(ValuesOf(lines, name))>>]

ClientHeaders(from, lines) == IF from = "asgi" THEN AllLines(lines) ELSE LastLines(lines)

Keeping(given, names) == [name \in DOMAIN given \cap names |-> given[name]]
Without(given, names) == Keeping(given, DOMAIN given \ names)
Overlaid(given, over) ==
    [name \in DOMAIN given \cup DOMAIN over |->
        IF name \in DOMAIN over THEN over[name] ELSE given[name]]

ForwardHeaders(given) == Without(given, HopByHop)

\* Mutant of OwnKeyHeaders: the client's credentials are taken out, the rest stays.
OwnKeyHeadersByDenylist(given, name) ==
    Overlaid(Without(given, HopByHop \cup SecretNames), [n \in {name} |-> <<"own key">>])

OwnKeyHeaders(given, name) ==
    Overlaid(Keeping(given, OwnKeyAllowed), [n \in {name} |-> <<"own key">>])

\* merge_extra_headers: an extra header takes the place of every spelling of its name.
MergeExtra(given, over) ==
    Overlaid(Without(given, {name \in DOMAIN given :
                                \E e \in DOMAIN over : Lower[e] = Lower[name]}),
             [e \in DOMAIN over |-> <<over[e]>>])

\* PassthroughProvider._build_headers.
BuiltHeaders(given) ==
    MergeExtra(IF auth = "forward" THEN ForwardHeaders(given) ELSE OwnKeyHeaders(given, auth), extra)

\* A line behind those there are, of its name too.
WithLine(given, name, value) ==
    [n \in DOMAIN given \cup {name} |->
        IF n # name THEN given[n]
        ELSE Append(IF name \in DOMAIN given THEN given[name] ELSE <<>>, value)]

\* framed_headers: the framing the router itself knows takes the place of the old one.
Framed(given, length, allowBody) ==
    LET kept == Without(given, (HopByHop \ {"host"}) \cup FramingNames)
    IN  IF allowBody
        THEN WithLine(kept, IF length = "unknown" THEN "transfer-encoding" ELSE "content-length",
                      length)
        ELSE kept

-----------------------------------------------------------------------------
HeadersInit ==
    /\ listener \in {"asgi", "mitm"}
    /\ arrived \in Lines
    /\ auth \in {"forward"} \cup SecretNames
    /\ extra \in Extras
    /\ headers = "request" /\ upward = <<>> /\ downward = <<>>

BuildHeaders ==
    /\ headers = "request" /\ headers' = "forwarded"
    /\ upward' = BuiltHeaders(ClientHeaders(listener, arrived))
    /\ UNCHANGED <<listener, arrived, auth, extra, downward>>

\* The response of a routed request, unary or streamed, goes back over the decrypted
\* connection: a body is always allowed.
SendResponse ==
    /\ headers = "forwarded" /\ listener = "mitm" /\ headers' = "answered"
    /\ \E response \in Responses, length \in {"known", "unknown"} :
          downward' = Framed(Without(AllLines(response), HopByHop), length, TRUE)
    /\ UNCHANGED <<listener, arrived, auth, extra, upward>>

\* A forwarded one: the length is the upstream's, and HEAD, 204 and 304 have no body.
RelayHead ==
    /\ headers = "request" /\ listener = "mitm" /\ headers' = "relayed"
    /\ \E response \in Responses, allowBody \in BOOLEAN :
          LET length == IF allowBody /\ "content-length" \in NamesOf(response)
                        THEN "known" ELSE "unknown"
          IN  downward' = Framed(AllLines(response), length, allowBody)
    /\ UNCHANGED <<listener, arrived, auth, extra, upward>>

HeadersNext == BuildHeaders \/ SendResponse \/ RelayHead

HeadersSpec == HeadersInit /\ [][HeadersNext]_headersVars

-----------------------------------------------------------------------------
(* Properties.                                                             *)

\* No header reaches the upstream twice under two spellings, unless the configuration
\* has both.
NoTwins ==
    \A n, m \in DOMAIN upward :
        Lower[n] = Lower[m] => n = m \/ (n \in DOMAIN extra /\ m \in DOMAIN extra)

\* With a key of its own, a provider's upstream gets exactly one credential, that key,
\* and of the client only what is on the allowlist; without, it gets the client's own
\* credentials and every other header that is not hop-by-hop; and the configuration has
\* the last word on any name.
OnlyMeantHeaders ==
    headers \in {"forwarded", "answered"} =>
        LET given == ClientHeaders(listener, arrived)
            configured == {Lower[e] : e \in DOMAIN extra}
            expected == IF auth = "forward" THEN NamesOf(arrived) \ HopByHop
                        ELSE (NamesOf(arrived) \cap OwnKeyAllowed) \cup {auth}
        IN  /\ {Lower[n] : n \in DOMAIN upward} = expected \cup configured
            /\ \A n \in DOMAIN upward :
                  upward[n] = CASE n \in DOMAIN extra -> <<extra[n]>>
                                [] n \notin DOMAIN extra /\ n = auth /\ auth # "forward" ->
                                      <<"own key">>
                                [] OTHER -> given[n]

\* A response over the decrypted connection has one framing, or none if it can have no
\* body, whatever framing the upstream's had.
OneFraming ==
    headers \in {"answered", "relayed"} =>
        \A n, m \in DOMAIN downward \cap FramingNames : n = m /\ Len(downward[n]) = 1

HeadersSound == NoTwins /\ OnlyMeantHeaders /\ OneFraming

\* "Repeated header lines with the same name are joined with a comma (RFC 9110), not
\* collapsed to the last one" (src/services/header_utils.py:116).
EveryLineForwarded ==
    headers = "forwarded" /\ auth = "forward" =>
        \A name \in NamesOf(arrived) \ HopByHop :
            name \in DOMAIN upward \ DOMAIN extra => upward[name] = ValuesOf(arrived, name)
=============================================================================
