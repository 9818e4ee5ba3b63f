---------------------------- MODULE MessageThreads ----------------------------
(***************************************************************************)
(* Message threads held for a translated provider                          *)
(* (src/services/thread_store.py, and how handle_messages of               *)
(* src/providers/openai_translate.py uses it): a client sends the first    *)
(* step of a turn whole and the steps after it as deltas that name the     *)
(* response they follow; the router rebuilds the request that the client   *)
(* would have sent without threads.                                        *)
(*                                                                         *)
(* A request r is one HTTP request; r is also the id of its response and   *)
(* its attribution block, both fresh for each request.  Requests of a      *)
(* client that gave up run on beside the ones it sends later.  When an     *)
(* entry is dropped is the matter of TtlStore; here any entry may go at    *)
(* any time.  The client is external: it is modelled from what             *)
(* README.md:69-95 says of it.                                             *)
(***************************************************************************)
EXTENDS Naturals, Sequences

CONSTANTS
    Clients,
    Requests,
    Toolsets,    \* non-empty tool lists a client can have
    MaxFrames,   \* bound: content frames of one response
    None         \* no id, no request, no tools

ASSUME ThreadsAssumption ==
    /\ None \notin Requests \cup Toolsets
    /\ MaxFrames \in Nat

VARIABLES
    said,      \* the client's messages up to the response it follows
    new,       \* its messages after that
    base,      \* the id of that response, None if it must send everything
    tools,     \* its tools
    asking,    \* the request it waits for
    phase,     \* where each request is
    wire,      \* what the client sent
    meant,     \* what it would have sent without threads (history)
    asked,     \* what goes to the upstream; the response is recorded under it
    frames,    \* content frames of the response so far
    held       \* ThreadStore._entries: id -> request and reply

clientVars == <<said, new, base, tools, asking>>
requestVars == <<phase, wire, meant, asked, frames>>
vars == <<clientVars, requestVars, held>>

Messages == (Clients \X Nat) \cup (Requests \X Nat)
Bodies == [attribution : Requests, tools : Toolsets, messages : Seq(Messages)]
Deltas == [previous : Requests \cup {None}, attribution : Requests,
           tools : Toolsets \cup {None}, messages : Seq(Messages)]
Entries == [request : Bodies, reply : Requests \X Nat]

\* The user's next message, the assistant's message, a tool list left out.
UserMessage(c, n) == <<c, n>>
Reply(r) == <<r, frames[r]>>
FirstUnused == [r \in Requests |-> None]

TypeOK ==
    /\ said \in [Clients -> Seq(Messages)]
    /\ new \in [Clients -> Seq(Messages)]
    /\ base \in [Clients -> Requests \cup {None}]
    /\ tools \in [Clients -> Toolsets]
    /\ asking \in [Clients -> Requests \cup {None}]
    /\ phase \in [Requests -> {"unused", "sent", "calling", "refused", "stopped", "failed"}]
    /\ DOMAIN wire = Requests /\ DOMAIN meant = Requests /\ DOMAIN asked = Requests
    /\ \A r \in Requests : phase[r] # "unused" =>
          /\ meant[r] \in Bodies
          /\ wire[r] \in Deltas
    /\ \A r \in Requests : phase[r] \in {"calling", "stopped"} => asked[r] \in Bodies
    /\ frames \in [Requests -> 0..MaxFrames]
    /\ DOMAIN held \subseteq Requests
    /\ \A m \in DOMAIN held : held[m] \in Entries

Init ==
    /\ said = [c \in Clients |-> <<>>]
    /\ new = [c \in Clients |-> <<UserMessage(c, 0)>>]
    /\ base = [c \in Clients |-> None]
    /\ tools \in [Clients -> Toolsets]
    /\ asking = [c \in Clients |-> None]
    /\ phase = [r \in Requests |-> "unused"]
    /\ wire = FirstUnused /\ meant = FirstUnused /\ asked = FirstUnused
    /\ frames = [r \in Requests |-> 0]
    /\ held = [m \in {} |-> None]

-----------------------------------------------------------------------------
(* The client (external).                                                  *)

\* The whole request, as a client without threads would send it.
Whole(c, r) == [attribution |-> r, tools |-> tools[c], messages |-> said[c] \o new[c]]

Send(c, r) ==
    /\ asking[c] = None /\ phase[r] = "unused"
    /\ asking' = [asking EXCEPT ![c] = r]
    /\ phase' = [phase EXCEPT ![r] = "sent"]
    /\ meant' = [meant EXCEPT ![r] = Whole(c, r)]
    /\ UNCHANGED <<said, new, base, tools, asked, frames, held>>

\* thread: create, the whole conversation.
SendCreate(c, r) ==
    /\ Send(c, r)
    /\ wire' = [wire EXCEPT ![r] = [previous |-> None, attribution |-> r, tools |-> tools[c],
                                    messages |-> said[c] \o new[c]]]

\* thread: continue, the new messages only.
SendContinue(c, r) ==
    /\ base[c] # None
    /\ Send(c, r)
    /\ \E restated \in {None, tools[c]} :
          /\ restated = None => meant[base[c]].tools = tools[c]
          /\ wire' = [wire EXCEPT ![r] = [previous |-> base[c], attribution |-> r,
                                          tools |-> restated, messages |-> new[c]]]

\* message_stop arrives: the client takes the message over, has something new
\* to say to it, and may have other tools from now on.
Receive(c) ==
    /\ asking[c] # None /\ phase[asking[c]] = "stopped"
    /\ LET r == asking[c] IN
          /\ said' = [said EXCEPT ![c] = Append(@ \o new[c], Reply(r))]
          /\ new' = [new EXCEPT ![c] = <<UserMessage(c, Len(said'[c]))>>]
          /\ base' = [base EXCEPT ![c] = r]
    /\ \E t \in Toolsets : tools' = [tools EXCEPT ![c] = t]
    /\ asking' = [asking EXCEPT ![c] = None]
    /\ UNCHANGED <<requestVars, held>>

\* The 400 for a continuation: the same step goes out whole the next time.
ReceiveRefusal(c) ==
    /\ asking[c] # None /\ phase[asking[c]] = "refused"
    /\ base' = [base EXCEPT ![c] = None]
    /\ asking' = [asking EXCEPT ![c] = None]
    /\ UNCHANGED <<said, new, tools, requestVars, held>>

\* An error, a lost connection, or no patience: the client sends the step again,
\* while the router may still be at work on the request.
GiveUp(c) ==
    /\ asking[c] # None
    /\ asking' = [asking EXCEPT ![c] = None]
    /\ UNCHANGED <<said, new, base, tools, requestVars, held>>

-----------------------------------------------------------------------------
(* The router.                                                             *)

\* Mutant of Resume: the recorded assistant turn is left out.
ResumeWithoutReply(entry, delta) ==
    [attribution |-> delta.attribution,
     tools |-> IF delta.tools = None THEN entry.request.tools ELSE delta.tools,
     messages |-> entry.request.messages \o delta.messages]

\* resume(): the held request with the attribution refreshed, the tools restated
\* if the delta has any, and the reply and the delta's messages behind the held.
Resume(entry, delta) ==
    [attribution |-> delta.attribution,
     tools |-> IF delta.tools = None THEN entry.request.tools ELSE delta.tools,
     messages |-> Append(entry.request.messages, entry.reply) \o delta.messages]

CallUpstream(r, body) ==
    /\ asked' = [asked EXCEPT ![r] = body]
    /\ phase' = [phase EXCEPT ![r] = "calling"]

\* handle_messages up to the call of the upstream.
Handle(r) ==
    /\ phase[r] = "sent"
    /\ \/ /\ wire[r].previous = None
          /\ CallUpstream(r, [attribution |-> wire[r].attribution, tools |-> wire[r].tools,
                              messages |-> wire[r].messages])
       \/ /\ wire[r].previous \in DOMAIN held
          /\ CallUpstream(r, Resume(held[wire[r].previous], wire[r]))
       \/ /\ wire[r].previous \notin DOMAIN held \cup {None}
          /\ phase' = [phase EXCEPT ![r] = "refused"]
          /\ UNCHANGED asked
    /\ UNCHANGED <<clientVars, wire, meant, frames, held>>

\* A content frame is assembled and passed on.
Frame(r) ==
    /\ phase[r] = "calling" /\ frames[r] < MaxFrames
    /\ frames' = [frames EXCEPT ![r] = @ + 1]
    /\ UNCHANGED <<clientVars, phase, wire, meant, asked, held>>

Recorded(r, request) ==
    held' = [m \in DOMAIN held \cup {r} |->
               IF m = r THEN [request |-> request, reply |-> Reply(r)] ELSE held[m]]

\* Mutant of Stop: the response is recorded under the body as it came in.
StopUnderDelta(r) ==
    /\ phase[r] = "calling"
    /\ phase' = [phase EXCEPT ![r] = "stopped"]
    /\ Recorded(r, [asked[r] EXCEPT !.messages = wire[r].messages])
    /\ UNCHANGED <<clientVars, wire, meant, asked, frames>>

\* message_stop, after a complete response or one that was cut short: the
\* message is recorded before the frame goes out.  A unary response is recorded
\* in the same way.
Stop(r) ==
    /\ phase[r] = "calling"
    /\ phase' = [phase EXCEPT ![r] = "stopped"]
    /\ Recorded(r, asked[r])
    /\ UNCHANGED <<clientVars, wire, meant, asked, frames>>

\* The request ends in an error, or the process does.
Fails(r) ==
    /\ phase[r] \in {"sent", "calling"}
    /\ phase' = [phase EXCEPT ![r] = "failed"]
    /\ UNCHANGED <<clientVars, wire, meant, asked, frames, held>>

\* An entry is dropped: evicted, expired, or lost with all the others (one after
\* the other here) in a restart.
Forget(m) ==
    /\ m \in DOMAIN held
    /\ held' = [k \in DOMAIN held \ {m} |-> held[k]]
    /\ UNCHANGED <<clientVars, requestVars>>

ClientStep(c) ==
    \/ \E r \in Requests : SendCreate(c, r) \/ SendContinue(c, r)
    \/ Receive(c) \/ ReceiveRefusal(c) \/ GiveUp(c)

RouterStep(r) == Handle(r) \/ Frame(r) \/ Stop(r) \/ Fails(r) \/ Forget(r)

Next == (\E c \in Clients : ClientStep(c)) \/ (\E r \in Requests : RouterStep(r))

Spec == Init /\ [][Next]_vars

-----------------------------------------------------------------------------
(* Properties.                                                             *)

\* "a continuation is rebuilt ... into the full request the client would have
\* sent without threads" (README.md:80): whatever was retried, recorded or dropped
\* in between, the upstream is asked what the client meant.
AskedIsMeant == \A r \in Requests : phase[r] \in {"calling", "stopped"} => asked[r] = meant[r]

\* The inductive invariant.  A client that continues has taken over the reply to
\* the request its messages extend.
FollowsInv ==
    \A c \in Clients : base[c] # None =>
        /\ phase[base[c]] = "stopped"
        /\ said[c] = Append(meant[base[c]].messages, Reply(base[c]))

\* The request a client waits for means the client's whole conversation.
AskingInv ==
    \A c \in Clients : asking[c] # None =>
        /\ phase[asking[c]] # "unused"
        /\ meant[asking[c]].messages = said[c] \o new[c]

\* What is under way means itself, or its delta behind the response it names.
MeansItself(r) ==
    meant[r] = [attribution |-> wire[r].attribution, tools |-> wire[r].tools,
                messages |-> wire[r].messages]

MeansItsDelta(r) ==
    LET p == wire[r].previous IN
    /\ phase[p] = "stopped"
    /\ meant[r] = Resume([request |-> meant[p], reply |-> Reply(p)], wire[r])

WireInv ==
    \A r \in Requests : phase[r] = "sent" =>
        IF wire[r].previous = None THEN MeansItself(r) ELSE MeansItsDelta(r)

\* The store holds finished responses, each with the request that was meant.
HeldInv ==
    \A m \in DOMAIN held :
        phase[m] = "stopped" /\ held[m] = [request |-> meant[m], reply |-> Reply(m)]

ThreadInv == AskedIsMeant /\ FollowsInv /\ AskingInv /\ WireInv /\ HeldInv

IInv == TypeOK /\ ThreadInv
=============================================================================
