------------------------- MODULE MessageThreadsProofs -------------------------
(***************************************************************************)
(* Proofs about MessageThreads, for any clients, requests and tool lists   *)
(* and any number of frames: a continuation asks the upstream exactly what *)
(* the client meant.                                                       *)
(***************************************************************************)
EXTENDS MessageThreads, TLAPS

\* The initial state.
LEMMA InitEstablishes == Init => IInv
  <1>. SUFFICES ASSUME Init PROVE IInv
    OBVIOUS
  <1>. USE ThreadsAssumption DEF Init
  <1>1. TypeOK
    <2>1. \A c \in Clients : <<c, 0>> \in Messages
      BY DEF Messages
    <2>2. new \in [Clients -> Seq(Messages)]
      BY <2>1 DEF UserMessage
    <2>3. said \in [Clients -> Seq(Messages)]
      OBVIOUS
    <2>. QED BY <2>2, <2>3 DEF TypeOK, FirstUnused
  <1>2. ThreadInv
    BY DEF ThreadInv, AskedIsMeant, FollowsInv, AskingInv, WireInv, HeldInv
  <1>. QED BY <1>1, <1>2 DEF IInv

\* A sent request is not one that anything already refers to.
LEMMA SendPreserves ==
  ASSUME IInv, NEW c \in Clients, NEW r \in Requests, SendCreate(c, r) \/ SendContinue(c, r)
  PROVE  IInv'
  <1>. USE ThreadsAssumption
  <1>. USE DEF IInv
  <1>1. Send(c, r)
    BY DEF SendCreate, SendContinue
  <1>2. /\ meant' = [meant EXCEPT ![r] = Whole(c, r)]
        /\ phase' = [phase EXCEPT ![r] = "sent"]
        /\ asking' = [asking EXCEPT ![c] = r]
        /\ phase[r] = "unused"
        /\ UNCHANGED <<said, new, base, tools, asked, frames, held>>
    BY <1>1 DEF Send
  <1>3. PICK w \in Deltas :
          /\ wire' = [wire EXCEPT ![r] = w]
          /\ w.attribution = r
          /\ \/ w.previous = None /\ w.tools = tools[c] /\ w.messages = said[c] \o new[c]
             \/ /\ w.previous = base[c] /\ base[c] # None /\ w.messages = new[c]
                /\ w.tools = tools[c] \/ (w.tools = None /\ meant[base[c]].tools = tools[c])
    <2>1. tools[c] \in Toolsets /\ said[c] \o new[c] \in Seq(Messages)
          /\ new[c] \in Seq(Messages) /\ base[c] \in Requests \cup {None}
      BY DEF TypeOK
    <2>2. CASE SendCreate(c, r)
      <3>. DEFINE v == [previous |-> None, attribution |-> r, tools |-> tools[c],
                        messages |-> said[c] \o new[c]]
      <3>1. v \in Deltas
        BY <2>1 DEF Deltas
      <3>2. wire' = [wire EXCEPT ![r] = v]
        BY <2>2 DEF SendCreate
      <3>. QED BY <3>1, <3>2
    <2>3. CASE SendContinue(c, r)
      <3>1. PICK restated \in {None, tools[c]} :
              /\ restated = None => meant[base[c]].tools = tools[c]
              /\ wire' = [wire EXCEPT ![r] = [previous |-> base[c], attribution |-> r,
                                              tools |-> restated, messages |-> new[c]]]
        BY <2>3 DEF SendContinue
      <3>. DEFINE v == [previous |-> base[c], attribution |-> r,
                        tools |-> restated, messages |-> new[c]]
      <3>2. base[c] # None
        BY <2>3 DEF SendContinue
      <3>3. v \in Deltas
        BY <2>1 DEF Deltas
      <3>4. wire' = [wire EXCEPT ![r] = v]
        BY <3>1
      <3>5. v.tools = tools[c] \/ (v.tools = None /\ meant[base[c]].tools = tools[c])
        BY <3>1
      <3>. QED BY <3>2, <3>3, <3>4, <3>5
    <2>. QED BY <2>2, <2>3
  <1>4. Whole(c, r) \in Bodies
    BY DEF Whole, Bodies, TypeOK
  <1>5. \A q \in Requests : q # r =>
          phase'[q] = phase[q] /\ meant'[q] = meant[q] /\ wire'[q] = wire[q]
    BY <1>2, <1>3 DEF TypeOK
  <1>6. phase'[r] = "sent" /\ meant'[r] = Whole(c, r) /\ wire'[r] = w
    BY <1>2, <1>3 DEF TypeOK
  <1>7. TypeOK'
    <2>1. phase' \in [Requests -> {"unused", "sent", "calling", "refused", "stopped", "failed"}]
          /\ asking' \in [Clients -> Requests \cup {None}]
      BY <1>2 DEF TypeOK
    <2>2. DOMAIN wire' = Requests /\ DOMAIN meant' = Requests
      BY <1>2, <1>3 DEF TypeOK
    <2>3. \A q \in Requests : phase'[q] # "unused" =>
            /\ meant'[q] \in Bodies
            /\ wire'[q] \in Deltas
      BY <1>4, <1>5, <1>6 DEF TypeOK
    <2>4. \A q \in Requests : phase'[q] \in {"calling", "stopped"} => asked'[q] \in Bodies
      BY <1>2, <1>5, <1>6 DEF TypeOK
    <2>. QED BY <1>2, <2>1, <2>2, <2>3, <2>4 DEF TypeOK
  <1>8. AskedIsMeant'
    BY <1>2, <1>5, <1>6 DEF ThreadInv, AskedIsMeant
  <1>9. FollowsInv'
    <2>. SUFFICES ASSUME NEW d \in Clients, base[d] # None
         PROVE  /\ phase'[base[d]] = "stopped"
                /\ said[d] = Append(meant'[base[d]].messages, Reply(base[d])')
      BY <1>2 DEF FollowsInv
    <2>1. base[d] \in Requests /\ base[d] # r
      BY <1>2 DEF TypeOK, ThreadInv, FollowsInv
    <2>. QED BY <1>2, <1>5, <2>1 DEF ThreadInv, FollowsInv, Reply
  <1>10. AskingInv'
    <2>. SUFFICES ASSUME NEW d \in Clients, asking'[d] # None
         PROVE  /\ phase'[asking'[d]] # "unused"
                /\ meant'[asking'[d]].messages = said[d] \o new[d]
      BY <1>2 DEF AskingInv
    <2>1. CASE d = c
      BY <1>2, <1>6, <2>1 DEF Whole, TypeOK
    <2>2. CASE d # c
      <3>1. asking'[d] = asking[d]
        BY <1>2, <2>2 DEF TypeOK
      <3>2. asking[d] \in Requests /\ asking[d] # r
        BY <1>2, <3>1 DEF TypeOK, ThreadInv, AskingInv
      <3>3. phase[asking[d]] # "unused" /\ meant[asking[d]].messages = said[d] \o new[d]
        BY <3>1 DEF ThreadInv, AskingInv
      <3>. QED BY <1>5, <3>1, <3>2, <3>3
    <2>. QED BY <2>1, <2>2
  <1>11. WireInv'
    <2>. SUFFICES ASSUME NEW q \in Requests, phase'[q] = "sent"
         PROVE  IF wire'[q].previous = None THEN MeansItself(q)' ELSE MeansItsDelta(q)'
      BY DEF WireInv
    <2>1. CASE q # r
      <3>1. phase[q] = "sent" /\ meant'[q] = meant[q] /\ wire'[q] = wire[q]
        BY <1>5, <2>1
      <3>2. CASE wire[q].previous = None
        BY <3>1, <3>2 DEF ThreadInv, WireInv, MeansItself
      <3>3. CASE wire[q].previous # None
        <4>1. MeansItsDelta(q)
          BY <3>1, <3>3 DEF ThreadInv, WireInv
        <4>2. wire[q].previous \in Requests /\ wire[q].previous # r
          BY <1>2, <3>1, <3>3, <4>1 DEF TypeOK, MeansItsDelta, Deltas
        <4>. QED BY <1>2, <1>5, <3>1, <3>3, <4>1, <4>2 DEF MeansItsDelta, Reply
      <3>. QED BY <3>2, <3>3
    <2>2. CASE q = r /\ w.previous = None
      <3>1. w.tools = tools[c] /\ w.messages = said[c] \o new[c] /\ w.attribution = r
        BY <1>3, <2>2
      <3>. QED BY <1>6, <2>2, <3>1 DEF MeansItself, Whole
    <2>3. CASE q = r /\ w.previous # None
      <3>1. /\ w.previous = base[c] /\ base[c] # None
            /\ w.messages = new[c] /\ w.attribution = r
            /\ w.tools = tools[c] \/ (w.tools = None /\ meant[base[c]].tools = tools[c])
        BY <1>3, <2>3
      <3>2. /\ base[c] \in Requests /\ phase[base[c]] = "stopped" /\ base[c] # r
            /\ said[c] = Append(meant[base[c]].messages, Reply(base[c]))
        BY <1>2, <3>1 DEF TypeOK, ThreadInv, FollowsInv
      <3>3. tools[c] # None
        BY DEF TypeOK
      <3>4. /\ phase'[base[c]] = "stopped" /\ meant'[base[c]] = meant[base[c]]
            /\ Reply(base[c])' = Reply(base[c])
        BY <1>2, <1>5, <3>2 DEF Reply
      <3>5. Whole(c, r) = Resume([request |-> meant[base[c]], reply |-> Reply(base[c])], w)
        <4>1. w.tools = None => meant[base[c]].tools = tools[c]
          BY <3>1, <3>3
        <4>2. w.tools # None => w.tools = tools[c]
          BY <3>1
        <4>. QED BY <3>1, <3>2, <4>1, <4>2 DEF Resume, Whole
      <3>6. wire'[q] = w /\ meant'[q] = Whole(c, r)
        BY <1>6, <2>3
      <3>7. wire'[q].previous = base[c]
        BY <3>1, <3>6
      <3>8. meant'[q] = Resume([request |-> meant'[base[c]], reply |-> Reply(base[c])'], w)
        BY <3>4, <3>5, <3>6
      <3>9. MeansItsDelta(q)'
        BY <3>4, <3>6, <3>7, <3>8 DEF MeansItsDelta, Resume, Reply
      <3>. QED BY <3>1, <3>7, <3>9
    <2>. QED BY <2>1, <2>2, <2>3
  <1>12. HeldInv'
    BY <1>2, <1>5 DEF TypeOK, ThreadInv, HeldInv, Reply
  <1>. QED BY <1>7, <1>8, <1>9, <1>10, <1>11, <1>12 DEF ThreadInv

\* The client takes over what was meant and the reply to it.
LEMMA ReceivePreserves ==
  ASSUME IInv, NEW c \in Clients, Receive(c)
  PROVE  IInv'
  <1>. USE ThreadsAssumption
  <1>. USE DEF IInv
  <1>. DEFINE r == asking[c]
  <1>1. /\ r \in Requests /\ r # None /\ phase[r] = "stopped"
        /\ said' = [said EXCEPT ![c] = Append(said[c] \o new[c], Reply(r))]
        /\ new' = [new EXCEPT ![c] = <<UserMessage(c, Len(said'[c]))>>]
        /\ base' = [base EXCEPT ![c] = r]
        /\ asking' = [asking EXCEPT ![c] = None]
        /\ UNCHANGED <<requestVars, held>>
    BY DEF Receive, TypeOK
  <1>2. PICK t \in Toolsets : tools' = [tools EXCEPT ![c] = t]
    BY DEF Receive
  <1>3. TypeOK'
    <2>1. Reply(r) \in Messages
      BY <1>1 DEF TypeOK, Reply, Messages
    <2>2. said' \in [Clients -> Seq(Messages)]
      BY <1>1, <2>1 DEF TypeOK
    <2>3. UserMessage(c, Len(said'[c])) \in Messages
      BY <2>2 DEF UserMessage, Messages
    <2>4. new' \in [Clients -> Seq(Messages)]
      BY <1>1, <2>3 DEF TypeOK
    <2>5. base' \in [Clients -> Requests \cup {None}] /\ asking' \in [Clients -> Requests \cup {None}]
          /\ tools' \in [Clients -> Toolsets]
      BY <1>1, <1>2 DEF TypeOK
    <2>. QED BY <1>1, <2>2, <2>4, <2>5 DEF TypeOK, requestVars
  <1>4. AskedIsMeant'
    BY <1>1 DEF ThreadInv, AskedIsMeant, requestVars
  <1>5. FollowsInv'
    <2>1. said'[c] = Append(meant[r].messages, Reply(r))
      BY <1>1 DEF TypeOK, ThreadInv, AskingInv
    <2>2. base'[c] = r
      BY <1>1 DEF TypeOK
    <2>3. \A d \in Clients : d # c => said'[d] = said[d] /\ base'[d] = base[d]
      BY <1>1 DEF TypeOK
    <2>4. \A q : Reply(q)' = Reply(q)
      BY <1>1 DEF Reply, requestVars
    <2>5. phase' = phase /\ meant' = meant
      BY <1>1 DEF requestVars
    <2>. QED BY <1>1, <2>1, <2>2, <2>3, <2>4, <2>5 DEF ThreadInv, FollowsInv
  <1>6. AskingInv'
    <2>1. asking'[c] = None
      BY <1>1 DEF TypeOK
    <2>2. \A d \in Clients : d # c =>
            said'[d] = said[d] /\ new'[d] = new[d] /\ asking'[d] = asking[d]
      BY <1>1 DEF TypeOK
    <2>3. phase' = phase /\ meant' = meant
      BY <1>1 DEF requestVars
    <2>. QED BY <2>1, <2>2, <2>3 DEF ThreadInv, AskingInv
  <1>7. WireInv'
    BY <1>1 DEF ThreadInv, WireInv, MeansItself, MeansItsDelta, Reply, requestVars
  <1>8. HeldInv'
    BY <1>1 DEF ThreadInv, HeldInv, Reply, requestVars
  <1>. QED BY <1>3, <1>4, <1>5, <1>6, <1>7, <1>8 DEF ThreadInv

\* A client that stops waiting forgets the request, and what it follows at most.
LEMMA GivesUpPreserves ==
  ASSUME IInv, NEW c \in Clients, ReceiveRefusal(c) \/ GiveUp(c)
  PROVE  IInv'
  <1>. USE ThreadsAssumption
  <1>. USE DEF IInv
  <1>1. /\ asking' = [asking EXCEPT ![c] = None]
        /\ base' = base \/ base' = [base EXCEPT ![c] = None]
        /\ UNCHANGED <<said, new, tools, requestVars, held>>
    BY DEF ReceiveRefusal, GiveUp
  <1>2. asking' \in [Clients -> Requests \cup {None}] /\ base' \in [Clients -> Requests \cup {None}]
    BY <1>1 DEF TypeOK
  <1>3. \A d \in Clients : /\ asking'[d] \in {asking[d], None}
                           /\ base'[d] \in {base[d], None}
    BY <1>1 DEF TypeOK
  <1>4. TypeOK'
    BY <1>1, <1>2 DEF TypeOK, requestVars
  <1>5. AskedIsMeant'
    BY <1>1 DEF ThreadInv, AskedIsMeant, requestVars
  <1>6. FollowsInv'
    BY <1>1, <1>3 DEF ThreadInv, FollowsInv, Reply, requestVars
  <1>7. AskingInv'
    BY <1>1, <1>3 DEF ThreadInv, AskingInv, requestVars
  <1>8. WireInv'
    BY <1>1 DEF ThreadInv, WireInv, MeansItself, MeansItsDelta, Reply, requestVars
  <1>9. HeldInv'
    BY <1>1 DEF ThreadInv, HeldInv, Reply, requestVars
  <1>. QED BY <1>4, <1>5, <1>6, <1>7, <1>8, <1>9 DEF ThreadInv

\* What goes to the upstream is what was meant, taken whole or rebuilt.
LEMMA HandlePreserves ==
  ASSUME IInv, NEW r \in Requests, Handle(r)
  PROVE  IInv'
  <1>. USE ThreadsAssumption
  <1>. USE DEF IInv
  <1>1. phase[r] = "sent" /\ UNCHANGED <<clientVars, wire, meant, frames, held>>
    BY DEF Handle
  <1>2. /\ phase' \in {[phase EXCEPT ![r] = "calling"], [phase EXCEPT ![r] = "refused"]}
        /\ asked' = [asked EXCEPT ![r] = meant[r]] \/ (phase'[r] = "refused" /\ asked' = asked)
    <2>1. CASE wire[r].previous = None
      <3>1. MeansItself(r)
        BY <1>1, <2>1 DEF ThreadInv, WireInv
      <3>2. wire[r].previous \notin DOMAIN held
        BY <2>1 DEF TypeOK
      <3>. QED BY <2>1, <3>1, <3>2 DEF Handle, CallUpstream, MeansItself
    <2>2. CASE wire[r].previous # None /\ wire[r].previous \in DOMAIN held
      <3>1. MeansItsDelta(r)
        BY <1>1, <2>2 DEF ThreadInv, WireInv
      <3>2. held[wire[r].previous] = [request |-> meant[wire[r].previous],
                                      reply |-> Reply(wire[r].previous)]
        BY <2>2 DEF ThreadInv, HeldInv
      <3>3. CallUpstream(r, Resume(held[wire[r].previous], wire[r]))
        BY <2>2 DEF Handle
      <3>. QED BY <3>1, <3>2, <3>3 DEF CallUpstream, MeansItsDelta
    <2>3. CASE wire[r].previous # None /\ wire[r].previous \notin DOMAIN held
      <3>1. phase' = [phase EXCEPT ![r] = "refused"] /\ asked' = asked
        BY <2>3 DEF Handle
      <3>. QED BY <3>1 DEF TypeOK
    <2>. QED BY <2>1, <2>2, <2>3
  <1>3. \A q \in Requests : q # r => phase'[q] = phase[q] /\ asked'[q] = asked[q]
    BY <1>2 DEF TypeOK
  <1>4. phase'[r] \in {"calling", "refused"} /\ (phase'[r] = "calling" => asked'[r] = meant[r])
    BY <1>2 DEF TypeOK
  <1>5. TypeOK'
    <2>1. phase' \in [Requests -> {"unused", "sent", "calling", "refused", "stopped", "failed"}]
      BY <1>2 DEF TypeOK
    <2>2. DOMAIN asked' = Requests
      BY <1>2 DEF TypeOK
    <2>3. meant[r] \in Bodies
      BY <1>1 DEF TypeOK
    <2>4. \A q \in Requests : phase'[q] \in {"calling", "stopped"} => asked'[q] \in Bodies
      BY <1>3, <1>4, <2>3 DEF TypeOK
    <2>5. \A q \in Requests : phase'[q] # "unused" => phase[q] # "unused"
      BY <1>1, <1>3
    <2>. QED BY <1>1, <2>1, <2>2, <2>4, <2>5 DEF TypeOK, clientVars
  <1>6. AskedIsMeant'
    BY <1>1, <1>3, <1>4 DEF ThreadInv, AskedIsMeant
  <1>7. \A q \in Requests : phase[q] = "stopped" => phase'[q] = "stopped"
    BY <1>1, <1>3
  <1>8. FollowsInv'
    BY <1>1, <1>7 DEF TypeOK, ThreadInv, FollowsInv, Reply, clientVars
  <1>9. AskingInv'
    <2>1. \A q \in Requests : phase[q] # "unused" => phase'[q] # "unused"
      BY <1>3, <1>4
    <2>. QED BY <1>1, <2>1 DEF TypeOK, ThreadInv, AskingInv, clientVars
  <1>10. WireInv'
    <2>. SUFFICES ASSUME NEW q \in Requests, phase'[q] = "sent"
         PROVE  IF wire[q].previous = None THEN MeansItself(q) ELSE MeansItsDelta(q)'
      BY <1>1 DEF WireInv, MeansItself
    <2>1. phase[q] = "sent"
      BY <1>3, <1>4
    <2>2. wire[q].previous \in Requests \cup {None}
      BY <2>1 DEF TypeOK, Deltas
    <2>. QED BY <1>1, <1>7, <2>1, <2>2 DEF ThreadInv, WireInv, MeansItsDelta, Reply
  <1>11. HeldInv'
    BY <1>1, <1>7 DEF TypeOK, ThreadInv, HeldInv, Reply
  <1>. QED BY <1>5, <1>6, <1>8, <1>9, <1>10, <1>11 DEF ThreadInv

\* Frames grow only before the response is recorded, and nothing refers to it.
LEMMA FramePreserves ==
  ASSUME IInv, NEW r \in Requests, Frame(r)
  PROVE  IInv'
  <1>. USE ThreadsAssumption
  <1>. USE DEF IInv
  <1>1. /\ phase[r] = "calling" /\ frames[r] < MaxFrames
        /\ frames' = [frames EXCEPT ![r] = frames[r] + 1]
        /\ UNCHANGED <<clientVars, phase, wire, meant, asked, held>>
    BY DEF Frame
  <1>2. frames' \in [Requests -> 0..MaxFrames]
    BY <1>1 DEF TypeOK
  <1>3. \A q \in Requests : phase[q] = "stopped" => Reply(q)' = Reply(q)
    BY <1>1 DEF TypeOK, Reply
  <1>4. TypeOK'
    BY <1>1, <1>2 DEF TypeOK, clientVars
  <1>5. AskedIsMeant'
    BY <1>1 DEF ThreadInv, AskedIsMeant
  <1>6. FollowsInv'
    BY <1>1, <1>3 DEF TypeOK, ThreadInv, FollowsInv, clientVars
  <1>7. AskingInv'
    BY <1>1 DEF ThreadInv, AskingInv, clientVars
  <1>8. WireInv'
    <2>. SUFFICES ASSUME NEW q \in Requests, phase[q] = "sent"
         PROVE  IF wire[q].previous = None THEN MeansItself(q) ELSE MeansItsDelta(q)'
      BY <1>1 DEF WireInv, MeansItself
    <2>1. wire[q].previous \in Requests \cup {None}
      BY DEF TypeOK, Deltas
    <2>. QED BY <1>1, <1>3, <2>1 DEF ThreadInv, WireInv, MeansItsDelta
  <1>9. HeldInv'
    BY <1>1, <1>3 DEF TypeOK, ThreadInv, HeldInv
  <1>. QED BY <1>4, <1>5, <1>6, <1>7, <1>8, <1>9 DEF ThreadInv

\* The response is recorded under what was meant.
LEMMA StopPreserves ==
  ASSUME IInv, NEW r \in Requests, Stop(r)
  PROVE  IInv'
  <1>. USE ThreadsAssumption
  <1>. USE DEF IInv
  <1>1. /\ phase[r] = "calling"
        /\ phase' = [phase EXCEPT ![r] = "stopped"]
        /\ UNCHANGED <<clientVars, wire, meant, asked, frames>>
        /\ held' = [m \in DOMAIN held \cup {r} |->
                      IF m = r THEN [request |-> asked[r], reply |-> Reply(r)] ELSE held[m]]
    BY DEF Stop, Recorded
  <1>2. \A q \in Requests : q # r => phase'[q] = phase[q]
    BY <1>1 DEF TypeOK
  <1>3. phase'[r] = "stopped"
    BY <1>1 DEF TypeOK
  <1>4. \A q : Reply(q)' = Reply(q)
    BY <1>1 DEF Reply
  <1>5. TypeOK'
    <2>1. phase' \in [Requests -> {"unused", "sent", "calling", "refused", "stopped", "failed"}]
      BY <1>1 DEF TypeOK
    <2>2. asked[r] \in Bodies /\ Reply(r) \in Requests \X Nat
      BY <1>1 DEF TypeOK, Reply
    <2>3. DOMAIN held' \subseteq Requests /\ \A m \in DOMAIN held' : held'[m] \in Entries
      BY <1>1, <2>2 DEF TypeOK, Entries
    <2>4. \A q \in Requests : phase'[q] # "unused" => phase[q] # "unused"
      BY <1>1, <1>2
    <2>5. \A q \in Requests : phase'[q] \in {"calling", "stopped"} =>
            phase[q] \in {"calling", "stopped"}
      BY <1>1, <1>2
    <2>. QED BY <1>1, <2>1, <2>3, <2>4, <2>5 DEF TypeOK, clientVars
  <1>6. AskedIsMeant'
    BY <1>1, <1>2 DEF ThreadInv, AskedIsMeant
  <1>7. \A q \in Requests : phase[q] = "stopped" => phase'[q] = "stopped"
    BY <1>2, <1>3
  <1>8. FollowsInv'
    BY <1>1, <1>4, <1>7 DEF TypeOK, ThreadInv, FollowsInv, clientVars
  <1>9. AskingInv'
    <2>1. \A q \in Requests : phase[q] # "unused" => phase'[q] # "unused"
      BY <1>2, <1>3
    <2>. QED BY <1>1, <2>1 DEF TypeOK, ThreadInv, AskingInv, clientVars
  <1>10. WireInv'
    <2>. SUFFICES ASSUME NEW q \in Requests, phase'[q] = "sent"
         PROVE  IF wire[q].previous = None THEN MeansItself(q) ELSE MeansItsDelta(q)'
      BY <1>1 DEF WireInv, MeansItself
    <2>1. phase[q] = "sent"
      BY <1>2, <1>3
    <2>2. wire[q].previous \in Requests \cup {None}
      BY <2>1 DEF TypeOK, Deltas
    <2>. QED BY <1>1, <1>4, <1>7, <2>1, <2>2 DEF ThreadInv, WireInv, MeansItsDelta
  <1>11. HeldInv'
    <2>1. asked[r] = meant[r]
      BY <1>1 DEF ThreadInv, AskedIsMeant
    <2>. QED BY <1>1, <1>3, <1>4, <1>7, <2>1 DEF TypeOK, ThreadInv, HeldInv
  <1>. QED BY <1>5, <1>6, <1>8, <1>9, <1>10, <1>11 DEF ThreadInv

\* An error ends a request that nobody can follow.
LEMMA FailsPreserves ==
  ASSUME IInv, NEW r \in Requests, Fails(r)
  PROVE  IInv'
  <1>. USE ThreadsAssumption
  <1>. USE DEF IInv
  <1>1. /\ phase[r] \in {"sent", "calling"}
        /\ phase' = [phase EXCEPT ![r] = "failed"]
        /\ UNCHANGED <<clientVars, wire, meant, asked, frames, held>>
    BY DEF Fails
  <1>2. \A q \in Requests : q # r => phase'[q] = phase[q]
    BY <1>1 DEF TypeOK
  <1>3. phase'[r] = "failed"
    BY <1>1 DEF TypeOK
  <1>4. \A q : Reply(q)' = Reply(q)
    BY <1>1 DEF Reply
  <1>5. TypeOK'
    <2>1. phase' \in [Requests -> {"unused", "sent", "calling", "refused", "stopped", "failed"}]
      BY <1>1 DEF TypeOK
    <2>2. \A q \in Requests : phase'[q] # "unused" => phase[q] # "unused"
      BY <1>1, <1>2
    <2>3. \A q \in Requests : phase'[q] \in {"calling", "stopped"} =>
            phase[q] \in {"calling", "stopped"}
      BY <1>2, <1>3
    <2>. QED BY <1>1, <2>1, <2>2, <2>3 DEF TypeOK, clientVars
  <1>6. AskedIsMeant'
    BY <1>1, <1>2, <1>3 DEF ThreadInv, AskedIsMeant
  <1>7. \A q \in Requests : phase[q] = "stopped" => phase'[q] = "stopped"
    BY <1>1, <1>2
  <1>8. FollowsInv'
    BY <1>1, <1>4, <1>7 DEF TypeOK, ThreadInv, FollowsInv, clientVars
  <1>9. AskingInv'
    <2>1. \A q \in Requests : phase[q] # "unused" => phase'[q] # "unused"
      BY <1>2, <1>3
    <2>. QED BY <1>1, <2>1 DEF TypeOK, ThreadInv, AskingInv, clientVars
  <1>10. WireInv'
    <2>. SUFFICES ASSUME NEW q \in Requests, phase'[q] = "sent"
         PROVE  IF wire[q].previous = None THEN MeansItself(q) ELSE MeansItsDelta(q)'
      BY <1>1 DEF WireInv, MeansItself
    <2>1. phase[q] = "sent"
      BY <1>2, <1>3
    <2>2. wire[q].previous \in Requests \cup {None}
      BY <2>1 DEF TypeOK, Deltas
    <2>. QED BY <1>1, <1>4, <1>7, <2>1, <2>2 DEF ThreadInv, WireInv, MeansItsDelta
  <1>11. HeldInv'
    BY <1>1, <1>4, <1>7 DEF TypeOK, ThreadInv, HeldInv
  <1>. QED BY <1>5, <1>6, <1>8, <1>9, <1>10, <1>11 DEF ThreadInv

\* Dropping an entry leaves the others as they are.
LEMMA ForgetPreserves ==
  ASSUME IInv, NEW r \in Requests, Forget(r)
  PROVE  IInv'
  <1>. USE ThreadsAssumption
  <1>. USE DEF IInv
  <1>1. /\ held' = [k \in DOMAIN held \ {r} |-> held[k]]
        /\ UNCHANGED <<clientVars, requestVars>>
    BY DEF Forget
  <1>2. TypeOK'
    BY <1>1 DEF TypeOK, clientVars, requestVars
  <1>3. AskedIsMeant' /\ FollowsInv' /\ AskingInv'
    BY <1>1 DEF ThreadInv, AskedIsMeant, FollowsInv, AskingInv, Reply, clientVars, requestVars
  <1>4. WireInv'
    BY <1>1 DEF ThreadInv, WireInv, MeansItself, MeansItsDelta, Reply, requestVars
  <1>5. HeldInv'
    BY <1>1 DEF ThreadInv, HeldInv, Reply, requestVars
  <1>. QED BY <1>2, <1>3, <1>4, <1>5 DEF ThreadInv

\* The invariant holds in every reachable state.
THEOREM ThreadInvariance == Spec => []IInv
  <1>1. Init => IInv
    BY InitEstablishes
  <1>2. IInv /\ [Next]_vars => IInv'
    <2>. SUFFICES ASSUME IInv, [Next]_vars PROVE IInv'
      OBVIOUS
    <2>1. ASSUME NEW c \in Clients, ClientStep(c) PROVE IInv'
      BY <2>1, SendPreserves, ReceivePreserves, GivesUpPreserves DEF ClientStep
    <2>2. ASSUME NEW r \in Requests, RouterStep(r) PROVE IInv'
      BY <2>2, HandlePreserves, FramePreserves, StopPreserves, FailsPreserves, ForgetPreserves
         DEF RouterStep
    <2>3. CASE UNCHANGED vars
      BY <2>3 DEF vars, clientVars, requestVars, IInv, TypeOK, ThreadInv, AskedIsMeant,
                  FollowsInv, AskingInv, WireInv, MeansItself, MeansItsDelta, HeldInv, Reply
    <2>. QED BY <2>1, <2>2, <2>3 DEF Next
  <1>. QED BY <1>1, <1>2, PTL DEF Spec

\* The upstream is always asked what the client meant: the full request it would
\* have sent without threads, through any sequence of continuations, retries,
\* evictions and cut responses.
THEOREM ContinuationIsFaithful == Spec => []AskedIsMeant
  <1>1. IInv => AskedIsMeant
    BY DEF IInv, ThreadInv
  <1>. QED BY <1>1, ThreadInvariance, PTL
=============================================================================
