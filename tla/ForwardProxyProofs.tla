------------------------- MODULE ForwardProxyProofs -------------------------
(***************************************************************************)
(* Proofs about the forward proxy: a decrypted session keeps its exchange   *)
(* and gives back what it holds, the certificate authority keeps its pair   *)
(* and serves current leaves, and a connection with the session it becomes  *)
(* and the connector they share leaves nothing open, the process ends in    *)
(* order.  PartsInv of MCForwardProxy is the inductive invariant of all.    *)
(***************************************************************************)
EXTENDS MCForwardProxy, TLAPS

-----------------------------------------------------------------------------
(* The stop of the process, for any connections of either listener and both  *)
(* entry points.                                                             *)

\* The invariant holds when both listeners are up.
LEMMA StopBegun == StopInit => StopIInv
BY DEF StopInit, StopIInv, StopTypeOK, StopInv, AsgiRequestsLogged, Conns

-----------------------------------------------------------------------------
(* Connections keep the invariant of the stop.                               *)

\* Only a listener that still serves accepts.
LEMMA AcceptKeepsInv ==
    ASSUME StopIInv, NEW c \in Conns, AcceptConn(c)
    PROVE  StopIInv'
<1>1. StopTypeOK'
  BY DEF StopIInv, StopTypeOK, AcceptConn, listenerVars
<1>2. /\ c \in AsgiConns => asgi = "serving"
      /\ c \in ProxyConns => proxy = "serving"
  BY ConnsAssumption DEF AcceptConn
<1>3. \A d \in Conns : d # c => handler'[d] = handler[d]
  BY DEF StopIInv, StopTypeOK, AcceptConn
<1>4. StopInv'
  BY <1>2, <1>3 DEF StopIInv, StopTypeOK, StopInv, AcceptConn, listenerVars, Conns
<1>. QED BY <1>1, <1>4 DEF StopIInv, AsgiRequestsLogged, AcceptConn

\* Only a running handler takes a request.
LEMMA BeginKeepsInv ==
    ASSUME StopIInv, NEW c \in Conns, Begin(c)
    PROVE  StopIInv'
<1>1. StopTypeOK'
  BY DEF StopIInv, StopTypeOK, Begin, listenerVars
<1>2. StopInv'
  BY DEF StopIInv, StopTypeOK, StopInv, Begin, listenerVars
<1>. QED BY <1>1, <1>2 DEF StopIInv, AsgiRequestsLogged, Begin

\* A request that finishes late is one of the proxy.
LEMMA FinishedKeepsLog ==
    ASSUME StopIInv, NEW C \in SUBSET Conns, Finished(C)
    PROVE  busy' \in [Conns -> BOOLEAN] /\ unlogged' \subseteq Conns /\ AsgiRequestsLogged'
<1>1. busy' \in [Conns -> BOOLEAN] /\ unlogged' \subseteq Conns
  BY DEF StopIInv, StopTypeOK, Finished
<1>2. \A c \in AsgiConns : busy[c] => store # "detached"
  BY DEF StopIInv, StopInv, Conns
<1>. QED BY <1>1, <1>2 DEF StopIInv, AsgiRequestsLogged, Finished

\* A request that finishes keeps the invariant.
LEMMA FinishKeepsInv ==
    ASSUME StopIInv, NEW c \in Conns, Finish(c)
    PROVE  StopIInv'
<1>1. /\ busy' \in [Conns -> BOOLEAN] /\ unlogged' \subseteq Conns /\ AsgiRequestsLogged'
      /\ \A d \in Conns : busy'[d] => busy[d]
  BY FinishedKeepsLog DEF Finish, Finished
<1>2. StopTypeOK'
  BY <1>1 DEF StopIInv, StopTypeOK, Finish, listenerVars
<1>3. StopInv'
  BY <1>1 DEF StopIInv, StopInv, Finish, listenerVars
<1>. QED BY <1>1, <1>2, <1>3 DEF StopIInv

\* So does a client that leaves,
LEMMA ClientLeavesKeepsInv ==
    ASSUME StopIInv, NEW c \in Conns, PeerLeaves(c)
    PROVE  StopIInv'
<1>1. StopTypeOK'
  BY DEF StopIInv, StopTypeOK, PeerLeaves, listenerVars
<1>2. StopInv'
  BY DEF StopIInv, StopInv, PeerLeaves, listenerVars
<1>. QED BY <1>1, <1>2 DEF StopIInv, AsgiRequestsLogged, PeerLeaves

\* and a handler that ends.
LEMMA HandlerEndsKeepsInv ==
    ASSUME StopIInv, NEW c \in Conns, HandlerEnds(c)
    PROVE  StopIInv'
<1>1. StopTypeOK'
  BY DEF StopIInv, StopTypeOK, HandlerEnds, listenerVars
<1>2. \A d \in Conns : handler'[d] = "running" <=> (handler[d] = "running" /\ d # c)
  BY DEF StopIInv, StopTypeOK, HandlerEnds
<1>3. StopInv'
  BY <1>2 DEF StopIInv, StopTypeOK, StopInv, HandlerEnds, listenerVars, Conns
<1>. QED BY <1>1, <1>3 DEF StopIInv, AsgiRequestsLogged, HandlerEnds

-----------------------------------------------------------------------------
(* Stopping keeps it.                                                        *)

\* The steps that move a listener and no connection.
LEMMA ListenersKeepInv ==
    ASSUME StopIInv, StopSignal \/ AsgiStep \/ ProxyStops \/ ServerClosed \/ Drained \/ GroupDone
    PROVE  StopIInv'
<1>1. StopTypeOK'
  BY DEF StopIInv, StopTypeOK, StopSignal, AsgiStep, AsgiStops, AsgiDrained, LifespanEnds, ProxyStops,
         ServerClosed, Drained, ProxyDone, GroupDone, listenerVars, connVars
<1>2. handler' = handler /\ busy' = busy /\ unlogged' = unlogged
  BY DEF StopSignal, AsgiStep, AsgiStops, AsgiDrained, LifespanEnds, ProxyStops,
         ServerClosed, Drained, ProxyDone, GroupDone, listenerVars, connVars
<1>3. StopInv'
  <2>1. CASE StopSignal
    BY <1>2, <2>1 DEF StopIInv, StopInv, StopSignal
  <2>2. CASE AsgiStep
    BY <1>2, <2>2 DEF StopIInv, StopInv, AsgiStep, AsgiStops, AsgiDrained, LifespanEnds
  <2>3. CASE ProxyStops \/ ServerClosed
    BY <1>2, <2>3 DEF StopIInv, StopInv, ProxyStops, ServerClosed
  <2>4. CASE Drained
    <3>1. registry' = "closed" \/ process' = "ended" => asgi = "done"
      BY <2>4 DEF StopIInv, StopInv, Drained, ProxyDone, StopTypeOK
    <3>. QED BY <1>2, <2>4, <3>1 DEF StopIInv, StopInv, Drained, ProxyDone
  <2>5. CASE GroupDone
    BY <1>2, <2>5 DEF StopIInv, StopInv, GroupDone, listenerVars
  <2>. QED BY <2>1, <2>2, <2>3, <2>4, <2>5
<1>. QED BY <1>1, <1>2, <1>3 DEF StopIInv, AsgiRequestsLogged

\* The deadline cancels what still runs.
LEMMA DeadlineKeepsInv ==
    ASSUME StopIInv, DrainDeadline
    PROVE  StopIInv'
<1>1. /\ busy' \in [Conns -> BOOLEAN] /\ unlogged' \subseteq Conns /\ AsgiRequestsLogged'
      /\ \A d \in Conns : busy'[d] => busy[d] /\ d \notin ProxyConns
  BY FinishedKeepsLog DEF DrainDeadline, Finished, Conns
<1>2. /\ handler' \in [Conns -> {"none", "running", "done"}]
      /\ \A d \in Conns : handler'[d] = "running" <=> (handler[d] = "running" /\ d \notin ProxyConns)
  BY DEF StopIInv, StopTypeOK, DrainDeadline
<1>3. StopTypeOK'
  BY <1>1, <1>2 DEF StopIInv, StopTypeOK, DrainDeadline, ProxyDone
<1>4. StopInv'
  <2>1. registry' = "closed" \/ process' = "ended" => asgi = "done"
    BY DEF StopIInv, StopInv, DrainDeadline, ProxyDone, StopTypeOK
  <2>2. /\ proxy' = "done" /\ asgi' = asgi /\ store' = store /\ combined' = combined
        /\ ProxyConns \subseteq Conns /\ AsgiConns \subseteq Conns
    BY DEF DrainDeadline, ProxyDone, Conns
  <2>3. \A d \in Conns : busy'[d] => handler'[d] = "running"
    BY <1>1, <1>2 DEF StopIInv, StopInv
  <2>. QED BY <1>2, <2>1, <2>2, <2>3 DEF StopIInv, StopInv
<1>. QED BY <1>1, <1>3, <1>4 DEF StopIInv

\* Every step keeps the invariant.
LEMMA NextKeepsInv ==
    ASSUME StopIInv, [StopNext]_stopVars
    PROVE  StopIInv'
<1>1. CASE StopSignal \/ AsgiStep \/ ProxyStops \/ ServerClosed \/ Drained \/ GroupDone
  BY <1>1, ListenersKeepInv
<1>2. CASE DrainDeadline
  BY <1>2, DeadlineKeepsInv
<1>3. ASSUME NEW c \in Conns, ClientStep(c) \/ ConnStep(c)
      PROVE  StopIInv'
  BY <1>3, AcceptKeepsInv, BeginKeepsInv, ClientLeavesKeepsInv, FinishKeepsInv, HandlerEndsKeepsInv
     DEF ClientStep, ConnStep
<1>4. CASE UNCHANGED stopVars
  BY <1>4 DEF StopIInv, StopTypeOK, StopInv, AsgiRequestsLogged, stopVars, listenerVars, connVars
<1>. QED BY <1>1, <1>2, <1>3, <1>4 DEF StopNext, ProxyStep

\* The inductive invariant of the stop holds in every reachable state.
THEOREM StopInvariance == StopSpec => []StopIInv
<1>1. StopInit => StopIInv
  BY StopBegun
<1>2. StopIInv /\ [StopNext]_stopVars => StopIInv'
  BY NextKeepsInv
<1>. QED BY <1>1, <1>2, PTL DEF StopSpec

\* With either entry point and in whatever order the listeners end, the providers' HTTP
\* clients are never closed under a request and the process never ends under a handler.
THEOREM EndIsOrdered == StopSpec => []EndsInOrder
<1>1. StopIInv => RegistryOpenWhileUsed
  BY DEF StopIInv, StopTypeOK, StopInv, RegistryOpenWhileUsed, Conns
<1>2. StopIInv => NoHandlerAtEnd
  BY DEF StopIInv, StopInv, NoHandlerAtEnd, Conns
<1>3. StopIInv => EndsInOrder
  BY <1>1, <1>2 DEF EndsInOrder
<1>. QED BY <1>3, StopInvariance, PTL

\* Every request of the ASGI listener is written to the log its lifespan owns.
THEOREM AsgiLogIsComplete == StopSpec => []AsgiRequestsLogged
<1>1. StopIInv => AsgiRequestsLogged
  BY DEF StopIInv
<1>. QED BY <1>1, StopInvariance, PTL

-----------------------------------------------------------------------------
(* The session.                                                            *)

\* A session begins with its invariant.
LEMMA SessionBegun == Init => SessionInv
BY DEF Init, SessionInv, TypeOK, TurnInv, WorkInv, Over, Kinds

\* A request that is read keeps it.
LEMMA ReadKeepsInv ==
    ASSUME SessionInv, ReadStep
    PROVE  SessionInv'
<1>1. ASSUME NEW k \in Kinds, NEW alive \in BOOLEAN, RequestArrives(k, alive)
      PROVE  SessionInv'
  BY <1>1 DEF SessionInv, TypeOK, TurnInv, WorkInv, RequestArrives, workVars, Goto, Over, Kinds
<1>2. CASE ReadTimeout
  BY <1>2 DEF SessionInv, TypeOK, TurnInv, WorkInv, ReadTimeout, h11Vars, workVars, Goto, Over,
     Kinds
<1>3. CASE ReadMalformed
  BY <1>3 DEF SessionInv, TypeOK, TurnInv, WorkInv, ReadMalformed, workVars, Goto, Over, Kinds
<1>4. CASE ReadEof \/ ReadReset
  BY <1>4 DEF SessionInv, TypeOK, TurnInv, WorkInv, ReadEof, ReadReset, h11Vars, workVars, Goto,
     Over, Kinds
<1>. QED BY <1>1, <1>2, <1>3, <1>4 DEF ReadStep

\* The reads of a body or of an answer keep it.
LEMMA BytesKeepInv ==
    ASSUME SessionInv, ReadBegins \/ BytesArrive
    PROVE  SessionInv'
BY DEF SessionInv, TypeOK, TurnInv, WorkInv, ReadBegins, BytesArrive, h11Vars, workVars, Over, Kinds

\* The steps of a routed request keep it.
LEMMA RoutedKeepsInv ==
    ASSUME SessionInv, BodyComplete \/ BodyFails \/ NoModel \/ ProviderAnswers \/ ProviderStreams \/ ProviderRaises
    PROVE  SessionInv'
<1>1. CASE BodyComplete
  BY <1>1 DEF SessionInv, TypeOK, TurnInv, WorkInv, BodyComplete, workVars, Goto, Over, Kinds
<1>2. CASE BodyFails
  BY <1>2 DEF SessionInv, TypeOK, TurnInv, WorkInv, BodyFails, Goto, Raise, Released, Accounted,
     UpClosed, Over, Kinds
<1>3. CASE NoModel
  BY <1>3 DEF SessionInv, TypeOK, TurnInv, WorkInv, NoModel, h11Vars, workVars, Goto, Over,
     Kinds
<1>4. CASE ProviderAnswers
  BY <1>4 DEF SessionInv, TypeOK, TurnInv, WorkInv, ProviderAnswers, h11Vars, Goto, Over, Kinds
<1>5. CASE ProviderStreams
  BY <1>5 DEF SessionInv, TypeOK, TurnInv, WorkInv, ProviderStreams, h11Vars, Goto, Over, Kinds
<1>6. CASE ProviderRaises
  BY <1>6 DEF SessionInv, TypeOK, TurnInv, WorkInv, ProviderRaises, h11Vars, Goto, Over, Kinds
<1>. QED BY <1>1, <1>2, <1>3, <1>4, <1>5, <1>6

\* The steps of a forwarded request and of a protocol switch keep it.
LEMMA UpstreamKeepsInv ==
    ASSUME SessionInv, OpenFails \/ Opened \/ UpstreamFails \/ ResponseArrives \/ SwitchWritten \/ SwitchFails \/ TunnelEnds
    PROVE  SessionInv'
<1>1. CASE OpenFails
  BY <1>1 DEF SessionInv, TypeOK, TurnInv, WorkInv, OpenFails, h11Vars, Goto, Raise, Released,
     Accounted, UpClosed, Over, Kinds
<1>2. CASE Opened
  BY <1>2 DEF SessionInv, TypeOK, TurnInv, WorkInv, Opened, h11Vars, Goto, Over, Kinds
<1>3. CASE UpstreamFails
  BY <1>3 DEF SessionInv, TypeOK, TurnInv, WorkInv, UpstreamFails, h11Vars, Goto, Raise,
     Released, Accounted, UpClosed, Over, Kinds
<1>4. CASE ResponseArrives
  BY <1>4 DEF SessionInv, TypeOK, TurnInv, WorkInv, ResponseArrives, h11Vars, Goto, Over, Kinds
<1>5. CASE SwitchWritten
  BY <1>5 DEF SessionInv, TypeOK, TurnInv, WorkInv, SwitchWritten, h11Vars, workVars, Goto,
     Over, Kinds
<1>6. CASE SwitchFails
  BY <1>6 DEF SessionInv, TypeOK, TurnInv, WorkInv, SwitchFails, h11Vars, workVars, Goto, Over,
     Kinds
<1>7. CASE TunnelEnds
  BY <1>7 DEF SessionInv, TypeOK, TurnInv, WorkInv, TunnelEnds, h11Vars, Goto, Over, Kinds
<1>. QED BY <1>1, <1>2, <1>3, <1>4, <1>5, <1>6, <1>7

\* The steps that send the response keep it.
LEMMA SendingKeepsInv ==
    ASSUME SessionInv, SendHead \/ SendBody \/ SourceEnds \/ SourceBreaks \/ SendFails \/ ReleaseResult \/ SendEnd \/ Fail
    PROVE  SessionInv'
<1>1. CASE SendHead
  BY <1>1 DEF SessionInv, TypeOK, TurnInv, WorkInv, SendHead, Goto, Raise, Released, Accounted,
     UpClosed, Over, Kinds
<1>2. CASE SendBody
  BY <1>2 DEF SessionInv, TypeOK, TurnInv, WorkInv, SendBody, h11Vars, workVars, Goto, Over,
     Kinds
<1>3. CASE SourceEnds
  BY <1>3 DEF SessionInv, TypeOK, TurnInv, WorkInv, SourceEnds, h11Vars, Goto, Over, Kinds
<1>4. CASE SourceBreaks
  BY <1>4 DEF SessionInv, TypeOK, TurnInv, WorkInv, SourceBreaks, h11Vars, Goto, Raise,
     Released, Accounted, UpClosed, Over, Kinds
<1>5. CASE SendFails
  BY <1>5 DEF SessionInv, TypeOK, TurnInv, WorkInv, SendFails, h11Vars, Goto, Raise, Released,
     Accounted, UpClosed, Over, Kinds
<1>6. CASE ReleaseResult
  BY <1>6 DEF SessionInv, TypeOK, TurnInv, WorkInv, ReleaseResult, h11Vars, Goto, Over, Kinds
<1>7. CASE SendEnd
  BY <1>7 DEF SessionInv, TypeOK, TurnInv, WorkInv, SendEnd, Goto, Raise, Released, Accounted,
     UpClosed, Ended, Over, Kinds
<1>8. CASE Fail
  BY <1>8 DEF SessionInv, TypeOK, TurnInv, WorkInv, Fail, h11Vars, workVars, Goto, Over, Kinds
<1>. QED BY <1>1, <1>2, <1>3, <1>4, <1>5, <1>6, <1>7, <1>8

\* The next turn, the end of the session and a client that leaves keep it.
LEMMA TurnsKeepInv ==
    ASSUME SessionInv, NextCycle \/ EndSession \/ Cancelled \/ ClientLeaves
    PROVE  SessionInv'
<1>1. CASE NextCycle
  BY <1>1 DEF SessionInv, TypeOK, TurnInv, WorkInv, NextCycle, Goto, Over, Kinds
<1>2. CASE EndSession
  BY <1>2 DEF SessionInv, TypeOK, TurnInv, WorkInv, EndSession, h11Vars, workVars, Goto, Over,
     Kinds
<1>3. CASE Cancelled
  BY <1>3 DEF SessionInv, TypeOK, TurnInv, WorkInv, Cancelled, h11Vars, Goto, Released,
     Accounted, UpClosed, Over, Kinds
<1>4. CASE ClientLeaves
  BY <1>4 DEF SessionInv, TypeOK, TurnInv, WorkInv, ClientLeaves, h11Vars, workVars, Over, Kinds
<1>. QED BY <1>1, <1>2, <1>3, <1>4

\* Every step of the session keeps its inductive invariant.
LEMMA SessionKeepsInv ==
    ASSUME SessionInv, [Next]_vars
    PROVE  SessionInv'
<1>1. CASE UNCHANGED vars
  BY <1>1 DEF vars, SessionInv, TypeOK, TurnInv, WorkInv
<1>2. CASE Next
  BY <1>2, ReadKeepsInv, BytesKeepInv, RoutedKeepsInv, UpstreamKeepsInv, SendingKeepsInv, TurnsKeepInv
     DEF Next, Failures, OtherSides, OwnStep
<1>. QED BY <1>1, <1>2

\* In every reachable state of a session, its inductive invariant.
THEOREM SessionInvariance == Spec => []SessionInv
<1>. QED BY SessionBegun, SessionKeepsInv, PTL DEF Spec

\* Between two requests nothing of the last one is left.
THEOREM RequestsStartClean == Spec => []NextStartsClean
<1>1. SessionInv => NextStartsClean
  BY DEF SessionInv, TurnInv, WorkInv, NextStartsClean
<1>. QED BY <1>1, SessionInvariance, PTL

\* However the session ends, what it held has been given back.
THEOREM SessionEndsClean == Spec => []NothingHeldAtEnd
<1>1. SessionInv => NothingHeldAtEnd
  BY DEF SessionInv, TurnInv, WorkInv, NothingHeldAtEnd, Over
<1>. QED BY <1>1, SessionInvariance, PTL

\* A step of the session is one of the exchange it promises, or a stutter.
LEMMA StepIsExchanged ==
    ASSUME SessionInv, [Next]_vars
    PROVE  [Exchange!Next]_Exchange!vars
<1>0. CASE UNCHANGED vars
  BY <1>0 DEF vars, Exchange!vars
<1>1. ASSUME NEW k \in Kinds, NEW alive \in BOOLEAN, RequestArrives(k, alive)
      PROVE  Exchange!Request
  BY <1>1 DEF SessionInv, TypeOK, TurnInv, WorkInv, RequestArrives, workVars, Goto, Over, Kinds,
     Exchange!Next, Exchange!vars, Exchange!Request, Exchange!Consume, Exchange!Answer,
     Exchange!Break, Exchange!Finish, Exchange!Reuse, Exchange!Close
<1>2. CASE ReadTimeout
  BY <1>2 DEF SessionInv, TypeOK, TurnInv, WorkInv, ReadTimeout, h11Vars, workVars, Goto, Over,
     Kinds, Exchange!Next, Exchange!vars, Exchange!Request, Exchange!Consume, Exchange!Answer,
     Exchange!Break, Exchange!Finish, Exchange!Reuse, Exchange!Close
<1>3. CASE ReadMalformed
  BY <1>3 DEF SessionInv, TypeOK, TurnInv, WorkInv, ReadMalformed, workVars, Goto, Over, Kinds,
     Exchange!Next, Exchange!vars, Exchange!Request, Exchange!Consume, Exchange!Answer,
     Exchange!Break, Exchange!Finish, Exchange!Reuse, Exchange!Close
<1>4. CASE ReadEof
  BY <1>4 DEF SessionInv, TypeOK, TurnInv, WorkInv, ReadEof, workVars, Goto, Over, Kinds,
     Exchange!Next, Exchange!vars, Exchange!Request, Exchange!Consume, Exchange!Answer,
     Exchange!Break, Exchange!Finish, Exchange!Reuse, Exchange!Close
<1>5. CASE ReadReset
  BY <1>5 DEF SessionInv, TypeOK, TurnInv, WorkInv, ReadReset, h11Vars, workVars, Goto, Over,
     Kinds, Exchange!Next, Exchange!vars, Exchange!Request, Exchange!Consume, Exchange!Answer,
     Exchange!Break, Exchange!Finish, Exchange!Reuse, Exchange!Close
<1>6. CASE BodyComplete
  BY <1>6 DEF SessionInv, TypeOK, TurnInv, WorkInv, BodyComplete, workVars, Goto, Over, Kinds,
     Exchange!Next, Exchange!vars, Exchange!Request, Exchange!Consume, Exchange!Answer,
     Exchange!Break, Exchange!Finish, Exchange!Reuse, Exchange!Close
<1>7. CASE BodyFails
  BY <1>7 DEF SessionInv, TypeOK, TurnInv, WorkInv, BodyFails, Goto, Raise, Released, Accounted,
     UpClosed, Over, Kinds, Exchange!Next, Exchange!vars, Exchange!Request, Exchange!Consume,
     Exchange!Answer, Exchange!Break, Exchange!Finish, Exchange!Reuse, Exchange!Close
<1>8. CASE NoModel
  BY <1>8 DEF SessionInv, TypeOK, TurnInv, WorkInv, NoModel, h11Vars, workVars, Goto, Over,
     Kinds, Exchange!Next, Exchange!vars, Exchange!Request, Exchange!Consume, Exchange!Answer,
     Exchange!Break, Exchange!Finish, Exchange!Reuse, Exchange!Close
<1>9. CASE ProviderAnswers
  BY <1>9 DEF SessionInv, TypeOK, TurnInv, WorkInv, ProviderAnswers, h11Vars, Goto, Over, Kinds,
     Exchange!Next, Exchange!vars, Exchange!Request, Exchange!Consume, Exchange!Answer,
     Exchange!Break, Exchange!Finish, Exchange!Reuse, Exchange!Close
<1>10. CASE ProviderStreams
  BY <1>10 DEF SessionInv, TypeOK, TurnInv, WorkInv, ProviderStreams, h11Vars, Goto, Over,
     Kinds, Exchange!Next, Exchange!vars, Exchange!Request, Exchange!Consume, Exchange!Answer,
     Exchange!Break, Exchange!Finish, Exchange!Reuse, Exchange!Close
<1>11. CASE ProviderRaises
  BY <1>11 DEF SessionInv, TypeOK, TurnInv, WorkInv, ProviderRaises, h11Vars, Goto, Over, Kinds,
     Exchange!Next, Exchange!vars, Exchange!Request, Exchange!Consume, Exchange!Answer,
     Exchange!Break, Exchange!Finish, Exchange!Reuse, Exchange!Close
<1>12. CASE OpenFails
  BY <1>12 DEF SessionInv, TypeOK, TurnInv, WorkInv, OpenFails, h11Vars, Goto, Raise, Released,
     Accounted, UpClosed, Over, Kinds, Exchange!Next, Exchange!vars, Exchange!Request,
     Exchange!Consume, Exchange!Answer, Exchange!Break, Exchange!Finish, Exchange!Reuse,
     Exchange!Close
<1>13. CASE Opened
  BY <1>13 DEF SessionInv, TypeOK, TurnInv, WorkInv, Opened, h11Vars, Goto, Over, Kinds,
     Exchange!Next, Exchange!vars, Exchange!Request, Exchange!Consume, Exchange!Answer,
     Exchange!Break, Exchange!Finish, Exchange!Reuse, Exchange!Close
<1>14. CASE UpstreamFails
  BY <1>14 DEF SessionInv, TypeOK, TurnInv, WorkInv, UpstreamFails, h11Vars, Goto, Raise,
     Released, Accounted, UpClosed, Over, Kinds, Exchange!Next, Exchange!vars, Exchange!Request,
     Exchange!Consume, Exchange!Answer, Exchange!Break, Exchange!Finish, Exchange!Reuse,
     Exchange!Close
<1>15. CASE ResponseArrives
  BY <1>15 DEF SessionInv, TypeOK, TurnInv, WorkInv, ResponseArrives, h11Vars, Goto, Over,
     Kinds, Exchange!Next, Exchange!vars, Exchange!Request, Exchange!Consume, Exchange!Answer,
     Exchange!Break, Exchange!Finish, Exchange!Reuse, Exchange!Close
<1>16. CASE SwitchWritten
  BY <1>16 DEF SessionInv, TypeOK, TurnInv, WorkInv, SwitchWritten, h11Vars, workVars, Goto,
     Over, Kinds, Exchange!Next, Exchange!vars, Exchange!Request, Exchange!Consume,
     Exchange!Answer, Exchange!Break, Exchange!Finish, Exchange!Reuse, Exchange!Close
<1>17. CASE SwitchFails
  BY <1>17 DEF SessionInv, TypeOK, TurnInv, WorkInv, SwitchFails, h11Vars, workVars, Goto, Over,
     Kinds, Exchange!Next, Exchange!vars, Exchange!Request, Exchange!Consume, Exchange!Answer,
     Exchange!Break, Exchange!Finish, Exchange!Reuse, Exchange!Close
<1>18. CASE TunnelEnds
  BY <1>18 DEF SessionInv, TypeOK, TurnInv, WorkInv, TunnelEnds, h11Vars, Goto, Over, Kinds,
     Exchange!Next, Exchange!vars, Exchange!Request, Exchange!Consume, Exchange!Answer,
     Exchange!Break, Exchange!Finish, Exchange!Reuse, Exchange!Close
<1>19. CASE SendHead
  BY <1>19 DEF SessionInv, TypeOK, TurnInv, WorkInv, SendHead, Goto, Raise, Released, Accounted,
     UpClosed, Over, Kinds, Exchange!Next, Exchange!vars, Exchange!Request, Exchange!Consume,
     Exchange!Answer, Exchange!Break, Exchange!Finish, Exchange!Reuse, Exchange!Close
<1>20. CASE SendBody
  BY <1>20 DEF SessionInv, TypeOK, TurnInv, WorkInv, SendBody, h11Vars, workVars, Goto, Over,
     Kinds, Exchange!Next, Exchange!vars, Exchange!Request, Exchange!Consume, Exchange!Answer,
     Exchange!Break, Exchange!Finish, Exchange!Reuse, Exchange!Close
<1>21. CASE SourceEnds
  BY <1>21 DEF SessionInv, TypeOK, TurnInv, WorkInv, SourceEnds, h11Vars, Goto, Over, Kinds,
     Exchange!Next, Exchange!vars, Exchange!Request, Exchange!Consume, Exchange!Answer,
     Exchange!Break, Exchange!Finish, Exchange!Reuse, Exchange!Close
<1>22. CASE SourceBreaks
  BY <1>22 DEF SessionInv, TypeOK, TurnInv, WorkInv, SourceBreaks, h11Vars, Goto, Raise,
     Released, Accounted, UpClosed, Over, Kinds, Exchange!Next, Exchange!vars, Exchange!Request,
     Exchange!Consume, Exchange!Answer, Exchange!Break, Exchange!Finish, Exchange!Reuse,
     Exchange!Close
<1>23. CASE SendFails
  BY <1>23 DEF SessionInv, TypeOK, TurnInv, WorkInv, SendFails, h11Vars, Goto, Raise, Released,
     Accounted, UpClosed, Over, Kinds, Exchange!Next, Exchange!vars, Exchange!Request,
     Exchange!Consume, Exchange!Answer, Exchange!Break, Exchange!Finish, Exchange!Reuse,
     Exchange!Close
<1>24. CASE ReleaseResult
  BY <1>24 DEF SessionInv, TypeOK, TurnInv, WorkInv, ReleaseResult, h11Vars, Goto, Over, Kinds,
     Exchange!Next, Exchange!vars, Exchange!Request, Exchange!Consume, Exchange!Answer,
     Exchange!Break, Exchange!Finish, Exchange!Reuse, Exchange!Close
<1>25. CASE SendEnd
  BY <1>25 DEF SessionInv, TypeOK, TurnInv, WorkInv, SendEnd, Goto, Raise, Released, Accounted,
     UpClosed, Ended, Over, Kinds, Exchange!Next, Exchange!vars, Exchange!Request,
     Exchange!Consume, Exchange!Answer, Exchange!Break, Exchange!Finish, Exchange!Reuse,
     Exchange!Close
<1>26. CASE Fail
  BY <1>26 DEF SessionInv, TypeOK, TurnInv, WorkInv, Fail, h11Vars, workVars, Goto, Over, Kinds,
     Exchange!Next, Exchange!vars, Exchange!Request, Exchange!Consume, Exchange!Answer,
     Exchange!Break, Exchange!Finish, Exchange!Reuse, Exchange!Close
<1>27. CASE NextCycle
  BY <1>27 DEF SessionInv, TypeOK, TurnInv, WorkInv, NextCycle, Goto, Over, Kinds,
     Exchange!Next, Exchange!vars, Exchange!Request, Exchange!Consume, Exchange!Answer,
     Exchange!Break, Exchange!Finish, Exchange!Reuse, Exchange!Close
<1>28. CASE EndSession
  BY <1>28 DEF SessionInv, TypeOK, TurnInv, WorkInv, EndSession, h11Vars, workVars, Goto, Over,
     Kinds, Exchange!Next, Exchange!vars, Exchange!Request, Exchange!Consume, Exchange!Answer,
     Exchange!Break, Exchange!Finish, Exchange!Reuse, Exchange!Close
<1>29. CASE Cancelled
  BY <1>29 DEF SessionInv, TypeOK, TurnInv, WorkInv, Cancelled, h11Vars, Goto, Released,
     Accounted, UpClosed, Over, Kinds, Exchange!Next, Exchange!vars, Exchange!Request,
     Exchange!Consume, Exchange!Answer, Exchange!Break, Exchange!Finish, Exchange!Reuse,
     Exchange!Close
<1>30. CASE ClientLeaves
  BY <1>30 DEF SessionInv, TypeOK, TurnInv, WorkInv, ClientLeaves, h11Vars, workVars, Over,
     Kinds, Exchange!Next, Exchange!vars, Exchange!Request, Exchange!Consume, Exchange!Answer,
     Exchange!Break, Exchange!Finish, Exchange!Reuse, Exchange!Close
<1>31. CASE ReadBegins \/ BytesArrive
  BY <1>31 DEF ReadBegins, BytesArrive, h11Vars, workVars, Exchange!vars
<1>. QED BY <1>0, <1>1, <1>2, <1>3, <1>4, <1>5, <1>6, <1>7, <1>8, <1>9, <1>10, <1>11, <1>12,
    <1>13, <1>14, <1>15, <1>16, <1>17, <1>18, <1>19, <1>20, <1>21, <1>22, <1>23, <1>24, <1>25,
    <1>26, <1>27, <1>28, <1>29, <1>30, <1>31 DEF Next, ReadStep, Failures, OtherSides, OwnStep,
    Exchange!Next

\* A client of the session gets one response per request, ended only if its source was,
\* and its connection is used again only when both sides are done with it.
THEOREM ExchangeIsKept == Spec => KeepsExchange
<1>1. Init => Exchange!Init
  BY DEF Init, Exchange!Init, Over
<1>. QED BY <1>1, SessionInvariance, StepIsExchanged, PTL DEF Spec, KeepsExchange, Exchange!Spec

-----------------------------------------------------------------------------
(* The certificate authority.                                              *)

\* An authority that was never started has its invariant.
LEMMA AuthorityBegun == AuthorityInit => AuthorityInv
BY AuthorityAssumption DEF AuthorityInit, AuthorityInv, DiskInv, PairMatches, LeafInv,
   ContextIsCurrent, LastsUntil, ExpiringSoon, AuthorityTypeOK, File, Leaf, Calls, Unasked

\* A file that is there.
LEMMA FileIsRecord ==
    ASSUME NEW f \in File, f # Missing
    PROVE  /\ f.generation \in 1..MaxBoots /\ f.whole \in BOOLEAN
           /\ f = [generation |-> f.generation, whole |-> f.whole]
BY DEF File

\* The same file once it is written to its end.
LEMMA FileFinished ==
    ASSUME NEW f, f \in [generation : 1..MaxBoots, whole : BOOLEAN],
           NEW h, h = [f EXCEPT !.whole = TRUE]
    PROVE  h = [generation |-> f.generation, whole |-> TRUE]
<1>1. h \in [generation : 1..MaxBoots, whole : BOOLEAN]
  OBVIOUS
<1>2. h.whole = TRUE
  OBVIOUS
<1>3. h.generation = f.generation
  OBVIOUS
<1>4. h = [generation |-> h.generation, whole |-> h.whole]
  BY <1>1
<1>. QED BY <1>2, <1>3, <1>4

\* A record that a writer leaves on disk is a file.
LEMMA RecordIsFile ==
    ASSUME NEW g \in 1..MaxBoots, NEW w \in BOOLEAN
    PROVE  /\ [generation |-> g, whole |-> w] \in File
           /\ [generation |-> g, whole |-> w] # Missing
<1>1. g \in Nat
  BY AuthorityAssumption
<1>. QED BY <1>1, AuthorityAssumption DEF File

\* A step that leaves the calls and the clock alone keeps what is said of them.
LEMMA LeavesStay ==
    ASSUME AuthorityInv, UNCHANGED <<contextVars, clock>>
    PROVE  LeafInv' /\ ContextIsCurrent'
BY DEF AuthorityInv, LeafInv, LastsUntil, ContextIsCurrent, ExpiringSoon, contextVars

\* A step that leaves the files and the process alone keeps what is said of them.
LEMMA DiskStays ==
    ASSUME AuthorityInv, UNCHANGED diskVars
    PROVE  DiskInv' /\ PairMatches'
BY DEF AuthorityInv, DiskInv, PairMatches, diskVars

\* A start and the writes of the pair keep the invariant: only a start without a
\* certificate generates a pair.
LEMMA BootKeepsInv ==
    ASSUME AuthorityInv, Boot
    PROVE  AuthorityInv'
<1>. USE DEF Boot, BootWriting, AuthorityInv
<1>1. CASE keyFile # Missing /\ certFile # Missing
  <2>1. UNCHANGED <<keyFile, certFile, contextVars, clock>> /\ boots' = boots + 1
    BY <1>1
  <2>2. /\ keyFile = [generation |-> certFile.generation, whole |-> TRUE]
        /\ certFile.generation \in 1..MaxBoots
        /\ certFile = [generation |-> certFile.generation, whole |-> certFile.whole]
    BY <1>1, FileIsRecord DEF DiskInv, AuthorityTypeOK
  <2>3. keyFile.whole = TRUE /\ keyFile.generation = certFile.generation
    BY <2>2
  <2>4. CASE certFile.whole
    <3>1. boot' = "up"
          /\ pair' = [certificate |-> certFile.generation, key |-> certFile.generation]
      BY <1>1, <2>3, <2>4
    <3>2. certFile = [generation |-> certFile.generation, whole |-> TRUE]
      BY <2>2, <2>4
    <3>3. DiskInv' /\ PairMatches'
      BY <2>1, <2>2, <3>1, <3>2 DEF DiskInv, PairMatches
    <3>4. AuthorityTypeOK'
      BY <2>1, <2>2, <3>1, AuthorityAssumption DEF AuthorityTypeOK, contextVars
    <3>. QED BY <2>1, <3>3, <3>4, LeavesStay
  <2>5. CASE ~certFile.whole
    <3>1. boot' = "refused" /\ pair' = Missing
      BY <1>1, <2>5
    <3>2. DiskInv' /\ PairMatches'
      BY <2>1, <2>2, <3>1 DEF DiskInv, PairMatches
    <3>3. AuthorityTypeOK'
      BY <2>1, <3>1, AuthorityAssumption DEF AuthorityTypeOK, contextVars
    <3>. QED BY <2>1, <3>2, <3>3, LeavesStay
  <2>. QED BY <2>4, <2>5
<1>2. CASE ~(keyFile # Missing /\ certFile # Missing)
  <2>1. /\ UNCHANGED <<certFile, contextVars, clock>>
        /\ boot' = "key" /\ boots' = boots + 1
        /\ pair' = [certificate |-> boots', key |-> boots']
        /\ keyFile' = [generation |-> boots', whole |-> FALSE]
    BY <1>2 DEF NewKey
  <2>2. boots' \in 1..MaxBoots
    BY <2>1, AuthorityAssumption DEF AuthorityTypeOK
  <2>3. certFile = Missing
    BY <1>2, RecordIsFile, FileIsRecord DEF DiskInv, AuthorityTypeOK
  <2>4. pair' # Missing
    BY <2>1, <2>2, AuthorityAssumption
  <2>5. DiskInv' /\ PairMatches'
    BY <2>1, <2>3, <2>4 DEF DiskInv, PairMatches
  <2>6. AuthorityTypeOK'
    <3>1. keyFile' \in File
      BY <2>1, <2>2, RecordIsFile
    <3>2. boots' \in 0..MaxBoots /\ pair' \in [certificate : 1..MaxBoots, key : 1..MaxBoots]
      BY <2>1, <2>2, AuthorityAssumption
    <3>. QED BY <2>1, <3>1, <3>2 DEF AuthorityTypeOK, contextVars
  <2>. QED BY <2>1, <2>5, <2>6, LeavesStay
<1>. QED BY <1>1, <1>2

\* The key is on disk before the certificate is written, and both are of the pair.
LEMMA WritesKeepInv ==
    ASSUME AuthorityInv, KeyWritten \/ CertificateWritten
    PROVE  AuthorityInv'
<1>. USE DEF AuthorityInv
<1>1. pair # Missing => pair.certificate \in 1..MaxBoots /\ pair.key \in 1..MaxBoots
  BY DEF AuthorityTypeOK
<1>2. CASE KeyWritten
  <2>1. /\ boot' = "certificate" /\ UNCHANGED <<pair, boots, contextVars, clock>>
        /\ keyFile' = [generation |-> pair.key, whole |-> TRUE]
        /\ certFile' = [generation |-> pair.certificate, whole |-> FALSE]
    <3>1. keyFile = [generation |-> pair.key, whole |-> FALSE] /\ pair # Missing
      BY <1>2 DEF KeyWritten, DiskInv
    <3>2. keyFile' = [keyFile EXCEPT !.whole = TRUE]
      BY <1>2 DEF KeyWritten
    <3>3. keyFile \in [generation : 1..MaxBoots, whole : BOOLEAN] /\ keyFile.generation = pair.key
      BY <1>1, <3>1
    <3>. QED BY <1>2, <3>2, <3>3, FileFinished DEF KeyWritten
  <2>2. pair # Missing /\ pair.certificate = pair.key
    BY <1>2 DEF KeyWritten, DiskInv
  <2>3. DiskInv' /\ PairMatches'
    BY <2>1, <2>2 DEF DiskInv, PairMatches
  <2>4. AuthorityTypeOK'
    BY <1>1, <2>1, <2>2, RecordIsFile DEF AuthorityTypeOK, contextVars
  <2>. QED BY <2>1, <2>3, <2>4, LeavesStay
<1>3. CASE CertificateWritten
  <2>1. /\ boot' = "up" /\ UNCHANGED <<keyFile, pair, boots, contextVars, clock>>
        /\ certFile' = [generation |-> pair.certificate, whole |-> TRUE]
    <3>1. certFile = [generation |-> pair.certificate, whole |-> FALSE] /\ pair # Missing
      BY <1>3 DEF CertificateWritten, DiskInv
    <3>2. certFile' = [certFile EXCEPT !.whole = TRUE]
      BY <1>3 DEF CertificateWritten
    <3>3. /\ certFile \in [generation : 1..MaxBoots, whole : BOOLEAN]
          /\ certFile.generation = pair.certificate
      BY <1>1, <3>1
    <3>. QED BY <1>3, <3>2, <3>3, FileFinished DEF CertificateWritten
  <2>2. /\ pair # Missing /\ pair.certificate = pair.key
        /\ keyFile = [generation |-> pair.key, whole |-> TRUE]
    BY <1>3 DEF CertificateWritten, DiskInv
  <2>3. DiskInv' /\ PairMatches'
    BY <2>1, <2>2 DEF DiskInv, PairMatches
  <2>4. AuthorityTypeOK'
    BY <1>1, <2>1, <2>2, RecordIsFile DEF AuthorityTypeOK, contextVars
  <2>. QED BY <2>1, <2>3, <2>4, LeavesStay
<1>. QED BY <1>2, <1>3

\* A crash forgets what was in memory and keeps the files as they are; time passes.
LEMMA CrashKeepsInv ==
    ASSUME AuthorityInv, Die \/ Passes
    PROVE  AuthorityInv'
<1>. USE DEF AuthorityInv
<1>1. CASE Die
  <2>1. AuthorityTypeOK'
    BY <1>1 DEF Die, AuthorityTypeOK, Calls
  <2>2. DiskInv' /\ PairMatches'
    BY <1>1 DEF Die, DiskInv, PairMatches
  <2>3. LeafInv' /\ ContextIsCurrent'
    BY <1>1 DEF Die, LeafInv, ContextIsCurrent, Unasked
  <2>. QED BY <2>1, <2>2, <2>3
<1>2. CASE Passes
  <2>1. clock' = clock + 1 /\ clock < MaxClock /\ UNCHANGED <<diskVars, contextVars>>
    BY <1>2 DEF Passes
  <2>2. AuthorityTypeOK'
    BY <2>1, AuthorityAssumption DEF AuthorityTypeOK, diskVars, contextVars
  <2>3. LeafInv'
    <3>1. leaf # Missing => leaf.serial \in Nat
      BY AuthorityAssumption DEF AuthorityTypeOK, Leaf
    <3>2. ASSUME NEW t \in Threads, worker[t].at \in {"compare", "build", "keep"}
          PROVE  worker[t].asked \in Nat
      BY <3>2, AuthorityAssumption DEF AuthorityTypeOK, Calls, Unasked
    <3>. QED BY <2>1, <3>1, <3>2 DEF LeafInv, LastsUntil, contextVars, AuthorityTypeOK
  <2>4. ContextIsCurrent'
    BY <2>1 DEF ContextIsCurrent, ExpiringSoon, contextVars
  <2>. QED BY <2>1, <2>2, <2>3, <2>4, DiskStays
<1>. QED BY <1>1, <1>2

\* The leaf of a call is not due now, and no older than the cached one.
LEMMA LeafIsFresh ==
    ASSUME AuthorityInv
    PROVE  /\ LeafForHost \in Leaf /\ LeafForHost # Missing
           /\ LeafForHost.until = LastsUntil(LeafForHost.serial)
           /\ LeafForHost.serial <= clock + 1
           /\ leaf # Missing => leaf.serial <= LeafForHost.serial
           /\ LeafForHost.until - clock > Margin
<1>1. Issued(clock) \in Leaf /\ Issued(clock) # Missing
  BY AuthorityAssumption DEF AuthorityInv, AuthorityTypeOK, Issued, Leaf
<1>. QED
  BY <1>1, AuthorityAssumption DEF LeafForHost, Issued, AuthorityInv, AuthorityTypeOK, Leaf,
     LeafInv, LastsUntil, ExpiringSoon

\* Each step of a call keeps it, whatever the other threads' calls are at.
LEMMA CallsKeepInv ==
    ASSUME AuthorityInv, NEW t \in Threads, Ask(t) \/ Compare(t) \/ Build(t) \/ Keep(t) \/ Shake(t)
    PROVE  AuthorityInv'
<1>1. CASE Ask(t)
  <2>1. AuthorityTypeOK'
    BY <1>1, LeafIsFresh DEF Ask, AuthorityInv, AuthorityTypeOK, File, Leaf, Calls, Unasked,
       diskVars
  <2>2. DiskInv' /\ PairMatches'
    BY <1>1 DEF Ask, AuthorityInv, DiskInv, PairMatches, diskVars
  <2>3. LeafInv'
    BY <1>1, LeafIsFresh, AuthorityAssumption DEF Ask, AuthorityInv, LeafInv, LastsUntil,
       AuthorityTypeOK, File, Leaf, Calls, Unasked
  <2>4. ContextIsCurrent'
    BY <1>1, <2>1, AuthorityAssumption DEF Ask, AuthorityInv, LeafInv, LastsUntil,
       ContextIsCurrent, ExpiringSoon, AuthorityTypeOK, File, Leaf, Calls, Unasked
  <2>. QED BY <2>1, <2>2, <2>3, <2>4 DEF AuthorityInv
<1>2. CASE Compare(t)
  <2>1. AuthorityTypeOK'
    BY <1>2 DEF Compare, Serve, AuthorityInv, AuthorityTypeOK, File, Leaf, Calls, Unasked,
       diskVars
  <2>2. DiskInv' /\ PairMatches'
    BY <1>2 DEF Compare, Serve, AuthorityInv, DiskInv, PairMatches, diskVars
  <2>3. LeafInv'
    BY <1>2, AuthorityAssumption DEF Compare, Serve, AuthorityInv, LeafInv, LastsUntil,
       AuthorityTypeOK, File, Leaf, Calls, Unasked
  <2>4. ContextIsCurrent'
    BY <1>2, <2>1, AuthorityAssumption DEF Compare, Serve, AuthorityInv, LeafInv, LastsUntil,
       ContextIsCurrent, ExpiringSoon, AuthorityTypeOK, File, Leaf, Calls, Unasked
  <2>. QED BY <2>1, <2>2, <2>3, <2>4 DEF AuthorityInv
<1>3. CASE Build(t)
  <2>1. AuthorityTypeOK'
    BY <1>3, LeafIsFresh DEF Build, AuthorityInv, AuthorityTypeOK, File, Leaf, Calls, Unasked,
       diskVars
  <2>2. DiskInv' /\ PairMatches'
    BY <1>3 DEF Build, AuthorityInv, DiskInv, PairMatches, diskVars
  <2>3. LeafInv'
    BY <1>3, LeafIsFresh, AuthorityAssumption DEF Build, AuthorityInv, LeafInv, LastsUntil,
       AuthorityTypeOK, File, Leaf, Calls, Unasked
  <2>4. ContextIsCurrent'
    BY <1>3, <2>1, AuthorityAssumption DEF Build, AuthorityInv, LeafInv, LastsUntil,
       ContextIsCurrent, ExpiringSoon, AuthorityTypeOK, File, Leaf, Calls, Unasked
  <2>. QED BY <2>1, <2>2, <2>3, <2>4 DEF AuthorityInv
<1>4. CASE Keep(t)
  <2>1. AuthorityTypeOK'
    BY <1>4 DEF Keep, Serve, AuthorityInv, AuthorityTypeOK, File, Leaf, Calls, Unasked, diskVars
  <2>2. DiskInv' /\ PairMatches'
    BY <1>4 DEF Keep, Serve, AuthorityInv, DiskInv, PairMatches, diskVars
  <2>3. LeafInv'
    BY <1>4, AuthorityAssumption DEF Keep, Serve, AuthorityInv, LeafInv, LastsUntil,
       AuthorityTypeOK, File, Leaf, Calls, Unasked
  <2>4. ContextIsCurrent'
    BY <1>4, <2>1, AuthorityAssumption DEF Keep, Serve, AuthorityInv, LeafInv, LastsUntil,
       ContextIsCurrent, ExpiringSoon, AuthorityTypeOK, File, Leaf, Calls, Unasked
  <2>. QED BY <2>1, <2>2, <2>3, <2>4 DEF AuthorityInv
<1>5. CASE Shake(t)
  <2>1. AuthorityTypeOK'
    BY <1>5 DEF Shake, AuthorityInv, AuthorityTypeOK, File, Leaf, Calls, Unasked, diskVars
  <2>2. DiskInv' /\ PairMatches'
    BY <1>5 DEF Shake, AuthorityInv, DiskInv, PairMatches, diskVars
  <2>3. LeafInv'
    BY <1>5, AuthorityAssumption DEF Shake, AuthorityInv, LeafInv, LastsUntil, AuthorityTypeOK,
       File, Leaf, Calls, Unasked
  <2>4. ContextIsCurrent'
    BY <1>5, <2>1, AuthorityAssumption DEF Shake, AuthorityInv, LeafInv, LastsUntil,
       ContextIsCurrent, ExpiringSoon, AuthorityTypeOK, File, Leaf, Calls, Unasked
  <2>. QED BY <2>1, <2>2, <2>3, <2>4 DEF AuthorityInv
<1>. QED BY <1>1, <1>2, <1>3, <1>4, <1>5

\* Every step of the authority keeps its inductive invariant.
LEMMA AuthorityKeepsInv ==
    ASSUME AuthorityInv, [AuthorityNext]_authorityVars
    PROVE  AuthorityInv'
<1>1. CASE UNCHANGED authorityVars
  BY <1>1 DEF authorityVars, diskVars, contextVars, AuthorityInv, DiskInv, PairMatches, LeafInv,
     ContextIsCurrent, LastsUntil, ExpiringSoon, AuthorityTypeOK
<1>2. CASE AuthorityNext
  BY <1>2, BootKeepsInv, WritesKeepInv, CrashKeepsInv, CallsKeepInv DEF AuthorityNext
<1>. QED BY <1>1, <1>2

\* In every reachable state of the authority, its inductive invariant.
THEOREM AuthorityInvariance == AuthoritySpec => []AuthorityInv
<1>. QED BY AuthorityBegun, AuthorityKeepsInv, PTL DEF AuthoritySpec

\* Whatever crash came between two writes, a process that is up signs with the key of the
\* certificate on disk.
THEOREM PairsMatch == AuthoritySpec => []PairMatches
<1>. QED BY AuthorityInvariance, PTL DEF AuthorityInv

\* However the calls of the threads interleave, no connection gets a leaf that was due when
\* it asked.
THEOREM ContextsAreCurrent == AuthoritySpec => []ContextIsCurrent
<1>. QED BY AuthorityInvariance, PTL DEF AuthorityInv

-----------------------------------------------------------------------------
(* The connection, its session and its connector.                          *)

\* The inductive invariant of a connection, its session and its connector.
ConnectionInv == SessionInv /\ ProxyInv /\ SharedInv

\* What a step of the session does to its upstream: it opens one where it leaves "open",
\* closes the one it has, or leaves it alone; that of a protocol switch only where its
\* head is written and its tunnel runs.
UpstreamMoves ==
    /\ pc \notin Over
    /\ pc = "open" =>
          /\ pc' \in {"open", "pump", "write", "failing", "ended"} /\ kind' = kind
          /\ up' = IF pc' \in {"pump", "write"} THEN "open" ELSE up
    /\ pc # "open" =>
          /\ up' = up \/ (up = "open" /\ up' = "closed")
          /\ up' = "open" => kind' = kind
          /\ pc = "tunnel" /\ up' = "open" => pc' = "tunnel"

\* Every step of the session moves its upstream like that.
LEMMA SessionMovesUpstream ==
    ASSUME SessionInv, Next
    PROVE  UpstreamMoves
<1>1. CASE ReadStep
  BY <1>1 DEF ReadStep, RequestArrives, ReadTimeout, ReadMalformed, ReadEof, ReadReset,
     SessionInv, TypeOK, TurnInv, WorkInv, UpstreamMoves, h11Vars, workVars, Goto, Over, Kinds
<1>2. CASE BodyComplete \/ BodyFails \/ NoModel \/ ProviderAnswers \/ ProviderStreams \/ ProviderRaises
  BY <1>2 DEF BodyComplete, BodyFails, NoModel, ProviderAnswers, ProviderStreams,
     ProviderRaises, SessionInv, TypeOK, TurnInv, WorkInv, UpstreamMoves, h11Vars, workVars,
     Goto, Raise, Released, Accounted, UpClosed, Over, Kinds
<1>3. CASE OpenFails \/ Opened \/ UpstreamFails \/ ResponseArrives \/ SwitchWritten \/ SwitchFails \/ TunnelEnds
  BY <1>3 DEF OpenFails, Opened, UpstreamFails, ResponseArrives, SwitchWritten, SwitchFails,
     TunnelEnds, SessionInv, TypeOK, TurnInv, WorkInv, UpstreamMoves, h11Vars, workVars, Goto,
     Raise, Released, Accounted, UpClosed, Over, Kinds
<1>4. CASE SendHead \/ SendBody \/ SourceEnds \/ SourceBreaks \/ SendFails \/ ReleaseResult \/ SendEnd \/ Fail
  BY <1>4 DEF SendHead, SendBody, SourceEnds, SourceBreaks, SendFails, ReleaseResult, SendEnd,
     Fail, SessionInv, TypeOK, TurnInv, WorkInv, UpstreamMoves, h11Vars, workVars, Goto, Raise,
     Released, Accounted, UpClosed, Ended, Over, Kinds
<1>5. CASE NextCycle \/ EndSession \/ Cancelled \/ ClientLeaves
  BY <1>5 DEF NextCycle, EndSession, Cancelled, ClientLeaves, SessionInv, TypeOK, TurnInv,
     WorkInv, UpstreamMoves, h11Vars, workVars, Goto, Released, Accounted, UpClosed, Over, Kinds
<1>6. CASE ReadBegins \/ BytesArrive
  BY <1>6 DEF ReadBegins, BytesArrive, Reads, UpstreamMoves, h11Vars, workVars, Over
<1>. QED BY <1>1, <1>2, <1>3, <1>4, <1>5, <1>6 DEF Next, Failures, OtherSides, OwnStep

\* A step within the session keeps what the session shares with its connection.
LEMMA InSessionKeepsInv ==
    ASSUME ConnectionInv, InSession(Next)
    PROVE  ConnectionInv'
<1>1. stage = "session" /\ UNCHANGED <<stage, copy, idle, closed>> /\ caller' = client'
  BY DEF InSession
<1>2. SessionInv' /\ UpstreamMoves
  BY SessionKeepsInv, SessionMovesUpstream DEF InSession, ConnectionInv
<1>3. /\ stage = "session" /\ sockets \in Nat /\ cut \in {"no", "unwritten", "cancelled"}
      /\ pc \notin Over /\ cut # "cancelled" /\ (pc # "open" => dial = "idle")
      /\ sockets = IF up = "open" \/ dial \in {"asking", "handshaking", "given"} THEN 1 ELSE 0
      /\ up = "open" /\ kind = "switch" => pc \in {"write", "tunnel"} \/ cut # "no"
      /\ pc = "open" => up # "open"
      /\ pc' = "open" => up' # "open"
      /\ pc' = "pump" => kind' = "forward"
  BY <1>1, <1>2 DEF ConnectionInv, ProxyInv, ProxyTypeOK, ConnectorTypeOK, SharedInv,
     UpstreamMoves, SessionInv, TurnInv, WorkInv, Over
<1>4. SharedInv' /\ sockets' \in Nat /\ dial' \in {dial, "idle"} /\ cut' \in {cut, "unwritten", "cancelled"}
  <2>1. CASE pc = "open" /\ pc' = "open"
    BY <1>1, <1>2, <1>3, <2>1 DEF InSession, UpstreamMoves, SharedInv, Over
  <2>2. CASE pc = "open" /\ pc' \in {"pump", "write"}
    BY <1>1, <1>2, <1>3, <2>2 DEF InSession, UpstreamMoves, SharedInv, Over
  <2>3. CASE pc = "open" /\ pc' \in {"failing", "ended"}
    BY <1>1, <1>2, <1>3, <2>3 DEF InSession, UpstreamMoves, SharedInv, Over
  <2>4. CASE pc # "open"
    <3>1. UNCHANGED dial /\ cut' = IF pc = "write" /\ pc' \notin {"write", "tunnel"} THEN "unwritten" ELSE cut
      BY <2>4 DEF InSession
    <3>2. /\ up' = up \/ (up = "open" /\ up' = "closed")
          /\ up' = "open" => kind' = kind
          /\ pc = "tunnel" /\ up' = "open" => pc' = "tunnel"
          /\ sockets' = IF up = "open" /\ up' = "closed" THEN sockets - 1 ELSE sockets
      BY <1>2, <2>4 DEF InSession, UpstreamMoves
    <3>3. sockets' \in Nat /\ sockets' = IF up' = "open" THEN 1 ELSE 0
      BY <1>3, <2>4, <3>2
    <3>. QED BY <1>1, <1>3, <2>4, <3>1, <3>2, <3>3 DEF SharedInv
  <2>. QED BY <1>2, <2>1, <2>2, <2>3, <2>4 DEF UpstreamMoves
<1>5. ProxyTypeOK'
  BY <1>1, <1>2, <1>3, <1>4 DEF ConnectionInv, ProxyInv, ProxyTypeOK, SessionInv, TypeOK
<1>6. ConnectorTypeOK'
  <2>1. route' \in Routes /\ attempt' \in 0..MaxAttempts
    <3>1. [proxied |-> FALSE, secure |-> FALSE] \in Routes /\ 0 \in 0..MaxAttempts
      BY AttemptsAssumption DEF Routes
    <3>. QED BY <3>1 DEF InSession, ConnectionInv, ProxyInv, ConnectorTypeOK
  <2>. QED BY <1>4, <2>1 DEF ConnectionInv, ProxyInv, ConnectorTypeOK, Trying
<1>7. SocketInv'
  BY <1>1, <1>2 DEF ConnectionInv, ProxyInv, SocketInv, InSession, Trying
<1>. QED BY <1>2, <1>4, <1>5, <1>6, <1>7 DEF ConnectionInv, ProxyInv

\* The session stays as it is while the connection or the connector moves.
LEMMA SessionStays ==
    ASSUME SessionInv, UNCHANGED vars
    PROVE  SessionInv'
BY SessionKeepsInv

\* The attempts of the connector keep it, for a tunnel and for a session alike: they are
\* made only where one of the two waits for them.
LEMMA DialingKeepsInv ==
    ASSUME ConnectionInv, Outside(Dialing)
    PROVE  ConnectionInv'
<1>1. SessionInv' /\ UNCHANGED vars /\ UNCHANGED proxyVars
  BY SessionStays DEF ConnectionInv, Outside, Dialing
<1>2. /\ dial \in Trying => stage \in {"opening", "session"}
      /\ dial = "pausing" => attempt < MaxAttempts
      /\ stage = "session" /\ dial # "idle" => pc = "open" /\ up # "open" /\ cut = cut
      /\ sockets \in Nat /\ attempt \in 0..MaxAttempts /\ route \in Routes
      /\ stage = "session" /\ dial # "idle" => cut # "cancelled"
      /\ stage \in {"opening", "session"} /\ dial # "idle" =>
            sockets = IF dial \in {"asking", "handshaking", "given"} THEN 1 ELSE 0
  BY DEF ConnectionInv, ProxyInv, ConnectorTypeOK, SocketInv, SharedInv, SessionInv, WorkInv,
     Over, Trying
<1>3. /\ dial \in Trying /\ dial' # "idle"
      /\ sockets' = IF dial' \in {"asking", "handshaking", "given"} THEN 1 ELSE 0
      /\ dial' = "pausing" => attempt' < MaxAttempts
      /\ dial' \in Trying \cup {"given", "failed"}
      /\ attempt' \in 0..MaxAttempts /\ route' = route
  BY <1>2, AttemptsAssumption DEF Outside, Dialing, ConnectorStep, Reached, Unreached, Granted,
     Secured, Refused, PauseEnds, AttemptFails, Trying
<1>4. ProxyTypeOK' /\ ConnectorTypeOK'
  BY <1>1, <1>2, <1>3 DEF ConnectionInv, ProxyInv, ProxyTypeOK, ConnectorTypeOK, proxyVars,
     Trying
<1>5. SocketInv'
  BY <1>1, <1>2, <1>3 DEF ConnectionInv, ProxyInv, SocketInv, proxyVars, Trying
<1>6. SharedInv'
  BY <1>1, <1>2, <1>3 DEF ConnectionInv, SharedInv, proxyVars, vars, Trying
<1>. QED BY <1>1, <1>4, <1>5, <1>6 DEF ConnectionInv, ProxyInv

\* The connector is asked for an upstream, and a session that is over is left.
LEMMA SessionEdgesKeepInv ==
    ASSUME ConnectionInv, SessionConnects \/ SessionOver
    PROVE  ConnectionInv'
<1>1. SessionInv' /\ UNCHANGED vars
  BY SessionStays DEF ConnectionInv, SessionConnects, SessionOver
<1>2. CASE SessionConnects
  BY <1>1, <1>2, AttemptsAssumption DEF SessionConnects, Connect, ConnectionInv, ProxyInv,
     ProxyTypeOK, ConnectorTypeOK, SocketInv, SharedInv, proxyVars, vars, Trying, Routes, Over
<1>3. CASE SessionOver
  BY <1>1, <1>3 DEF SessionOver, SessionEnds, Only, StageIs, ConnectionInv, ProxyInv,
     ProxyTypeOK, ConnectorTypeOK, SocketInv, SharedInv, SessionInv, WorkInv, connectorVars,
     vars, Trying, Over
<1>. QED BY <1>2, <1>3

\* A handler that is over stays so, and a session begins where no upstream is asked for.
StaysOutside ==
    /\ stage \in {"closing", "ended"} => stage' \in {"closing", "ended"}
    /\ stage' = "session" => stage = "handshake" /\ UNCHANGED <<cut, connectorVars>>

\* What is shared outside of a session is that it has not begun.
LEMMA SharedOutside ==
    ASSUME ConnectionInv, stage # "session", UNCHANGED vars, ProxyInv', StaysOutside
    PROVE  ConnectionInv'
<1>1. SessionInv'
  BY SessionStays DEF ConnectionInv
<1>. QED
  BY <1>1 DEF StaysOutside, ConnectionInv, SharedInv, ProxyInv, ProxyTypeOK, SocketInv,
     SessionInv, WorkInv, vars, connectorVars, Trying, Over

\* The steps of the handler outside of a session keep its invariant.
LEMMA HandlerKeepsInv ==
    ASSUME ProxyInv, stage # "session",
           \/ Open \/ ReadConnect \/ ReadConnectFails \/ Reject \/ OpenedTunnel \/ NotOpened \/ Establish \/ EstablishFails \/ PumpEnds \/ ContextBuilt
           \/ ContextFails \/ Accept \/ HandshakeDone \/ HandshakeFails \/ CloseClient \/ Silence \/ CancelHandler \/ CallerLeaves
           \/ \E d \in Directions : CopySilent(d) \/ Carry(d) \/ CopyEnds(d)
    PROVE  ProxyInv' /\ StaysOutside
<1>1. CASE Open
  BY <1>1, AttemptsAssumption DEF Open, Connect, proxyVars, Routes, StaysOutside, ProxyInv,
     ProxyTypeOK, ConnectorTypeOK, SocketInv, connectorVars, Trying, Directions
<1>2. CASE ReadConnect
  BY <1>2 DEF ReadConnect, StaysOutside, ProxyInv, ProxyTypeOK, ConnectorTypeOK, SocketInv,
     Only, StageIs, connectorVars, Trying, Directions
<1>3. CASE ReadConnectFails
  BY <1>3 DEF ReadConnectFails, StaysOutside, ProxyInv, ProxyTypeOK, ConnectorTypeOK, SocketInv,
     Only, StageIs, connectorVars, Trying, Directions
<1>4. CASE Reject
  BY <1>4 DEF Reject, StaysOutside, ProxyInv, ProxyTypeOK, ConnectorTypeOK, SocketInv, Only,
     StageIs, connectorVars, Trying, Directions
<1>5. CASE OpenedTunnel
  BY <1>5 DEF OpenedTunnel, StaysOutside, ProxyInv, ProxyTypeOK, ConnectorTypeOK, SocketInv,
     Only, StageIs, connectorVars, Trying, Directions
<1>6. CASE NotOpened
  BY <1>6 DEF NotOpened, StaysOutside, ProxyInv, ProxyTypeOK, ConnectorTypeOK, SocketInv, Only,
     StageIs, connectorVars, Trying, Directions
<1>7. CASE Establish
  BY <1>7 DEF Establish, StaysOutside, ProxyInv, ProxyTypeOK, ConnectorTypeOK, SocketInv,
     StageIs, connectorVars, Trying, Directions
<1>8. CASE EstablishFails
  BY <1>8 DEF EstablishFails, StaysOutside, ProxyInv, ProxyTypeOK, ConnectorTypeOK, SocketInv,
     StageIs, connectorVars, Trying, Directions
<1>9. CASE PumpEnds
  BY <1>9 DEF PumpEnds, StaysOutside, ProxyInv, ProxyTypeOK, ConnectorTypeOK, SocketInv,
     StageIs, connectorVars, Trying, Directions
<1>10. CASE ContextBuilt
  BY <1>10 DEF ContextBuilt, StaysOutside, ProxyInv, ProxyTypeOK, ConnectorTypeOK, SocketInv,
     Only, StageIs, connectorVars, Trying, Directions
<1>11. CASE ContextFails
  BY <1>11 DEF ContextFails, StaysOutside, ProxyInv, ProxyTypeOK, ConnectorTypeOK, SocketInv,
     Only, StageIs, connectorVars, Trying, Directions
<1>12. CASE Accept
  BY <1>12 DEF Accept, StaysOutside, ProxyInv, ProxyTypeOK, ConnectorTypeOK, SocketInv, Only,
     StageIs, connectorVars, Trying, Directions
<1>13. CASE HandshakeDone
  BY <1>13 DEF HandshakeDone, StaysOutside, ProxyInv, ProxyTypeOK, ConnectorTypeOK, SocketInv,
     Only, StageIs, connectorVars, Trying, Directions
<1>14. CASE HandshakeFails
  BY <1>14 DEF HandshakeFails, StaysOutside, ProxyInv, ProxyTypeOK, ConnectorTypeOK, SocketInv,
     Only, StageIs, connectorVars, Trying, Directions
<1>15. CASE CloseClient
  BY <1>15 DEF CloseClient, StaysOutside, ProxyInv, ProxyTypeOK, ConnectorTypeOK, SocketInv,
     StageIs, connectorVars, Trying, Directions
<1>16. CASE Silence
  BY <1>16, IdleAssumption DEF Silence, StaysOutside, ProxyInv, ProxyTypeOK, ConnectorTypeOK,
     SocketInv, connectorVars, Trying, Directions
<1>17. CASE CancelHandler
  BY <1>17 DEF CancelHandler, StaysOutside, ProxyInv, ProxyTypeOK, ConnectorTypeOK, SocketInv,
     StageIs, connectorVars, Trying, Directions
<1>18. CASE CallerLeaves
  BY <1>18 DEF CallerLeaves, StaysOutside, ProxyInv, ProxyTypeOK, ConnectorTypeOK, SocketInv,
     connectorVars, Trying, Directions
<1>19. ASSUME NEW d \in Directions, CopySilent(d) \/ Carry(d) \/ CopyEnds(d)
      PROVE  ProxyInv' /\ StaysOutside
  <2>1. CASE CopySilent(d)
    BY <1>19, <2>1 DEF CopySilent, Copying, StaysOutside, ProxyInv, ProxyTypeOK,
       ConnectorTypeOK, SocketInv, StageIs, connectorVars, Trying, Directions
  <2>2. CASE Carry(d)
    BY <1>19, <2>2, IdleAssumption DEF Carry, Copying, StaysOutside, ProxyInv, ProxyTypeOK,
       ConnectorTypeOK, SocketInv, connectorVars, Trying, Directions
  <2>3. CASE CopyEnds(d)
    BY <1>19, <2>3 DEF CopyEnds, Copying, StaysOutside, ProxyInv, ProxyTypeOK, ConnectorTypeOK,
       SocketInv, StageIs, connectorVars, Trying, Directions
  <2>. QED BY <1>19, <2>1, <2>2, <2>3
<1>. QED BY <1>1, <1>2, <1>3, <1>4, <1>5, <1>6, <1>7, <1>8, <1>9, <1>10, <1>11, <1>12, <1>13, <1>14, <1>15, <1>16, <1>17, <1>18, <1>19

\* A connection begins with the invariant.
LEMMA ConnectionBegun == MCInit => ConnectionInv
<1>1. MCInit => SessionInv
  BY SessionBegun DEF MCInit
<1>2. MCInit => ProxyInv
  BY IdleAssumption, AttemptsAssumption DEF MCInit, ProxyInit, ConnectorInit, Routes, ProxyInv,
     ProxyTypeOK, ConnectorTypeOK, SocketInv, Trying, Directions
<1>3. MCInit => SharedInv
  BY DEF MCInit, Init, ProxyInit, SharedInv
<1>. QED BY <1>1, <1>2, <1>3 DEF ConnectionInv

\* Every step of the composition keeps the invariant of the connection.
LEMMA ConnectionKeepsInv ==
    ASSUME ConnectionInv, [MCNext]_allVars
    PROVE  ConnectionInv'
<1>1. CASE UNCHANGED connectionVars
  <2>1. UNCHANGED <<vars, proxyVars, connectorVars>>
    BY <1>1 DEF connectionVars
  <2>2. SessionInv'
    BY <2>1, SessionStays DEF ConnectionInv
  <2>3. ProxyInv'
    BY <2>1 DEF ConnectionInv, ProxyInv, ProxyTypeOK, ConnectorTypeOK, SocketInv, proxyVars,
       connectorVars
  <2>4. SharedInv'
    BY <2>1 DEF ConnectionInv, SharedInv, vars, proxyVars, connectorVars
  <2>. QED BY <2>2, <2>3, <2>4 DEF ConnectionInv
<1>2. CASE Outside(Dialing)
  BY <1>2, DialingKeepsInv
<1>3. CASE stage # "session" /\ Outside(ProxyNext)
  <2>1. UNCHANGED vars /\ ProxyNext
    BY <1>3 DEF Outside
  <2>2. CASE Dialing
    BY <2>1, <2>2, <1>2 DEF Outside
  <2>3. CASE ~Dialing
    BY <1>3, <2>1, <2>3, HandlerKeepsInv, SharedOutside DEF ProxyNext, HandlerStep, TunnelStep,
       ConnectionInv
  <2>. QED BY <2>2, <2>3
<1>4. CASE InSession(Next)
  BY <1>4, InSessionKeepsInv
<1>5. CASE SessionConnects \/ SessionOver
  BY <1>5, SessionEdgesKeepInv
<1>6. CASE UNCHANGED allVars
  BY <1>1, <1>6 DEF allVars
<1>7. CASE MCNext
  BY <1>1, <1>2, <1>3, <1>4, <1>5, <1>6, <1>7 DEF MCNext, Connection, Outside
<1>. QED BY <1>6, <1>7

\* In the whole proxy, the inductive invariant of a connection with its session.
LEMMA ConnectionInvariance == MCSpec => []ConnectionInv
<1>. QED BY ConnectionBegun, ConnectionKeepsInv, PTL DEF MCSpec

\* The composition only adds to its parts: it takes no step that they do not.
LEMMA PartsStep ==
    ASSUME [MCNext]_allVars
    PROVE  [Next]_vars /\ [AuthorityNext]_authorityVars /\ [StopNext]_stopVars
<1>1. CASE UNCHANGED allVars
  BY <1>1 DEF allVars, connectionVars
<1>2. CASE \/ Connection(Outside(IF stage = "session" THEN Dialing ELSE ProxyNext))
          \/ Connection(SessionConnects) \/ Connection(SessionOver)
  BY <1>2 DEF Connection, Outside, SessionConnects, SessionOver
<1>3. CASE Connection(InSession(Next))
  BY <1>3 DEF Connection, InSession
<1>4. CASE Of("authority") /\ AuthorityNext /\ UNCHANGED <<connectionVars, stopVars>>
  BY <1>4 DEF connectionVars
<1>5. CASE Of("process") /\ StopNext /\ UNCHANGED <<connectionVars, authorityVars>>
  BY <1>5 DEF connectionVars
<1>. QED BY <1>1, <1>2, <1>3, <1>4, <1>5 DEF MCNext

\* A behaviour of the whole is one of the session, of the authority and of the stop.
THEOREM PartsAreKept == MCSpec => Spec /\ AuthoritySpec /\ StopSpec
<1>1. MCInit => Init /\ AuthorityInit /\ StopInit
  BY DEF MCInit
<1>. QED BY <1>1, PartsStep, PTL DEF MCSpec, Spec, AuthoritySpec, StopSpec

\* In every reachable state of the whole, the inductive invariants of the parts.
THEOREM PartsInvariance == MCSpec => []PartsInv
<1>. QED
  BY PartsAreKept, ConnectionInvariance, AuthorityInvariance, StopInvariance, PTL
     DEF PartsInv, ConnectionInv

\* Between two requests and behind the last one nothing is held.
THEOREM NothingIsHeld == MCSpec => []NothingHeld
<1>1. ConnectionInv => NothingHeld
  BY DEF ConnectionInv, SessionInv, TypeOK, TurnInv, WorkInv, ProxyInv, ConnectorTypeOK,
     SocketInv, SharedInv, NothingHeld, NextStartsClean, NothingHeldAtEnd, NothingLeftOpen,
     OneSocket, Over, Trying
<1>. QED BY <1>1, ConnectionInvariance, PTL

=============================================================================
