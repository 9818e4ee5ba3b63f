------------------------- MODULE RequestStreamProofs -------------------------
(***************************************************************************)
(* Proofs about the streamed requests of both kinds of provider, for any   *)
(* number of chunks and any number of pauses between attempts: what        *)
(* TranslateStream and Passthrough promise, each for itself and composed   *)
(* as in MCTranslateStream.                                                *)
(***************************************************************************)
EXTENDS MCTranslateStream, TLAPS

-----------------------------------------------------------------------------
(* TranslateStream: the invariant.                                         *)

\* What was given back or recorded stays so: no step of a task or finalizer left
\* behind takes the entry or the upstream connection again.
Forward ==
    /\ upClosed' \in {upClosed, TRUE}
    /\ entry' \in {entry, FALSE}
    /\ recorded' \in {recorded, TRUE}

\* Every step goes forward.
LEMMA StepsGoForward ==
    ASSUME Next
    PROVE  Forward
<1>1. CASE StepTask
  BY <1>1 DEF Forward, StepTask, YieldPreamble, ReadChunk, ReadTerminal, ReadEnd, ReadError,
     ReadBreaks, YieldStop, ConverterEnds, StepCancelled, Yields
<1>2. CASE TransportStep
  BY <1>2 DEF Forward, TransportStep, StreamCreated, CreationFails, HeadSent, HeadFails,
     TakeFrame, BodyEnds, ChunkSent, SendFails, Unwound, CloseBody, Release, streamVars,
     CloseConverter
<1>3. CASE Finalizers
  BY <1>3 DEF Forward, Finalizers, FinalizeKeepalive, KeepaliveFinalized, FinalizeGenerator,
     streamVars, CloseConverter
<1>4. CASE (Ping \/ Cancelled \/ ClientLeaves) /\ UNCHANGED flavor
  BY <1>4 DEF Forward, Cancelled, Ping, CreationCancelled, CancelledSending, CancelledPulling,
     ClientLeaves, streamVars
<1>. QED BY <1>1, <1>2, <1>3, <1>4 DEF Next

\* The flags keep their type.
LEMMA FlagsStay ==
    ASSUME TypeOK, Forward
    PROVE  (upClosed \in BOOLEAN /\ entry \in BOOLEAN /\ recorded \in BOOLEAN)'
BY DEF TypeOK, Forward

\* The invariant holds when create_stream is called.
LEMMA StreamBegun == Init => StreamInv
<1>. SUFFICES ASSUME Init PROVE StreamInv
  OBVIOUS
<1>1. upClosed \in BOOLEAN /\ entry \in BOOLEAN /\ recorded \in BOOLEAN
  BY DEF Init
<1>2. TypeOK
  BY <1>1, ChunksAssumption DEF Init, TypeOK, Outcomes
<1>. QED BY <1>2, ChunksAssumption DEF Init, StreamInv, PlacesInv, ConverterInv, SentInv,
    HeldInv, AccountInv

\* A step of the converter keeps it.
LEMMA StepKeepsInv ==
    ASSUME StreamInv, Forward, StepTask
    PROVE  StreamInv'
<1>. UNCHANGED <<flavor, transport, keepalive, upClosed, client, account, finishes, sent>>
  BY DEF StepTask
<1>0. (upClosed \in BOOLEAN /\ entry \in BOOLEAN /\ recorded \in BOOLEAN)'
  BY FlagsStay DEF StreamInv
<1>1. CASE YieldPreamble
  <2>1. TypeOK'
    BY <1>0, <1>1, ChunksAssumption DEF StreamInv, TypeOK, PlacesInv, ConverterInv, SentInv,
       HeldInv, AccountInv, YieldPreamble, Yields, Outcomes
  <2>2. (PlacesInv /\ HeldInv)'
    BY <1>1, ChunksAssumption DEF StreamInv, TypeOK, PlacesInv, ConverterInv, SentInv, HeldInv,
       AccountInv, YieldPreamble, Yields, Outcomes
  <2>3. (ConverterInv /\ SentInv /\ AccountInv)'
    BY <1>1, ChunksAssumption DEF StreamInv, TypeOK, PlacesInv, ConverterInv, SentInv, HeldInv,
       AccountInv, YieldPreamble, Yields, Outcomes
  <2>. QED BY <2>1, <2>2, <2>3 DEF StreamInv
<1>2. CASE ReadChunk
  <2>1. TypeOK'
    BY <1>0, <1>2, ChunksAssumption DEF StreamInv, TypeOK, PlacesInv, ConverterInv, SentInv,
       HeldInv, AccountInv, ReadChunk, Yields, ReadsUpstream, Outcomes
  <2>2. (PlacesInv /\ HeldInv)'
    BY <1>2, ChunksAssumption DEF StreamInv, TypeOK, PlacesInv, ConverterInv, SentInv, HeldInv,
       AccountInv, ReadChunk, Yields, ReadsUpstream, Outcomes
  <2>3. (ConverterInv /\ SentInv /\ AccountInv)'
    BY <1>2, ChunksAssumption DEF StreamInv, TypeOK, PlacesInv, ConverterInv, SentInv, HeldInv,
       AccountInv, ReadChunk, Yields, ReadsUpstream, Outcomes
  <2>. QED BY <2>1, <2>2, <2>3 DEF StreamInv
<1>3. CASE ReadTerminal
  <2>1. TypeOK'
    BY <1>0, <1>3, ChunksAssumption DEF StreamInv, TypeOK, PlacesInv, ConverterInv, SentInv,
       HeldInv, AccountInv, ReadTerminal, Yields, ReadsUpstream, Outcomes
  <2>2. (PlacesInv /\ HeldInv)'
    BY <1>3, ChunksAssumption DEF StreamInv, TypeOK, PlacesInv, ConverterInv, SentInv, HeldInv,
       AccountInv, ReadTerminal, Yields, ReadsUpstream, Outcomes
  <2>3. (ConverterInv /\ SentInv /\ AccountInv)'
    BY <1>3, ChunksAssumption DEF StreamInv, TypeOK, PlacesInv, ConverterInv, SentInv, HeldInv,
       AccountInv, ReadTerminal, Yields, ReadsUpstream, Outcomes
  <2>. QED BY <2>1, <2>2, <2>3 DEF StreamInv
<1>4. CASE ReadEnd
  <2>1. TypeOK'
    BY <1>0, <1>4, ChunksAssumption DEF StreamInv, TypeOK, PlacesInv, ConverterInv, SentInv,
       HeldInv, AccountInv, ReadEnd, Yields, ReadsUpstream, Outcomes
  <2>2. (PlacesInv /\ HeldInv)'
    BY <1>4, ChunksAssumption DEF StreamInv, TypeOK, PlacesInv, ConverterInv, SentInv, HeldInv,
       AccountInv, ReadEnd, Yields, ReadsUpstream, Outcomes
  <2>3. (ConverterInv /\ SentInv /\ AccountInv)'
    BY <1>4, ChunksAssumption DEF StreamInv, TypeOK, PlacesInv, ConverterInv, SentInv, HeldInv,
       AccountInv, ReadEnd, Yields, ReadsUpstream, Outcomes
  <2>. QED BY <2>1, <2>2, <2>3 DEF StreamInv
<1>5. CASE ReadError
  <2>1. TypeOK'
    BY <1>0, <1>5, ChunksAssumption DEF StreamInv, TypeOK, PlacesInv, ConverterInv, SentInv,
       HeldInv, AccountInv, ReadError, Yields, ReadsUpstream, Outcomes
  <2>2. (PlacesInv /\ HeldInv)'
    BY <1>5, ChunksAssumption DEF StreamInv, TypeOK, PlacesInv, ConverterInv, SentInv, HeldInv,
       AccountInv, ReadError, Yields, ReadsUpstream, Outcomes
  <2>3. (ConverterInv /\ SentInv /\ AccountInv)'
    BY <1>5, ChunksAssumption DEF StreamInv, TypeOK, PlacesInv, ConverterInv, SentInv, HeldInv,
       AccountInv, ReadError, Yields, ReadsUpstream, Outcomes
  <2>. QED BY <2>1, <2>2, <2>3 DEF StreamInv
<1>6. CASE ReadBreaks
  <2>1. TypeOK'
    BY <1>0, <1>6, ChunksAssumption DEF StreamInv, TypeOK, PlacesInv, ConverterInv, SentInv,
       HeldInv, AccountInv, ReadBreaks, Yields, ReadsUpstream, Outcomes
  <2>2. (PlacesInv /\ HeldInv)'
    BY <1>6, ChunksAssumption DEF StreamInv, TypeOK, PlacesInv, ConverterInv, SentInv, HeldInv,
       AccountInv, ReadBreaks, Yields, ReadsUpstream, Outcomes
  <2>3. (ConverterInv /\ SentInv /\ AccountInv)'
    BY <1>6, ChunksAssumption DEF StreamInv, TypeOK, PlacesInv, ConverterInv, SentInv, HeldInv,
       AccountInv, ReadBreaks, Yields, ReadsUpstream, Outcomes
  <2>. QED BY <2>1, <2>2, <2>3 DEF StreamInv
<1>7. CASE YieldStop
  <2>1. TypeOK'
    BY <1>0, <1>7, ChunksAssumption DEF StreamInv, TypeOK, PlacesInv, ConverterInv, SentInv,
       HeldInv, AccountInv, YieldStop, Yields, Outcomes
  <2>2. (PlacesInv /\ HeldInv)'
    BY <1>7, ChunksAssumption DEF StreamInv, TypeOK, PlacesInv, ConverterInv, SentInv, HeldInv,
       AccountInv, YieldStop, Yields, Outcomes
  <2>3. (ConverterInv /\ SentInv /\ AccountInv)'
    BY <1>7, ChunksAssumption DEF StreamInv, TypeOK, PlacesInv, ConverterInv, SentInv, HeldInv,
       AccountInv, YieldStop, Yields, Outcomes
  <2>. QED BY <2>1, <2>2, <2>3 DEF StreamInv
<1>8. CASE ConverterEnds
  <2>1. TypeOK'
    BY <1>0, <1>8, ChunksAssumption DEF StreamInv, TypeOK, PlacesInv, ConverterInv, SentInv,
       HeldInv, AccountInv, ConverterEnds, Dropped, Outcomes
  <2>2. (PlacesInv /\ HeldInv)'
    BY <1>8, ChunksAssumption DEF StreamInv, TypeOK, PlacesInv, ConverterInv, SentInv, HeldInv,
       AccountInv, ConverterEnds, Dropped, Outcomes
  <2>3. (ConverterInv /\ SentInv /\ AccountInv)'
    BY <1>8, ChunksAssumption DEF StreamInv, TypeOK, PlacesInv, ConverterInv, SentInv, HeldInv,
       AccountInv, ConverterEnds, Dropped, Outcomes
  <2>. QED BY <2>1, <2>2, <2>3 DEF StreamInv
<1>9. CASE StepCancelled
  <2>1. TypeOK'
    BY <1>0, <1>9, ChunksAssumption DEF StreamInv, TypeOK, PlacesInv, ConverterInv, SentInv,
       HeldInv, AccountInv, StepCancelled, Outcomes
  <2>2. (PlacesInv /\ HeldInv)'
    BY <1>9, ChunksAssumption DEF StreamInv, TypeOK, PlacesInv, ConverterInv, SentInv, HeldInv,
       AccountInv, StepCancelled, Outcomes
  <2>3. (ConverterInv /\ SentInv /\ AccountInv)'
    BY <1>9, ChunksAssumption DEF StreamInv, TypeOK, PlacesInv, ConverterInv, SentInv, HeldInv,
       AccountInv, StepCancelled, Outcomes
  <2>. QED BY <2>1, <2>2, <2>3 DEF StreamInv
<1>. QED BY <1>1, <1>2, <1>3, <1>4, <1>5, <1>6, <1>7, <1>8, <1>9 DEF StepTask

\* A step of the transport's task keeps it.
LEMMA TransportKeepsInv ==
    ASSUME StreamInv, Forward, TransportStep
    PROVE  StreamInv'
<1>. UNCHANGED flavor
  BY DEF TransportStep
<1>0. (upClosed \in BOOLEAN /\ entry \in BOOLEAN /\ recorded \in BOOLEAN)'
  BY FlagsStay DEF StreamInv
<1>1. CASE StreamCreated
  <2>1. TypeOK'
    BY <1>0, <1>1, ChunksAssumption DEF StreamInv, TypeOK, PlacesInv, ConverterInv, SentInv,
       HeldInv, AccountInv, StreamCreated, taskVars, Outcomes
  <2>2. (PlacesInv /\ HeldInv)'
    BY <1>1, ChunksAssumption DEF StreamInv, TypeOK, PlacesInv, ConverterInv, SentInv, HeldInv,
       AccountInv, StreamCreated, taskVars, Outcomes
  <2>3. (ConverterInv /\ SentInv /\ AccountInv)'
    BY <1>1, ChunksAssumption DEF StreamInv, TypeOK, PlacesInv, ConverterInv, SentInv, HeldInv,
       AccountInv, StreamCreated, taskVars, Outcomes
  <2>. QED BY <2>1, <2>2, <2>3 DEF StreamInv
<1>2. CASE CreationFails
  <2>1. TypeOK'
    BY <1>0, <1>2, ChunksAssumption DEF StreamInv, TypeOK, PlacesInv, ConverterInv, SentInv,
       HeldInv, AccountInv, CreationFails, Finish, taskVars, Outcomes
  <2>2. (PlacesInv /\ HeldInv)'
    BY <1>2, ChunksAssumption DEF StreamInv, TypeOK, PlacesInv, ConverterInv, SentInv, HeldInv,
       AccountInv, CreationFails, Finish, taskVars, Outcomes
  <2>3. (ConverterInv /\ SentInv /\ AccountInv)'
    BY <1>2, ChunksAssumption DEF StreamInv, TypeOK, PlacesInv, ConverterInv, SentInv, HeldInv,
       AccountInv, CreationFails, Finish, taskVars, Outcomes
  <2>. QED BY <2>1, <2>2, <2>3 DEF StreamInv
<1>3. CASE HeadSent
  <2>1. TypeOK'
    BY <1>0, <1>3, ChunksAssumption DEF StreamInv, TypeOK, PlacesInv, ConverterInv, SentInv,
       HeldInv, AccountInv, HeadSent, Pull, streamVars, Outcomes
  <2>2. (PlacesInv /\ HeldInv)'
    BY <1>3, ChunksAssumption DEF StreamInv, TypeOK, PlacesInv, ConverterInv, SentInv, HeldInv,
       AccountInv, HeadSent, Pull, streamVars, Outcomes
  <2>3. (ConverterInv /\ SentInv /\ AccountInv)'
    BY <1>3, ChunksAssumption DEF StreamInv, TypeOK, PlacesInv, ConverterInv, SentInv, HeldInv,
       AccountInv, HeadSent, Pull, streamVars, Outcomes
  <2>. QED BY <2>1, <2>2, <2>3 DEF StreamInv
<1>4. CASE HeadFails
  <2>1. TypeOK'
    BY <1>0, <1>4, ChunksAssumption DEF StreamInv, TypeOK, PlacesInv, ConverterInv, SentInv,
       HeldInv, AccountInv, HeadFails, streamVars, taskVars, Outcomes
  <2>2. (PlacesInv /\ HeldInv)'
    BY <1>4, ChunksAssumption DEF StreamInv, TypeOK, PlacesInv, ConverterInv, SentInv, HeldInv,
       AccountInv, HeadFails, streamVars, taskVars, Outcomes
  <2>3. (ConverterInv /\ SentInv /\ AccountInv)'
    BY <1>4, ChunksAssumption DEF StreamInv, TypeOK, PlacesInv, ConverterInv, SentInv, HeldInv,
       AccountInv, HeadFails, streamVars, taskVars, Outcomes
  <2>. QED BY <2>1, <2>2, <2>3 DEF StreamInv
<1>5. CASE TakeFrame
  <2>1. TypeOK'
    BY <1>0, <1>5, ChunksAssumption DEF StreamInv, TypeOK, PlacesInv, ConverterInv, SentInv,
       HeldInv, AccountInv, TakeFrame, streamVars, Outcomes
  <2>2. (PlacesInv /\ HeldInv)'
    BY <1>5, ChunksAssumption DEF StreamInv, TypeOK, PlacesInv, ConverterInv, SentInv, HeldInv,
       AccountInv, TakeFrame, streamVars, Outcomes
  <2>3. (ConverterInv /\ SentInv /\ AccountInv)'
    BY <1>5, ChunksAssumption DEF StreamInv, TypeOK, PlacesInv, ConverterInv, SentInv, HeldInv,
       AccountInv, TakeFrame, streamVars, Outcomes
  <2>. QED BY <2>1, <2>2, <2>3 DEF StreamInv
<1>6. CASE BodyEnds
  <2>1. TypeOK'
    BY <1>0, <1>6, ChunksAssumption DEF StreamInv, TypeOK, PlacesInv, ConverterInv, SentInv,
       HeldInv, AccountInv, BodyEnds, Finish, streamVars, Outcomes
  <2>2. (PlacesInv /\ HeldInv)'
    BY <1>6, ChunksAssumption DEF StreamInv, TypeOK, PlacesInv, ConverterInv, SentInv, HeldInv,
       AccountInv, BodyEnds, Finish, streamVars, Outcomes
  <2>3. (ConverterInv /\ SentInv /\ AccountInv)'
    BY <1>6, ChunksAssumption DEF StreamInv, TypeOK, PlacesInv, ConverterInv, SentInv, HeldInv,
       AccountInv, BodyEnds, Finish, streamVars, Outcomes
  <2>. QED BY <2>1, <2>2, <2>3 DEF StreamInv
<1>7. CASE ChunkSent
  <2>1. TypeOK'
    BY <1>0, <1>7, ChunksAssumption DEF StreamInv, TypeOK, PlacesInv, ConverterInv, SentInv,
       HeldInv, AccountInv, ChunkSent, Pull, streamVars, Outcomes
  <2>2. (PlacesInv /\ HeldInv)'
    BY <1>7, ChunksAssumption DEF StreamInv, TypeOK, PlacesInv, ConverterInv, SentInv, HeldInv,
       AccountInv, ChunkSent, Pull, streamVars, Outcomes
  <2>3. (ConverterInv /\ SentInv /\ AccountInv)'
    BY <1>7, ChunksAssumption DEF StreamInv, TypeOK, PlacesInv, ConverterInv, SentInv, HeldInv,
       AccountInv, ChunkSent, Pull, streamVars, Outcomes
  <2>. QED BY <2>1, <2>2, <2>3 DEF StreamInv
<1>8. CASE SendFails
  <2>1. TypeOK'
    BY <1>0, <1>8, ChunksAssumption DEF StreamInv, TypeOK, PlacesInv, ConverterInv, SentInv,
       HeldInv, AccountInv, SendFails, streamVars, taskVars, Outcomes
  <2>2. (PlacesInv /\ HeldInv)'
    BY <1>8, ChunksAssumption DEF StreamInv, TypeOK, PlacesInv, ConverterInv, SentInv, HeldInv,
       AccountInv, SendFails, streamVars, taskVars, Outcomes
  <2>3. (ConverterInv /\ SentInv /\ AccountInv)'
    BY <1>8, ChunksAssumption DEF StreamInv, TypeOK, PlacesInv, ConverterInv, SentInv, HeldInv,
       AccountInv, SendFails, streamVars, taskVars, Outcomes
  <2>. QED BY <2>1, <2>2, <2>3 DEF StreamInv
<1>9. CASE Unwound
  <2>1. TypeOK'
    BY <1>0, <1>9, ChunksAssumption DEF StreamInv, TypeOK, PlacesInv, ConverterInv, SentInv,
       HeldInv, AccountInv, Unwound, Finish, Dropped, CloseConverter, Outcomes
  <2>2. (PlacesInv /\ HeldInv)'
    BY <1>9, ChunksAssumption DEF StreamInv, TypeOK, PlacesInv, ConverterInv, SentInv, HeldInv,
       AccountInv, Unwound, Finish, Dropped, CloseConverter, Outcomes
  <2>3. (ConverterInv /\ SentInv /\ AccountInv)'
    BY <1>9, ChunksAssumption DEF StreamInv, TypeOK, PlacesInv, ConverterInv, SentInv, HeldInv,
       AccountInv, Unwound, Finish, Dropped, CloseConverter, Outcomes
  <2>. QED BY <2>1, <2>2, <2>3 DEF StreamInv
<1>10. CASE CloseBody
  <2>1. TypeOK'
    BY <1>0, <1>10, ChunksAssumption DEF StreamInv, TypeOK, PlacesInv, ConverterInv, SentInv,
       HeldInv, AccountInv, CloseBody, Finish, Outcomes
  <2>2. (PlacesInv /\ HeldInv)'
    BY <1>10, ChunksAssumption DEF StreamInv, TypeOK, PlacesInv, ConverterInv, SentInv, HeldInv,
       AccountInv, CloseBody, Finish, Outcomes
  <2>3. (ConverterInv /\ SentInv /\ AccountInv)'
    BY <1>10, ChunksAssumption DEF StreamInv, TypeOK, PlacesInv, ConverterInv, SentInv, HeldInv,
       AccountInv, CloseBody, Finish, Outcomes
  <2>. QED BY <2>1, <2>2, <2>3 DEF StreamInv
<1>11. CASE Release
  <2>1. TypeOK'
    BY <1>0, <1>11, ChunksAssumption DEF StreamInv, TypeOK, PlacesInv, ConverterInv, SentInv,
       HeldInv, AccountInv, Release, Finish, streamVars, taskVars, Outcomes
  <2>2. (PlacesInv /\ HeldInv)'
    BY <1>11, ChunksAssumption DEF StreamInv, TypeOK, PlacesInv, ConverterInv, SentInv, HeldInv,
       AccountInv, Release, Finish, streamVars, taskVars, Outcomes
  <2>3. (ConverterInv /\ SentInv /\ AccountInv)'
    BY <1>11, ChunksAssumption DEF StreamInv, TypeOK, PlacesInv, ConverterInv, SentInv, HeldInv,
       AccountInv, Release, Finish, streamVars, taskVars, Outcomes
  <2>. QED BY <2>1, <2>2, <2>3 DEF StreamInv
<1>. QED BY <1>1, <1>2, <1>3, <1>4, <1>5, <1>6, <1>7, <1>8, <1>9, <1>10, <1>11 DEF TransportStep

\* The finalizers of the event loop keep it.
LEMMA FinalizersKeepInv ==
    ASSUME StreamInv, Forward, Finalizers
    PROVE  StreamInv'
<1>. UNCHANGED flavor
  BY DEF Finalizers
<1>0. (upClosed \in BOOLEAN /\ entry \in BOOLEAN /\ recorded \in BOOLEAN)'
  BY FlagsStay DEF StreamInv
<1>1. CASE FinalizeKeepalive
  <2>1. TypeOK'
    BY <1>0, <1>1, ChunksAssumption DEF StreamInv, TypeOK, PlacesInv, ConverterInv, SentInv,
       HeldInv, AccountInv, FinalizeKeepalive, streamVars, Outcomes
  <2>2. (PlacesInv /\ HeldInv)'
    BY <1>1, ChunksAssumption DEF StreamInv, TypeOK, PlacesInv, ConverterInv, SentInv, HeldInv,
       AccountInv, FinalizeKeepalive, streamVars, Outcomes
  <2>3. (ConverterInv /\ SentInv /\ AccountInv)'
    BY <1>1, ChunksAssumption DEF StreamInv, TypeOK, PlacesInv, ConverterInv, SentInv, HeldInv,
       AccountInv, FinalizeKeepalive, streamVars, Outcomes
  <2>. QED BY <2>1, <2>2, <2>3 DEF StreamInv
<1>2. CASE KeepaliveFinalized
  <2>1. TypeOK'
    BY <1>0, <1>2, ChunksAssumption DEF StreamInv, TypeOK, PlacesInv, ConverterInv, SentInv,
       HeldInv, AccountInv, KeepaliveFinalized, Dropped, CloseConverter, Outcomes
  <2>2. (PlacesInv /\ HeldInv)'
    BY <1>2, ChunksAssumption DEF StreamInv, TypeOK, PlacesInv, ConverterInv, SentInv, HeldInv,
       AccountInv, KeepaliveFinalized, Dropped, CloseConverter, Outcomes
  <2>3. (ConverterInv /\ SentInv /\ AccountInv)'
    BY <1>2, ChunksAssumption DEF StreamInv, TypeOK, PlacesInv, ConverterInv, SentInv, HeldInv,
       AccountInv, KeepaliveFinalized, Dropped, CloseConverter, Outcomes
  <2>. QED BY <2>1, <2>2, <2>3 DEF StreamInv
<1>3. CASE FinalizeGenerator
  <2>1. TypeOK'
    BY <1>0, <1>3, ChunksAssumption DEF StreamInv, TypeOK, PlacesInv, ConverterInv, SentInv,
       HeldInv, AccountInv, FinalizeGenerator, taskVars, Outcomes
  <2>2. (PlacesInv /\ HeldInv)'
    BY <1>3, ChunksAssumption DEF StreamInv, TypeOK, PlacesInv, ConverterInv, SentInv, HeldInv,
       AccountInv, FinalizeGenerator, taskVars, Outcomes
  <2>3. (ConverterInv /\ SentInv /\ AccountInv)'
    BY <1>3, ChunksAssumption DEF StreamInv, TypeOK, PlacesInv, ConverterInv, SentInv, HeldInv,
       AccountInv, FinalizeGenerator, taskVars, Outcomes
  <2>. QED BY <2>1, <2>2, <2>3 DEF StreamInv
<1>. QED BY <1>1, <1>2, <1>3 DEF Finalizers

\* A ping, a cancellation and a client that leaves keep it.
LEMMA BreaksKeepInv ==
    ASSUME StreamInv, Forward, (Ping \/ Cancelled \/ ClientLeaves) /\ UNCHANGED flavor
    PROVE  StreamInv'
<1>. UNCHANGED flavor
  BY DEF Cancelled
<1>0. (upClosed \in BOOLEAN /\ entry \in BOOLEAN /\ recorded \in BOOLEAN)'
  BY FlagsStay DEF StreamInv
<1>1. CASE Ping
  <2>1. TypeOK'
    BY <1>0, <1>1, ChunksAssumption DEF StreamInv, TypeOK, PlacesInv, ConverterInv, SentInv,
       HeldInv, AccountInv, Ping, streamVars, Outcomes
  <2>2. (PlacesInv /\ HeldInv)'
    BY <1>1, ChunksAssumption DEF StreamInv, TypeOK, PlacesInv, ConverterInv, SentInv, HeldInv,
       AccountInv, Ping, streamVars, Outcomes
  <2>3. (ConverterInv /\ SentInv /\ AccountInv)'
    BY <1>1, ChunksAssumption DEF StreamInv, TypeOK, PlacesInv, ConverterInv, SentInv, HeldInv,
       AccountInv, Ping, streamVars, Outcomes
  <2>. QED BY <2>1, <2>2, <2>3 DEF StreamInv
<1>2. CASE CreationCancelled
  <2>1. TypeOK'
    BY <1>0, <1>2, ChunksAssumption DEF StreamInv, TypeOK, PlacesInv, ConverterInv, SentInv,
       HeldInv, AccountInv, CreationCancelled, Finish, streamVars, taskVars, Outcomes
  <2>2. (PlacesInv /\ HeldInv)'
    BY <1>2, ChunksAssumption DEF StreamInv, TypeOK, PlacesInv, ConverterInv, SentInv, HeldInv,
       AccountInv, CreationCancelled, Finish, streamVars, taskVars, Outcomes
  <2>3. (ConverterInv /\ SentInv /\ AccountInv)'
    BY <1>2, ChunksAssumption DEF StreamInv, TypeOK, PlacesInv, ConverterInv, SentInv, HeldInv,
       AccountInv, CreationCancelled, Finish, streamVars, taskVars, Outcomes
  <2>. QED BY <2>1, <2>2, <2>3 DEF StreamInv
<1>3. CASE CancelledSending
  <2>1. TypeOK'
    BY <1>0, <1>3, ChunksAssumption DEF StreamInv, TypeOK, PlacesInv, ConverterInv, SentInv,
       HeldInv, AccountInv, CancelledSending, streamVars, taskVars, Outcomes
  <2>2. (PlacesInv /\ HeldInv)'
    BY <1>3, ChunksAssumption DEF StreamInv, TypeOK, PlacesInv, ConverterInv, SentInv, HeldInv,
       AccountInv, CancelledSending, streamVars, taskVars, Outcomes
  <2>3. (ConverterInv /\ SentInv /\ AccountInv)'
    BY <1>3, ChunksAssumption DEF StreamInv, TypeOK, PlacesInv, ConverterInv, SentInv, HeldInv,
       AccountInv, CancelledSending, streamVars, taskVars, Outcomes
  <2>. QED BY <2>1, <2>2, <2>3 DEF StreamInv
<1>4. CASE CancelledPulling
  <2>1. TypeOK'
    BY <1>0, <1>4, ChunksAssumption DEF StreamInv, TypeOK, PlacesInv, ConverterInv, SentInv,
       HeldInv, AccountInv, CancelledPulling, streamVars, Outcomes
  <2>2. (PlacesInv /\ HeldInv)'
    BY <1>4, ChunksAssumption DEF StreamInv, TypeOK, PlacesInv, ConverterInv, SentInv, HeldInv,
       AccountInv, CancelledPulling, streamVars, Outcomes
  <2>3. (ConverterInv /\ SentInv /\ AccountInv)'
    BY <1>4, ChunksAssumption DEF StreamInv, TypeOK, PlacesInv, ConverterInv, SentInv, HeldInv,
       AccountInv, CancelledPulling, streamVars, Outcomes
  <2>. QED BY <2>1, <2>2, <2>3 DEF StreamInv
<1>5. CASE ClientLeaves
  <2>1. TypeOK'
    BY <1>0, <1>5, ChunksAssumption DEF StreamInv, TypeOK, PlacesInv, ConverterInv, SentInv,
       HeldInv, AccountInv, ClientLeaves, streamVars, taskVars, Outcomes
  <2>2. (PlacesInv /\ HeldInv)'
    BY <1>5, ChunksAssumption DEF StreamInv, TypeOK, PlacesInv, ConverterInv, SentInv, HeldInv,
       AccountInv, ClientLeaves, streamVars, taskVars, Outcomes
  <2>3. (ConverterInv /\ SentInv /\ AccountInv)'
    BY <1>5, ChunksAssumption DEF StreamInv, TypeOK, PlacesInv, ConverterInv, SentInv, HeldInv,
       AccountInv, ClientLeaves, streamVars, taskVars, Outcomes
  <2>. QED BY <2>1, <2>2, <2>3 DEF StreamInv
<1>. QED BY <1>1, <1>2, <1>3, <1>4, <1>5 DEF Cancelled

\* The specification keeps the invariant.
THEOREM StreamInvariance == Spec => []StreamInv
<1>1. ASSUME StreamInv, [Next]_vars PROVE StreamInv'
  <2>1. CASE Next
    <3>1. Forward
      BY <2>1, StepsGoForward
    <3>. QED BY <2>1, <3>1, <1>1, StepKeepsInv, TransportKeepsInv, FinalizersKeepInv,
        BreaksKeepInv DEF Next
  <2>2. CASE UNCHANGED vars
    BY <1>1, <2>2 DEF vars, StreamInv, TypeOK, PlacesInv, ConverterInv, SentInv, HeldInv,
       AccountInv, Outcomes
  <2>. QED BY <1>1, <2>1, <2>2
<1>. QED BY <1>1, StreamBegun, PTL DEF Spec

-----------------------------------------------------------------------------
(* TranslateStream: what follows.                                          *)

\* Whoever of transport, step and finalizers ends last, a response that was opened
\* leaves neither its upstream connection nor its cancellation entry behind.
THEOREM EverythingIsGivenBack == Spec => []GivenBack
<1>1. StreamInv => GivenBack
  BY DEF StreamInv, HeldInv, GivenBack
<1>. QED BY <1>1, StreamInvariance, PTL

\* with_keepalive never ends over a running step.
THEOREM NoStepIsOrphaned == Spec => []NoOrphanStep
<1>1. StreamInv => NoOrphanStep
  BY DEF StreamInv, PlacesInv, NoOrphanStep
<1>. QED BY <1>1, StreamInvariance, PTL

\* The reported outcome says what became of the frames.
THEOREM ReportedOutcomeIsTrue == Spec => []OutcomeIsTrue
<1>1. StreamInv => OutcomeIsTrue
  <2>. SUFFICES ASSUME StreamInv PROVE OutcomeIsTrue
    OBVIOUS
  <2>1. ASSUME account = "ok" PROVE sent = produced /\ conv = "closed"
    BY <2>1 DEF StreamInv, AccountInv, ConverterInv
  <2>2. ASSUME account = "not_started" PROVE produced = 0 /\ sent = 0 /\ gen # "open"
    <3>1. produced = 0 /\ sent \in 0..produced /\ keepalive = "closed"
      BY <2>2 DEF StreamInv, TypeOK, AccountInv
    <3>2. gen # "open"
      BY <3>1 DEF StreamInv, ConverterInv
    <3>. QED BY <3>1, <3>2
  <2>. QED BY <2>1, <2>2 DEF OutcomeIsTrue
<1>. QED BY <1>1, StreamInvariance, PTL

-----------------------------------------------------------------------------
(* TranslateStream keeps the promise of TrackedRequest.                    *)

\* What the request holds, as TrackedRequest sees it.
Holds == account # "shutdown" /\ (entry \/ (upstream # "none" /\ ~upClosed))

\* A step opens the upstream only under the cancellation entry.
Opened == upstream' # "none" => upstream # "none" \/ entry = TRUE

\* A step reports the request at most once.
Reported == account' = account \/ (account = "inflight" /\ account' \in Outcomes)

\* In a state of the invariant every step does so.
LEMMA StepsOpenUnderEntry ==
    ASSUME StreamInv, Next
    PROVE  Opened
<1>1. CASE StepTask
  <2>1. pending # "none"
    BY <1>1 DEF StepTask, YieldPreamble, ReadChunk, ReadTerminal, ReadEnd, ReadError,
       ReadBreaks, YieldStop, ConverterEnds, StepCancelled, ReadsUpstream
  <2>. QED BY <2>1 DEF StreamInv, HeldInv, PlacesInv, Opened
<1>2. CASE TransportStep
  BY <1>2 DEF StreamInv, HeldInv, Opened, TransportStep, StreamCreated, CreationFails, HeadSent,
     HeadFails, TakeFrame, BodyEnds, ChunkSent, SendFails, Unwound, CloseBody, Release,
     streamVars, CloseConverter
<1>3. CASE Finalizers
  BY <1>3 DEF Opened, Finalizers, FinalizeKeepalive, KeepaliveFinalized, FinalizeGenerator,
     streamVars, CloseConverter
<1>4. CASE (Ping \/ Cancelled \/ ClientLeaves) /\ UNCHANGED flavor
  BY <1>4 DEF Opened, Cancelled, Ping, CreationCancelled, CancelledSending, CancelledPulling,
     ClientLeaves, streamVars
<1>. QED BY <1>1, <1>2, <1>3, <1>4 DEF Next

\* Every step does so.
LEMMA StepsReportOnce ==
    ASSUME Next
    PROVE  Reported
<1>1. CASE StepTask
  BY <1>1 DEF Reported, StepTask
<1>2. CASE TransportStep
  BY <1>2 DEF Reported, Outcomes, TransportStep, StreamCreated, CreationFails, HeadSent,
     HeadFails, TakeFrame, BodyEnds, ChunkSent, SendFails, Unwound, CloseBody, Release, Finish
<1>3. CASE Finalizers
  BY <1>3 DEF Reported, Finalizers, FinalizeKeepalive, KeepaliveFinalized, FinalizeGenerator
<1>4. CASE (Ping \/ Cancelled \/ ClientLeaves) /\ UNCHANGED flavor
  BY <1>4 DEF Reported, Outcomes, Cancelled, Ping, CreationCancelled, CancelledSending,
     CancelledPulling, ClientLeaves, Finish
<1>. QED BY <1>1, <1>2, <1>3, <1>4 DEF Next

\* What is held after a step was held before it.
LEMMA HeldBefore ==
    ASSUME TypeOK, Forward, Opened, Reported, Holds'
    PROVE  Holds
<1>1. upClosed \in BOOLEAN /\ entry \in BOOLEAN
  BY DEF TypeOK
<1>2. account # "shutdown"
  BY DEF Holds, Reported
<1>3. CASE entry'
  BY <1>1, <1>2, <1>3 DEF Holds, Forward
<1>4. CASE upstream' # "none" /\ ~upClosed'
  <2>1. ~upClosed
    BY <1>4, <1>1 DEF Forward
  <2>. QED BY <1>2, <1>4, <2>1 DEF Opened, Holds
<1>. QED BY <1>3, <1>4 DEF Holds

\* A step of the request is one of TrackedRequest or a stutter.
LEMMA StepIsTracked ==
    ASSUME TypeOK, Forward, Opened, Reported
    PROVE  [Tracked!Next]_(Tracked!vars)
<1>1. Holds' = Holds \/ (Holds = TRUE /\ Holds' = FALSE)
  BY HeldBefore DEF Holds
<1>2. Tracked!GiveBack <=> Holds = TRUE /\ Holds' = FALSE
  BY DEF Tracked!GiveBack, Holds
<1>3. Tracked!Finish <=> account = "inflight" /\ account' \in Outcomes
  BY DEF Tracked!Finish
<1>4. CASE Holds' = Holds /\ account' = account
  BY <1>4 DEF Tracked!vars, Holds
<1>5. CASE Holds' = Holds /\ account' # account
  BY <1>5, <1>3 DEF Tracked!Next, Holds, Reported
<1>6. CASE Holds' # Holds
  BY <1>6, <1>1, <1>2, <1>3 DEF Tracked!Next, Reported
<1>. QED BY <1>4, <1>5, <1>6

\* A streamed request of a translate provider is reported exactly once, and what it
\* holds is given back once and not taken again.
THEOREM StreamIsTracked == Spec => KeepsPromise
<1>1. Init => Tracked!Init
  BY DEF Init, Tracked!Init
<1>2. ASSUME StreamInv, [Next]_vars PROVE [Tracked!Next]_(Tracked!vars)
  <2>1. CASE Next
    <3>1. TypeOK /\ Forward /\ Opened /\ Reported
      BY <1>2, <2>1, StepsGoForward, StepsOpenUnderEntry, StepsReportOnce DEF StreamInv
    <3>. QED BY <3>1, StepIsTracked
  <2>2. CASE UNCHANGED vars
    BY <2>2 DEF vars, Tracked!vars
  <2>. QED BY <1>2, <2>1, <2>2
<1>. QED BY <1>1, <1>2, StreamInvariance, PTL DEF Spec, KeepsPromise, Tracked!Spec

-----------------------------------------------------------------------------
(* Passthrough: the invariant.                                             *)

\* The invariant holds when the request arrives.
LEMMA RelayBegun == RelayInit => RelayInv
<1>. SUFFICES ASSUME RelayInit PROVE RelayInv
  OBVIOUS
<1>1. encoded \in BOOLEAN /\ inFrame \in BOOLEAN /\ told \in BOOLEAN
  BY DEF RelayInit
<1>2. RelayTypeOK
  BY <1>1, DelaysAssumption DEF RelayInit, RelayTypeOK
<1>. QED BY <1>2, DelaysAssumption DEF RelayInit, RelayInv, AttemptsInv, HandedInv, ReportInv,
    OkMeansRelayed

\* Attempts and pauses keep it.
LEMMA ConnectingKeepsInv ==
    ASSUME RelayInv, ConnectFails \/ PauseEnds \/ SendBreaks \/ UpstreamAnswers
    PROVE  RelayInv'
<1>1. CASE ConnectFails
  <2>1. RelayTypeOK'
    BY <1>1, DelaysAssumption DEF RelayInv, RelayTypeOK, AttemptsInv, HandedInv, ReportInv,
       OkMeansRelayed, ConnectFails, bodyVars, reportVars, Report
  <2>2. (AttemptsInv /\ HandedInv)'
    BY <1>1, DelaysAssumption DEF RelayInv, RelayTypeOK, AttemptsInv, HandedInv, ReportInv,
       OkMeansRelayed, ConnectFails, bodyVars, reportVars, Report
  <2>3. (ReportInv /\ OkMeansRelayed)'
    BY <1>1, DelaysAssumption DEF RelayInv, RelayTypeOK, AttemptsInv, HandedInv, ReportInv,
       OkMeansRelayed, ConnectFails, bodyVars, reportVars, Report
  <2>. QED BY <2>1, <2>2, <2>3 DEF RelayInv
<1>2. CASE PauseEnds
  <2>1. RelayTypeOK'
    BY <1>2, DelaysAssumption DEF RelayInv, RelayTypeOK, AttemptsInv, HandedInv, ReportInv,
       OkMeansRelayed, PauseEnds, sendVars, bodyVars, reportVars
  <2>2. (AttemptsInv /\ HandedInv)'
    BY <1>2, DelaysAssumption DEF RelayInv, RelayTypeOK, AttemptsInv, HandedInv, ReportInv,
       OkMeansRelayed, PauseEnds, sendVars, bodyVars, reportVars
  <2>3. (ReportInv /\ OkMeansRelayed)'
    BY <1>2, DelaysAssumption DEF RelayInv, RelayTypeOK, AttemptsInv, HandedInv, ReportInv,
       OkMeansRelayed, PauseEnds, sendVars, bodyVars, reportVars
  <2>. QED BY <2>1, <2>2, <2>3 DEF RelayInv
<1>3. CASE SendBreaks
  <2>1. RelayTypeOK'
    BY <1>3, DelaysAssumption DEF RelayInv, RelayTypeOK, AttemptsInv, HandedInv, ReportInv,
       OkMeansRelayed, SendBreaks, bodyVars, reportVars, Report
  <2>2. (AttemptsInv /\ HandedInv)'
    BY <1>3, DelaysAssumption DEF RelayInv, RelayTypeOK, AttemptsInv, HandedInv, ReportInv,
       OkMeansRelayed, SendBreaks, bodyVars, reportVars, Report
  <2>3. (ReportInv /\ OkMeansRelayed)'
    BY <1>3, DelaysAssumption DEF RelayInv, RelayTypeOK, AttemptsInv, HandedInv, ReportInv,
       OkMeansRelayed, SendBreaks, bodyVars, reportVars, Report
  <2>. QED BY <2>1, <2>2, <2>3 DEF RelayInv
<1>4. CASE UpstreamAnswers
  <2>1. RelayTypeOK'
    BY <1>4, DelaysAssumption DEF RelayInv, RelayTypeOK, AttemptsInv, HandedInv, ReportInv,
       OkMeansRelayed, UpstreamAnswers, reportVars
  <2>2. (AttemptsInv /\ HandedInv)'
    BY <1>4, DelaysAssumption DEF RelayInv, RelayTypeOK, AttemptsInv, HandedInv, ReportInv,
       OkMeansRelayed, UpstreamAnswers, reportVars
  <2>3. (ReportInv /\ OkMeansRelayed)'
    BY <1>4, DelaysAssumption DEF RelayInv, RelayTypeOK, AttemptsInv, HandedInv, ReportInv,
       OkMeansRelayed, UpstreamAnswers, reportVars
  <2>. QED BY <2>1, <2>2, <2>3 DEF RelayInv
<1>. QED BY <1>1, <1>2, <1>3, <1>4 DEF RelayStep

\* The steps of the body and of the transport that pulls it keep it.
LEMMA RelayingKeepsInv ==
    ASSUME RelayInv, StreamBegins \/ NeverBegins \/ ChunkArrives \/ UpstreamCompletes \/ UpstreamCuts \/ ErrorSent \/ RelaySent \/ RelayStops \/ PullCancelled
    PROVE  RelayInv'
<1>1. CASE StreamBegins
  <2>1. RelayTypeOK'
    BY <1>1, DelaysAssumption DEF RelayInv, RelayTypeOK, AttemptsInv, HandedInv, ReportInv,
       OkMeansRelayed, StreamBegins, sendVars, bodyVars, reportVars
  <2>2. (AttemptsInv /\ HandedInv)'
    BY <1>1, DelaysAssumption DEF RelayInv, RelayTypeOK, AttemptsInv, HandedInv, ReportInv,
       OkMeansRelayed, StreamBegins, sendVars, bodyVars, reportVars
  <2>3. (ReportInv /\ OkMeansRelayed)'
    BY <1>1, DelaysAssumption DEF RelayInv, RelayTypeOK, AttemptsInv, HandedInv, ReportInv,
       OkMeansRelayed, StreamBegins, sendVars, bodyVars, reportVars
  <2>. QED BY <2>1, <2>2, <2>3 DEF RelayInv
<1>2. CASE NeverBegins
  <2>1. RelayTypeOK'
    BY <1>2, DelaysAssumption DEF RelayInv, RelayTypeOK, AttemptsInv, HandedInv, ReportInv,
       OkMeansRelayed, NeverBegins, sendVars, bodyVars, reportVars
  <2>2. (AttemptsInv /\ HandedInv)'
    BY <1>2, DelaysAssumption DEF RelayInv, RelayTypeOK, AttemptsInv, HandedInv, ReportInv,
       OkMeansRelayed, NeverBegins, sendVars, bodyVars, reportVars
  <2>3. (ReportInv /\ OkMeansRelayed)'
    BY <1>2, DelaysAssumption DEF RelayInv, RelayTypeOK, AttemptsInv, HandedInv, ReportInv,
       OkMeansRelayed, NeverBegins, sendVars, bodyVars, reportVars
  <2>. QED BY <2>1, <2>2, <2>3 DEF RelayInv
<1>3. CASE ChunkArrives
  <2>1. RelayTypeOK'
    BY <1>3, DelaysAssumption DEF RelayInv, RelayTypeOK, AttemptsInv, HandedInv, ReportInv,
       OkMeansRelayed, ChunkArrives, sendVars, reportVars, Report, CloseUpstream, BodyReturns,
       Pulls, RelayYields
  <2>2. (AttemptsInv /\ HandedInv)'
    BY <1>3, DelaysAssumption DEF RelayInv, RelayTypeOK, AttemptsInv, HandedInv, ReportInv,
       OkMeansRelayed, ChunkArrives, sendVars, reportVars, Report, CloseUpstream, BodyReturns,
       Pulls, RelayYields
  <2>3. (ReportInv /\ OkMeansRelayed)'
    BY <1>3, DelaysAssumption DEF RelayInv, RelayTypeOK, AttemptsInv, HandedInv, ReportInv,
       OkMeansRelayed, ChunkArrives, sendVars, reportVars, Report, CloseUpstream, BodyReturns,
       Pulls, RelayYields
  <2>. QED BY <2>1, <2>2, <2>3 DEF RelayInv
<1>4. CASE UpstreamCompletes
  <2>1. RelayTypeOK'
    BY <1>4, DelaysAssumption DEF RelayInv, RelayTypeOK, AttemptsInv, HandedInv, ReportInv,
       OkMeansRelayed, UpstreamCompletes, sendVars, reportVars, Report, CloseUpstream,
       BodyReturns, Pulls
  <2>2. (AttemptsInv /\ HandedInv)'
    BY <1>4, DelaysAssumption DEF RelayInv, RelayTypeOK, AttemptsInv, HandedInv, ReportInv,
       OkMeansRelayed, UpstreamCompletes, sendVars, reportVars, Report, CloseUpstream,
       BodyReturns, Pulls
  <2>3. (ReportInv /\ OkMeansRelayed)'
    BY <1>4, DelaysAssumption DEF RelayInv, RelayTypeOK, AttemptsInv, HandedInv, ReportInv,
       OkMeansRelayed, UpstreamCompletes, sendVars, reportVars, Report, CloseUpstream,
       BodyReturns, Pulls
  <2>. QED BY <2>1, <2>2, <2>3 DEF RelayInv
<1>5. CASE UpstreamCuts
  <2>1. RelayTypeOK'
    BY <1>5, DelaysAssumption DEF RelayInv, RelayTypeOK, AttemptsInv, HandedInv, ReportInv,
       OkMeansRelayed, UpstreamCuts, sendVars, reportVars, Report, CloseUpstream, BodyReturns,
       Pulls, RelayYields
  <2>2. (AttemptsInv /\ HandedInv)'
    BY <1>5, DelaysAssumption DEF RelayInv, RelayTypeOK, AttemptsInv, HandedInv, ReportInv,
       OkMeansRelayed, UpstreamCuts, sendVars, reportVars, Report, CloseUpstream, BodyReturns,
       Pulls, RelayYields
  <2>3. (ReportInv /\ OkMeansRelayed)'
    BY <1>5, DelaysAssumption DEF RelayInv, RelayTypeOK, AttemptsInv, HandedInv, ReportInv,
       OkMeansRelayed, UpstreamCuts, sendVars, reportVars, Report, CloseUpstream, BodyReturns,
       Pulls, RelayYields
  <2>. QED BY <2>1, <2>2, <2>3 DEF RelayInv
<1>6. CASE ErrorSent
  <2>1. RelayTypeOK'
    BY <1>6, DelaysAssumption DEF RelayInv, RelayTypeOK, AttemptsInv, HandedInv, ReportInv,
       OkMeansRelayed, ErrorSent, sendVars, reportVars, Report, CloseUpstream, BodyReturns
  <2>2. (AttemptsInv /\ HandedInv)'
    BY <1>6, DelaysAssumption DEF RelayInv, RelayTypeOK, AttemptsInv, HandedInv, ReportInv,
       OkMeansRelayed, ErrorSent, sendVars, reportVars, Report, CloseUpstream, BodyReturns
  <2>3. (ReportInv /\ OkMeansRelayed)'
    BY <1>6, DelaysAssumption DEF RelayInv, RelayTypeOK, AttemptsInv, HandedInv, ReportInv,
       OkMeansRelayed, ErrorSent, sendVars, reportVars, Report, CloseUpstream, BodyReturns
  <2>. QED BY <2>1, <2>2, <2>3 DEF RelayInv
<1>7. CASE RelaySent
  <2>0. told' \in BOOLEAN
    BY <1>7 DEF RelayInv, RelayTypeOK, RelaySent
  <2>1. RelayTypeOK'
    BY <1>7, <2>0, DelaysAssumption DEF RelayInv, RelayTypeOK, AttemptsInv, HandedInv,
       ReportInv, OkMeansRelayed, RelaySent, sendVars, bodyVars, reportVars
  <2>2. (AttemptsInv /\ HandedInv)'
    BY <1>7, DelaysAssumption DEF RelayInv, RelayTypeOK, AttemptsInv, HandedInv, ReportInv,
       OkMeansRelayed, RelaySent, sendVars, bodyVars, reportVars
  <2>3. (ReportInv /\ OkMeansRelayed)'
    BY <1>7, DelaysAssumption DEF RelayInv, RelayTypeOK, AttemptsInv, HandedInv, ReportInv,
       OkMeansRelayed, RelaySent, sendVars, bodyVars, reportVars
  <2>. QED BY <2>1, <2>2, <2>3 DEF RelayInv
<1>8. CASE RelayStops
  <2>1. RelayTypeOK'
    BY <1>8, DelaysAssumption DEF RelayInv, RelayTypeOK, AttemptsInv, HandedInv, ReportInv,
       OkMeansRelayed, RelayStops, sendVars, bodyVars, reportVars
  <2>2. (AttemptsInv /\ HandedInv)'
    BY <1>8, DelaysAssumption DEF RelayInv, RelayTypeOK, AttemptsInv, HandedInv, ReportInv,
       OkMeansRelayed, RelayStops, sendVars, bodyVars, reportVars
  <2>3. (ReportInv /\ OkMeansRelayed)'
    BY <1>8, DelaysAssumption DEF RelayInv, RelayTypeOK, AttemptsInv, HandedInv, ReportInv,
       OkMeansRelayed, RelayStops, sendVars, bodyVars, reportVars
  <2>. QED BY <2>1, <2>2, <2>3 DEF RelayInv
<1>9. CASE PullCancelled
  <2>1. RelayTypeOK'
    BY <1>9, DelaysAssumption DEF RelayInv, RelayTypeOK, AttemptsInv, HandedInv, ReportInv,
       OkMeansRelayed, PullCancelled, sendVars, reportVars, Report, CloseUpstream, Pulls
  <2>2. (AttemptsInv /\ HandedInv)'
    BY <1>9, DelaysAssumption DEF RelayInv, RelayTypeOK, AttemptsInv, HandedInv, ReportInv,
       OkMeansRelayed, PullCancelled, sendVars, reportVars, Report, CloseUpstream, Pulls
  <2>3. (ReportInv /\ OkMeansRelayed)'
    BY <1>9, DelaysAssumption DEF RelayInv, RelayTypeOK, AttemptsInv, HandedInv, ReportInv,
       OkMeansRelayed, PullCancelled, sendVars, reportVars, Report, CloseUpstream, Pulls
  <2>. QED BY <2>1, <2>2, <2>3 DEF RelayInv
<1>. QED BY <1>1, <1>2, <1>3, <1>4, <1>5, <1>6, <1>7, <1>8, <1>9 DEF RelayStep

\* The steps that end the request, and a client that leaves, keep it.
LEMMA ClosingKeepsInv ==
    ASSUME RelayInv, UnaryRead \/ HandlerCancelled \/ CloseStream \/ ReleaseStream \/ PeerLeaves
    PROVE  RelayInv'
<1>1. CASE UnaryRead
  <2>1. RelayTypeOK'
    BY <1>1, DelaysAssumption DEF RelayInv, RelayTypeOK, AttemptsInv, HandedInv, ReportInv,
       OkMeansRelayed, UnaryRead, sendVars, reportVars, Report, CloseUpstream
  <2>2. (AttemptsInv /\ HandedInv)'
    BY <1>1, DelaysAssumption DEF RelayInv, RelayTypeOK, AttemptsInv, HandedInv, ReportInv,
       OkMeansRelayed, UnaryRead, sendVars, reportVars, Report, CloseUpstream
  <2>3. (ReportInv /\ OkMeansRelayed)'
    BY <1>1, DelaysAssumption DEF RelayInv, RelayTypeOK, AttemptsInv, HandedInv, ReportInv,
       OkMeansRelayed, UnaryRead, sendVars, reportVars, Report, CloseUpstream
  <2>. QED BY <2>1, <2>2, <2>3 DEF RelayInv
<1>2. CASE HandlerCancelled
  <2>1. RelayTypeOK'
    BY <1>2, DelaysAssumption DEF RelayInv, RelayTypeOK, AttemptsInv, HandedInv, ReportInv,
       OkMeansRelayed, HandlerCancelled, sendVars, bodyVars, reportVars, Report, CloseUpstream
  <2>2. (AttemptsInv /\ HandedInv)'
    BY <1>2, DelaysAssumption DEF RelayInv, RelayTypeOK, AttemptsInv, HandedInv, ReportInv,
       OkMeansRelayed, HandlerCancelled, sendVars, bodyVars, reportVars, Report, CloseUpstream
  <2>3. (ReportInv /\ OkMeansRelayed)'
    BY <1>2, DelaysAssumption DEF RelayInv, RelayTypeOK, AttemptsInv, HandedInv, ReportInv,
       OkMeansRelayed, HandlerCancelled, sendVars, bodyVars, reportVars, Report, CloseUpstream
  <2>. QED BY <2>1, <2>2, <2>3 DEF RelayInv
<1>3. CASE CloseStream
  <2>1. RelayTypeOK'
    BY <1>3, DelaysAssumption DEF RelayInv, RelayTypeOK, AttemptsInv, HandedInv, ReportInv,
       OkMeansRelayed, CloseStream, sendVars, reportVars, Report, CloseUpstream
  <2>2. (AttemptsInv /\ HandedInv)'
    BY <1>3, DelaysAssumption DEF RelayInv, RelayTypeOK, AttemptsInv, HandedInv, ReportInv,
       OkMeansRelayed, CloseStream, sendVars, reportVars, Report, CloseUpstream
  <2>3. (ReportInv /\ OkMeansRelayed)'
    BY <1>3, DelaysAssumption DEF RelayInv, RelayTypeOK, AttemptsInv, HandedInv, ReportInv,
       OkMeansRelayed, CloseStream, sendVars, reportVars, Report, CloseUpstream
  <2>. QED BY <2>1, <2>2, <2>3 DEF RelayInv
<1>4. CASE ReleaseStream
  <2>1. RelayTypeOK'
    BY <1>4, DelaysAssumption DEF RelayInv, RelayTypeOK, AttemptsInv, HandedInv, ReportInv,
       OkMeansRelayed, ReleaseStream, sendVars, bodyVars, reportVars, Report, CloseUpstream
  <2>2. (AttemptsInv /\ HandedInv)'
    BY <1>4, DelaysAssumption DEF RelayInv, RelayTypeOK, AttemptsInv, HandedInv, ReportInv,
       OkMeansRelayed, ReleaseStream, sendVars, bodyVars, reportVars, Report, CloseUpstream
  <2>3. (ReportInv /\ OkMeansRelayed)'
    BY <1>4, DelaysAssumption DEF RelayInv, RelayTypeOK, AttemptsInv, HandedInv, ReportInv,
       OkMeansRelayed, ReleaseStream, sendVars, bodyVars, reportVars, Report, CloseUpstream
  <2>. QED BY <2>1, <2>2, <2>3 DEF RelayInv
<1>5. CASE PeerLeaves
  <2>1. RelayTypeOK'
    BY <1>5, DelaysAssumption DEF RelayInv, RelayTypeOK, AttemptsInv, HandedInv, ReportInv,
       OkMeansRelayed, PeerLeaves, sendVars, bodyVars, reportVars
  <2>2. (AttemptsInv /\ HandedInv)'
    BY <1>5, DelaysAssumption DEF RelayInv, RelayTypeOK, AttemptsInv, HandedInv, ReportInv,
       OkMeansRelayed, PeerLeaves, sendVars, bodyVars, reportVars
  <2>3. (ReportInv /\ OkMeansRelayed)'
    BY <1>5, DelaysAssumption DEF RelayInv, RelayTypeOK, AttemptsInv, HandedInv, ReportInv,
       OkMeansRelayed, PeerLeaves, sendVars, bodyVars, reportVars
  <2>. QED BY <2>1, <2>2, <2>3 DEF RelayInv
<1>. QED BY <1>1, <1>2, <1>3, <1>4, <1>5 DEF RelayStep

\* The specification keeps the invariant.
THEOREM RelayInvariance == RelaySpec => []RelayInv
<1>1. ASSUME RelayInv, [RelayNext]_relayVars PROVE RelayInv'
  <2>1. CASE RelayNext
    BY <1>1, <2>1, ConnectingKeepsInv, RelayingKeepsInv, ClosingKeepsInv DEF RelayNext,
       RelayStep, RelayCancelled
  <2>2. CASE UNCHANGED relayVars
    BY <1>1, <2>2 DEF relayVars, sendVars, bodyVars, reportVars, RelayInv, RelayTypeOK,
       AttemptsInv, HandedInv, ReportInv, OkMeansRelayed
  <2>. QED BY <1>1, <2>1, <2>2
<1>. QED BY <1>1, RelayBegun, PTL DEF RelaySpec

-----------------------------------------------------------------------------
(* Passthrough: what follows.                                              *)

\* However many attempts are made, the upstream sees at most one request.
THEOREM RequestsAreSentOnce == RelaySpec => []SentAtMostOnce
<1>1. RelayInv => SentAtMostOnce
  BY DEF RelayInv, AttemptsInv, SentAtMostOnce
<1>. QED BY <1>1, RelayInvariance, PTL

\* A stream that counts as a success was relayed to its end or ended with an error
\* event, unless the client left.
THEOREM SuccessIsRelayed == RelaySpec => []OkMeansRelayed
<1>1. RelayInv => OkMeansRelayed
  BY DEF RelayInv
<1>. QED BY <1>1, RelayInvariance, PTL

\* What a passthrough request holds, as TrackedRequest sees it.
RelayHolds == conn = "open" \/ relay \in {"connecting", "pausing"}

\* What a relay may report.
RelayOutcomes == {"ok", "broken", "failed", "not_started"}

\* A step reports the request at most once, and connects only while it may.
RelayForward ==
    /\ outcome' = outcome \/ (outcome = "inflight" /\ outcome' \in RelayOutcomes)
    /\ conn' = "open" => conn = "open" \/ relay = "connecting"
    /\ relay' \in {"connecting", "pausing"} => relay \in {"connecting", "pausing"}

\* Every step goes forward.
LEMMA RelayGoesForward ==
    ASSUME RelayNext
    PROVE  RelayForward
<1>1. CASE RelayStep
  BY <1>1 DEF RelayForward, RelayOutcomes, RelayStep, ConnectFails, PauseEnds, SendBreaks,
     UpstreamAnswers, StreamBegins, NeverBegins, ChunkArrives, UpstreamCompletes, UpstreamCuts,
     ErrorSent, RelaySent, UnaryRead, CloseStream, ReleaseStream, sendVars, bodyVars,
     reportVars, Report, CloseUpstream, BodyReturns, Pulls, RelayYields
<1>2. CASE RelayCancelled \/ PeerLeaves
  BY <1>2 DEF RelayForward, RelayOutcomes, RelayCancelled, HandlerCancelled, RelayStops,
     PullCancelled, PeerLeaves, sendVars, bodyVars, reportVars, Report, CloseUpstream, Pulls
<1>. QED BY <1>1, <1>2 DEF RelayNext

\* A step of the request is one of TrackedRequest or a stutter.
LEMMA RelayStepIsTracked ==
    ASSUME RelayForward
    PROVE  [Relayed!Next]_(Relayed!vars)
<1>1. RelayHolds' = RelayHolds \/ (RelayHolds = TRUE /\ RelayHolds' = FALSE)
  BY DEF RelayHolds, RelayForward
<1>2. Relayed!GiveBack <=> RelayHolds = TRUE /\ RelayHolds' = FALSE
  BY DEF Relayed!GiveBack, RelayHolds
<1>3. Relayed!Finish <=> outcome = "inflight" /\ outcome' \in RelayOutcomes
  BY DEF Relayed!Finish, RelayOutcomes
<1>4. CASE RelayHolds' = RelayHolds /\ outcome' = outcome
  BY <1>4 DEF Relayed!vars, RelayHolds
<1>5. CASE RelayHolds' = RelayHolds /\ outcome' # outcome
  BY <1>5, <1>3 DEF Relayed!Next, RelayHolds, RelayForward
<1>6. CASE RelayHolds' # RelayHolds
  BY <1>6, <1>1, <1>2, <1>3 DEF Relayed!Next, RelayForward
<1>. QED BY <1>4, <1>5, <1>6

\* A request of a passthrough provider is reported exactly once, and its upstream
\* connection is given back once, also by a stream that never begins.
THEOREM RelayIsTracked == RelaySpec => RelayKeepsPromise
<1>1. RelayInit => Relayed!Init
  BY DEF RelayInit, Relayed!Init
<1>2. ASSUME [RelayNext]_relayVars PROVE [Relayed!Next]_(Relayed!vars)
  <2>1. CASE RelayNext
    BY <2>1, RelayGoesForward, RelayStepIsTracked
  <2>2. CASE UNCHANGED relayVars
    BY <2>2 DEF relayVars, sendVars, reportVars, bodyVars, Relayed!vars
  <2>. QED BY <1>2, <2>1, <2>2
<1>. QED BY <1>1, <1>2, PTL DEF RelaySpec, RelayKeepsPromise, Relayed!Spec

-----------------------------------------------------------------------------
(* The two together, as MCTranslateStream composes them.                   *)

\* The composition is one of the two at a time.
LEMMA CompositionIsBoth == MCSpec => Spec /\ RelaySpec
<1>1. MCInit => Init /\ RelayInit
  BY DEF MCInit
<1>2. [MCNext]_<<vars, relayVars>> => [Next]_vars /\ [RelayNext]_relayVars
  BY DEF MCNext
<1>. QED BY <1>1, <1>2, PTL DEF MCSpec, Spec, RelaySpec

\* Both inductive invariants hold of the composition.
THEOREM StreamsInvariance == MCSpec => []StreamsInv
<1>1. StreamInv /\ RelayInv => StreamsInv
  BY DEF StreamsInv
<1>. QED BY <1>1, CompositionIsBoth, StreamInvariance, RelayInvariance, PTL

\* Requests of either kind of provider keep the promise.
THEOREM PromisesAreKept == MCSpec => KeepPromises
BY CompositionIsBoth, StreamIsTracked, RelayIsTracked, PTL DEF KeepPromises
=============================================================================
