----------------------- MODULE ResponseConverterProofs -----------------------
(***************************************************************************)
(* Proofs about ResponseConverter: for any calls, any number of pieces and *)
(* any number of text deltas, both converters keep the invariant, send the *)
(* whole input of every tool they ask for, and implement MessageStream.    *)
(***************************************************************************)
EXTENDS ResponseConverter, TLAPS

\* The pieces that have arrived, and one more.
LEMMA OneMorePiece ==
    ASSUME NEW p \in Nat
    PROVE  Append([n \in 1..p |-> n], p + 1) = [n \in 1..(p + 1) |-> n]
<1>1. [n \in 1..p |-> n] \in Seq(Nat) /\ Len([n \in 1..p |-> n]) = p
  OBVIOUS
<1>. QED BY <1>1

\* Counting up to p is not the whole unless p is the last piece.
LEMMA WholeIsLast ==
    ASSUME NEW p \in Nat, [n \in 1..p |-> n] = Whole
    PROVE  p = Pieces
<1>1. Pieces \in Nat
  BY ConverterAssumption
<1>2. DOMAIN [n \in 1..p |-> n] = 1..p /\ DOMAIN Whole = 1..Pieces
  BY DEF Whole
<1>3. 1..p = 1..Pieces
  BY <1>2
<1>. QED BY <1>1, <1>3

\* An entry of the dict that is new is at the end of its order.
LEMMA AppendedIsSeen ==
    ASSUME NEW o \in Seq(Indexes), NEW i \in Indexes, NEW j \in Indexes
    PROVE  (\E k \in DOMAIN Append(o, i) : Append(o, i)[k] = j) <=>
           (j = i \/ \E k \in DOMAIN o : o[k] = j)
<1>1. Len(o) \in Nat /\ DOMAIN o = 1..Len(o) /\ DOMAIN Append(o, i) = 1..(Len(o) + 1)
  OBVIOUS
<1>2. Append(o, i)[Len(o) + 1] = i /\ \A k \in 1..Len(o) : Append(o, i)[k] = o[k]
  OBVIOUS
<1>3. \A k \in DOMAIN Append(o, i) : k = Len(o) + 1 \/ k \in 1..Len(o)
  BY <1>1
<1>4. Len(o) + 1 \in DOMAIN Append(o, i) /\ \A k \in DOMAIN o : k \in DOMAIN Append(o, i)
  BY <1>1
<1>. QED BY <1>1, <1>2, <1>3, <1>4

LEMMA SeenAfterAppend ==
    ASSUME TypeOK, NEW i \in Indexes, order' = Append(order, i)
    PROVE  Seen' = Seen \cup {i} /\ order' \in Seq(Indexes)
<1>1. order \in Seq(Indexes)
  BY DEF TypeOK
<1>2. \A j \in Indexes : j \in Seen' <=> (j = i \/ j \in Seen)
  BY <1>1, AppendedIsSeen DEF Seen
<1>. QED BY <1>1, <1>2 DEF Seen

LEMMA SeenAfterSee ==
    ASSUME TypeOK, NEW i \in Indexes, See(i)
    PROVE  Seen' = Seen \cup {i} /\ order' \in Seq(Indexes)
<1>1. CASE i \in Seen
  BY <1>1 DEF See, Seen, TypeOK
<1>2. CASE i \notin Seen
  BY <1>2, SeenAfterAppend DEF See
<1>. QED BY <1>1, <1>2

-----------------------------------------------------------------------------
(* What the upstream sent of a call, after each of its events.             *)

LEMMA ConstantTypes ==
    /\ Whole \in Seq(1..Pieces) /\ Len(Whole) = Pieces
    /\ Unseen \in Entries
    /\ Nothing \in Accounts
<1>1. Pieces \in Nat
  BY ConverterAssumption
<1>. QED BY <1>1 DEF Whole, Unseen, Nothing, Entries, Accounts

\* Updates of an entry of the dict, and of what was sent of a call.
LEMMA EntryUpdates ==
    ASSUME NEW e \in Entries, NEW n \in Nat
    PROVE  /\ \A known \in SUBSET Identity : [e EXCEPT !.known = known] \in Entries
           /\ \A buffer \in Seq(1..Pieces) : [e EXCEPT !.buffer = buffer] \in Entries
           /\ [e EXCEPT !.inputs = n] \in Entries
           /\ [e EXCEPT !.block = n] \in Entries
BY DEF Entries

LEMMA AccountUpdates ==
    ASSUME NEW a \in Accounts
    PROVE  /\ \A known \in SUBSET Identity : [a EXCEPT !.known = known] \in Accounts
           /\ \A n \in 0..Pieces : [a EXCEPT !.pieces = n] \in Accounts
           /\ \A b \in BOOLEAN : [a EXCEPT !.early = b] \in Accounts
BY DEF Accounts

LEMMA IdentitySent ==
    ASSUME TypeOK, NEW i \in Indexes, NEW fields \in SUBSET Identity,
           sent' = [sent EXCEPT ![i].known = @ \cup fields]
    PROVE  /\ sent' \in [Indexes -> Accounts]
           /\ sent'[i].known = sent[i].known \cup fields
           /\ sent'[i].pieces = sent[i].pieces /\ sent'[i].early = sent[i].early
           /\ \A j \in Indexes \ {i} : sent'[j] = sent[j]
<1>1. sent[i] \in Accounts /\ sent \in [Indexes -> Accounts]
  BY DEF TypeOK
<1> DEFINE known == sent[i].known \cup fields
           a == [sent[i] EXCEPT !.known = known]
<1>2. known \in SUBSET Identity
  BY <1>1 DEF Accounts
<1>3. a \in Accounts
  BY <1>1, <1>2, AccountUpdates
<1>4. a.known = known /\ a.pieces = sent[i].pieces /\ a.early = sent[i].early
  BY <1>1 DEF Accounts
<1>5. sent' = [sent EXCEPT ![i] = a]
  BY <1>1
<1> HIDE DEF a
<1>6. sent'[i] = a /\ \A j \in Indexes \ {i} : sent'[j] = sent[j]
  BY <1>1, <1>5
<1>7. sent' \in [Indexes -> Accounts]
  BY <1>1, <1>3, <1>5
<1>. QED BY <1>4, <1>6, <1>7

LEMMA ArgumentsSent ==
    ASSUME TypeOK, NEW i \in Indexes, NEW pieces \in 0..Pieces,
           sent' = [sent EXCEPT ![i].pieces = pieces,
                                ![i].early = @ \/ sent[i].known # Identity]
    PROVE  /\ sent' \in [Indexes -> Accounts]
           /\ sent'[i].known = sent[i].known
           /\ sent'[i].pieces = pieces
           /\ sent'[i].early = (sent[i].early \/ sent[i].known # Identity)
           /\ \A j \in Indexes \ {i} : sent'[j] = sent[j]
<1>1. sent[i] \in Accounts /\ sent \in [Indexes -> Accounts]
  BY DEF TypeOK
<1> DEFINE more == [sent[i] EXCEPT !.pieces = pieces]
           late == sent[i].early \/ sent[i].known # Identity
           a == [more EXCEPT !.early = late]
<1>2. more \in Accounts /\ more.early = sent[i].early /\ more.known = sent[i].known
      /\ more.pieces = pieces
  BY <1>1, AccountUpdates DEF Accounts
<1>3. late \in BOOLEAN
  BY <1>1 DEF Accounts
<1>4. sent' = [sent EXCEPT ![i] = a]
  BY <1>1
<1> HIDE DEF more, late
<1>5. a \in Accounts /\ a.known = more.known /\ a.pieces = more.pieces /\ a.early = late
  BY <1>2, <1>3, AccountUpdates DEF Accounts
<1> HIDE DEF a
<1>6. sent'[i] = a /\ \A j \in Indexes \ {i} : sent'[j] = sent[j]
  BY <1>1, <1>4
<1>7. sent' \in [Indexes -> Accounts]
  BY <1>1, <1>4, <1>5
<1>8. late = (sent[i].early \/ sent[i].known # Identity)
  BY DEF late
<1>. QED BY <1>2, <1>5, <1>6, <1>7, <1>8

LEMMA PieceSent ==
    ASSUME TypeOK, NEW i \in Indexes, SendsPiece(i)
    PROVE  /\ sent[i].pieces \in Nat /\ sent[i].pieces + 1 \in 1..Pieces
           /\ sent' \in [Indexes -> Accounts]
           /\ sent'[i].known = sent[i].known
           /\ sent'[i].pieces = sent[i].pieces + 1
           /\ sent'[i].early = (sent[i].early \/ sent[i].known # Identity)
           /\ \A j \in Indexes \ {i} : sent'[j] = sent[j]
<1>1. sent[i] \in Accounts
  BY DEF TypeOK
<1>2. sent[i].pieces \in 0..Pieces /\ sent[i].pieces < Pieces /\ Pieces \in Nat
  BY <1>1, ConverterAssumption DEF Accounts, SendsPiece
<1>3. sent[i].pieces + 1 \in 1..Pieces /\ sent[i].pieces + 1 \in 0..Pieces
  BY <1>2
<1>4. sent' = [sent EXCEPT ![i].pieces = sent[i].pieces + 1,
                           ![i].early = @ \/ sent[i].known # Identity]
  BY DEF SendsPiece
<1> DEFINE pieces == sent[i].pieces + 1
<1>5. pieces \in 0..Pieces /\ sent' = [sent EXCEPT ![i].pieces = pieces,
                           ![i].early = @ \/ sent[i].known # Identity]
  BY <1>3, <1>4
<1> HIDE DEF pieces
<1>6. /\ sent' \in [Indexes -> Accounts]
      /\ sent'[i].known = sent[i].known
      /\ sent'[i].pieces = pieces
      /\ sent'[i].early = (sent[i].early \/ sent[i].known # Identity)
      /\ \A j \in Indexes \ {i} : sent'[j] = sent[j]
  BY <1>5, ArgumentsSent
<1>. QED BY <1>2, <1>3, <1>6 DEF pieces

LEMMA WholeSent ==
    ASSUME TypeOK, NEW i \in Indexes, SendsArguments(i)
    PROVE  /\ sent' \in [Indexes -> Accounts]
           /\ sent'[i].known = sent[i].known
           /\ sent'[i].pieces = Pieces
           /\ sent'[i].early = (sent[i].early \/ sent[i].known # Identity)
           /\ \A j \in Indexes \ {i} : sent'[j] = sent[j]
<1>1. Pieces \in 0..Pieces
  BY ConverterAssumption
<1>. QED BY <1>1, ArgumentsSent DEF SendsArguments

-----------------------------------------------------------------------------
(* The entry of a call, after each event.                                  *)

LEMMA BlockStarted ==
    ASSUME TypeOK, NEW i \in Indexes, NEW n \in Nat,
           calls' = [calls EXCEPT ![i].known = Identity, ![i].block = n]
    PROVE  /\ calls' \in [Indexes -> Entries]
           /\ calls'[i].known = Identity /\ calls'[i].block = n
           /\ calls'[i].buffer = calls[i].buffer /\ calls'[i].inputs = calls[i].inputs
           /\ \A j \in Indexes \ {i} : calls'[j] = calls[j]
<1>1. calls[i] \in Entries /\ calls \in [Indexes -> Entries]
  BY DEF TypeOK
<1> DEFINE named == [calls[i] EXCEPT !.known = Identity]
           e == [named EXCEPT !.block = n]
<1>2. /\ named \in Entries /\ named.known = Identity
      /\ named.buffer = calls[i].buffer /\ named.inputs = calls[i].inputs
  BY <1>1, EntryUpdates DEF Entries
<1>3. calls' = [calls EXCEPT ![i] = e]
  BY <1>1
<1> HIDE DEF named
<1>4. /\ e \in Entries /\ e.known = named.known /\ e.block = n
      /\ e.buffer = named.buffer /\ e.inputs = named.inputs
  BY <1>2, EntryUpdates DEF Entries
<1> HIDE DEF e
<1>5. calls'[i] = e /\ \A j \in Indexes \ {i} : calls'[j] = calls[j]
  BY <1>1, <1>3
<1>6. calls' \in [Indexes -> Entries]
  BY <1>1, <1>3, <1>4
<1>. QED BY <1>2, <1>4, <1>5, <1>6

LEMMA FieldsKnown ==
    ASSUME TypeOK, NEW i \in Indexes, NEW fields \in SUBSET Identity,
           calls' = [calls EXCEPT ![i].known = @ \cup fields]
    PROVE  /\ calls' \in [Indexes -> Entries]
           /\ calls'[i].known = calls[i].known \cup fields /\ calls'[i].block = calls[i].block
           /\ calls'[i].buffer = calls[i].buffer /\ calls'[i].inputs = calls[i].inputs
           /\ \A j \in Indexes \ {i} : calls'[j] = calls[j]
<1>1. calls[i] \in Entries /\ calls \in [Indexes -> Entries]
  BY DEF TypeOK
<1> DEFINE known == calls[i].known \cup fields
           e == [calls[i] EXCEPT !.known = known]
<1>2. known \in SUBSET Identity
  BY <1>1 DEF Entries
<1>3. e \in Entries
  BY <1>1, <1>2, EntryUpdates
<1>4. e.known = known /\ e.block = calls[i].block /\ e.buffer = calls[i].buffer
      /\ e.inputs = calls[i].inputs
  BY <1>1 DEF Entries
<1>5. calls' = [calls EXCEPT ![i] = e]
  BY <1>1
<1> HIDE DEF e
<1>6. calls'[i] = e /\ \A j \in Indexes \ {i} : calls'[j] = calls[j]
  BY <1>1, <1>5
<1>7. calls' \in [Indexes -> Entries]
  BY <1>1, <1>3, <1>5
<1>. QED BY <1>4, <1>6, <1>7

LEMMA BufferAndInputs ==
    ASSUME TypeOK, NEW i \in Indexes, NEW b \in Seq(1..Pieces), NEW n \in Nat,
           calls' = [calls EXCEPT ![i].buffer = b, ![i].inputs = n]
    PROVE  /\ calls' \in [Indexes -> Entries]
           /\ calls'[i].known = calls[i].known /\ calls'[i].block = calls[i].block
           /\ calls'[i].buffer = b /\ calls'[i].inputs = n
           /\ \A j \in Indexes \ {i} : calls'[j] = calls[j]
<1>1. calls[i] \in Entries /\ calls \in [Indexes -> Entries]
  BY DEF TypeOK
<1> DEFINE filled == [calls[i] EXCEPT !.buffer = b]
           e == [filled EXCEPT !.inputs = n]
<1>2. /\ filled \in Entries /\ filled.known = calls[i].known
      /\ filled.buffer = b /\ filled.block = calls[i].block
  BY <1>1, EntryUpdates DEF Entries
<1>3. calls' = [calls EXCEPT ![i] = e]
  BY <1>1
<1> HIDE DEF filled
<1>4. /\ e \in Entries /\ e.known = filled.known /\ e.block = filled.block
      /\ e.buffer = filled.buffer /\ e.inputs = n
  BY <1>2, EntryUpdates DEF Entries
<1> HIDE DEF e
<1>5. calls'[i] = e /\ \A j \in Indexes \ {i} : calls'[j] = calls[j]
  BY <1>1, <1>3
<1>6. calls' \in [Indexes -> Entries]
  BY <1>1, <1>3, <1>4
<1>. QED BY <1>2, <1>4, <1>5, <1>6

LEMMA WholeBuffered ==
    ASSUME TypeOK, NEW i \in Indexes,
           calls' = [calls EXCEPT ![i].buffer = Whole, ![i].inputs = 1]
    PROVE  /\ calls' \in [Indexes -> Entries]
           /\ calls'[i].known = calls[i].known /\ calls'[i].block = calls[i].block
           /\ calls'[i].buffer = Whole /\ calls'[i].inputs = 1
           /\ \A j \in Indexes \ {i} : calls'[j] = calls[j]
BY ConstantTypes, BufferAndInputs

LEMMA PieceBuffered ==
    ASSUME TypeOK, NEW i \in Indexes, SendsPiece(i), Buffered(i)
    PROVE  /\ calls' \in [Indexes -> Entries]
           /\ calls'[i].known = calls[i].known /\ calls'[i].block = calls[i].block
           /\ calls'[i].buffer = Append(calls[i].buffer, sent[i].pieces + 1)
           /\ calls'[i].inputs = IF calls'[i].buffer = Whole /\ calls[i].inputs = 0
                                 THEN 1 ELSE calls[i].inputs
           /\ \A j \in Indexes \ {i} : calls'[j] = calls[j]
<1>1. calls[i] \in Entries /\ calls \in [Indexes -> Entries]
  BY DEF TypeOK
<1>2. calls[i].buffer \in Seq(1..Pieces) /\ calls[i].inputs \in Nat
  BY <1>1 DEF Entries
<1> DEFINE b == Append(calls[i].buffer, sent[i].pieces + 1)
           n == IF b = Whole /\ calls[i].inputs = 0 THEN 1 ELSE calls[i].inputs
<1>3. b \in Seq(1..Pieces)
  BY <1>2, PieceSent
<1>4. n \in Nat
  BY <1>2
<1>5. calls' = [calls EXCEPT ![i].buffer = b, ![i].inputs = n]
  <2>1. calls' = [calls EXCEPT ![i].buffer = b,
                               ![i].inputs = IF b = Whole /\ @ = 0 THEN 1 ELSE @]
    BY DEF Buffered
  <2>2. [calls EXCEPT ![i].buffer = b][i].inputs = calls[i].inputs
    BY <1>1 DEF Entries
  <2>. QED BY <2>1, <2>2
<1> HIDE DEF b, n
<1>6. /\ calls' \in [Indexes -> Entries]
      /\ calls'[i].known = calls[i].known /\ calls'[i].block = calls[i].block
      /\ calls'[i].buffer = b /\ calls'[i].inputs = n
      /\ \A j \in Indexes \ {i} : calls'[j] = calls[j]
  BY <1>3, <1>4, <1>5, BufferAndInputs
<1>. QED BY <1>6 DEF b, n

LEMMA ItemAdded ==
    ASSUME TypeOK, NEW i \in Indexes, NEW n \in Nat,
           calls' = [calls EXCEPT ![i] = [Unseen EXCEPT !.known = Identity, !.block = n]]
    PROVE  /\ calls' \in [Indexes -> Entries]
           /\ calls'[i].known = Identity /\ calls'[i].block = n
           /\ calls'[i].buffer = <<>> /\ calls'[i].inputs = 0
           /\ \A j \in Indexes \ {i} : calls'[j] = calls[j]
<1> DEFINE named == [Unseen EXCEPT !.known = Identity]
           e == [named EXCEPT !.block = n]
<1>1. /\ named \in Entries /\ named.known = Identity
      /\ named.buffer = <<>> /\ named.inputs = 0
  <2>1. Unseen \in Entries /\ Unseen.buffer = <<>> /\ Unseen.inputs = 0
    BY ConstantTypes DEF Unseen
  <2> HIDE DEF named
  <2>2. named = [Unseen EXCEPT !.known = Identity]
    BY DEF named
  <2>. QED BY <2>1, <2>2, EntryUpdates DEF Entries
<1>2. calls' = [calls EXCEPT ![i] = e] /\ calls \in [Indexes -> Entries]
  BY DEF TypeOK
<1> HIDE DEF named
<1>3. /\ e \in Entries /\ e.known = named.known /\ e.block = n
      /\ e.buffer = named.buffer /\ e.inputs = named.inputs
  BY <1>1, EntryUpdates DEF Entries
<1> HIDE DEF e
<1>4. calls'[i] = e /\ \A j \in Indexes \ {i} : calls'[j] = calls[j]
  BY <1>2
<1>5. calls' \in [Indexes -> Entries]
  BY <1>2, <1>3
<1>. QED BY <1>1, <1>3, <1>4, <1>5

-----------------------------------------------------------------------------
(* Types.                                                                  *)

LEMMA TypeStep ==
    ASSUME TypeOK, [Next]_vars
    PROVE  TypeOK'
<1>1. CASE YieldPreamble
  BY <1>1 DEF TypeOK, YieldPreamble, Preamble, outside, upstreamVars
<1>2. ASSUME NEW f \in {"chat", "responses"}, Text(f) PROVE TypeOK'
  <2>1. texts + 1 \in 0..MaxTexts
    BY <1>2, ConverterAssumption DEF TypeOK, Text
  <2>. QED BY <1>2, <2>1 DEF TypeOK, Text, outside, upstreamVars
<1>3. ASSUME NEW i \in Indexes, NEW fields \in SUBSET Identity, ChatIdentity(i, fields)
      PROVE  TypeOK'
  <2>1. order' \in Seq(Indexes)
    BY <1>3, SeenAfterSee DEF ChatIdentity
  <2>2. sent' \in [Indexes -> Accounts]
    BY <1>3, IdentitySent DEF ChatIdentity
  <2>3. counter' \in Nat /\ calls' \in [Indexes -> Entries]
    <3>1. counter \in Nat /\ counter + 1 \in Nat
      BY DEF TypeOK
    <3>. QED BY <1>3, <3>1, BlockStarted, FieldsKnown DEF ChatIdentity
  <2>. QED BY <1>3, <2>1, <2>2, <2>3 DEF TypeOK, ChatIdentity, outside
<1>4. ASSUME NEW i \in Indexes, ChatPiece(i) PROVE TypeOK'
  <2>1. order' \in Seq(Indexes) /\ sent' \in [Indexes -> Accounts]
    BY <1>4, SeenAfterSee, PieceSent DEF ChatPiece
  <2>2. calls' \in [Indexes -> Entries]
    BY <1>4, PieceBuffered DEF ChatPiece, TypeOK
  <2>. QED BY <1>4, <2>1, <2>2 DEF TypeOK, ChatPiece, outside
<1>5. ASSUME NEW reason \in {"stop", "length", "tool_calls"}, ChatFinish(reason) PROVE TypeOK'
  BY <1>5 DEF TypeOK, ChatFinish, outside
<1>6. ASSUME NEW i \in Indexes, ResponsesItem(i) PROVE TypeOK'
  <2>1. order' \in Seq(Indexes)
    BY <1>6, SeenAfterAppend DEF ResponsesItem
  <2>2. counter' \in Nat /\ calls' \in [Indexes -> Entries]
    <3>1. counter \in Nat /\ counter + 1 \in Nat
      BY DEF TypeOK
    <3>. QED BY <1>6, <3>1, ItemAdded DEF ResponsesItem
  <2>3. sent' \in [Indexes -> Accounts]
    <3>1. sent[i] \in Accounts /\ Identity \in SUBSET Identity
      BY DEF TypeOK
    <3>2. sent' = [sent EXCEPT ![i] = [sent[i] EXCEPT !.known = Identity]]
      BY <1>6 DEF ResponsesItem
    <3>. QED BY <3>1, <3>2, AccountUpdates DEF TypeOK
  <2>. QED BY <1>6, <2>1, <2>2, <2>3 DEF TypeOK, ResponsesItem, outside
<1>7. ASSUME NEW i \in Indexes, ResponsesPiece(i) PROVE TypeOK'
  <2>1. sent' \in [Indexes -> Accounts]
    BY <1>7, PieceSent DEF ResponsesPiece
  <2>2. calls' \in [Indexes -> Entries]
    BY <1>7, PieceBuffered DEF ResponsesPiece, TypeOK
  <2>. QED BY <1>7, <2>1, <2>2 DEF TypeOK, ResponsesPiece, outside
<1>8. ASSUME NEW i \in Indexes, ResponsesArguments(i) PROVE TypeOK'
  <2>1. calls' \in [Indexes -> Entries]
    BY <1>8, WholeBuffered DEF ResponsesArguments, TypeOK
  <2>2. sent' \in [Indexes -> Accounts]
    BY <1>8, WholeSent DEF ResponsesArguments
  <2>. QED BY <1>8, <2>1, <2>2 DEF TypeOK, ResponsesArguments, outside
<1>9. ASSUME NEW kind \in {"completed", "incomplete", "filtered"}, ResponsesTerminal(kind)
      PROVE  TypeOK'
  BY <1>9 DEF TypeOK, ResponsesTerminal
<1>10. CASE Ends \/ ClientGone \/ Fails
  BY <1>10 DEF TypeOK, Ends, ClientGone, Fails, outside, upstreamVars
<1>11. CASE CloseText
  BY <1>11 DEF TypeOK, CloseText, outside, upstreamVars
<1>12. CASE CloseTool
  <2>1. PICK k \in ToClose : closed' = closed \cup {calls[order[k]].block}
    BY <1>12 DEF CloseTool
  <2>2. order[k] \in Indexes
    BY <2>1 DEF ToClose, TypeOK
  <2>3. calls[order[k]].block \in Nat
    BY <2>2 DEF TypeOK, Entries
  <2>. QED BY <1>12, <2>1, <2>3 DEF TypeOK, CloseTool, outside, upstreamVars
<1>13. CASE Conclude
  BY <1>13 DEF TypeOK, Conclude, outside, upstreamVars
<1>14. CASE UNCHANGED vars
  BY <1>14 DEF TypeOK, vars, outside, upstreamVars
<1>. QED
  BY <1>1, <1>2, <1>3, <1>4, <1>5, <1>6, <1>7, <1>8, <1>9, <1>10, <1>11, <1>12, <1>13, <1>14
  DEF Next, ChatStep, ResponsesStep, TailStep

-----------------------------------------------------------------------------
(* The numbers of the blocks.                                              *)

\* A step that starts no block.
LEMMA NoNewBlock ==
    ASSUME IInv, TypeOK', counter' = counter, flavor' = flavor,
           Seen \subseteq Seen', flavor = "responses" => Seen' = Seen,
           \A j \in Indexes : calls'[j].block = calls[j].block,
           \A j \in Indexes : calls'[j].inputs > 0 => calls[j].block > 0
    PROVE  BlockInv' /\ Started' = Started
<1>1. Started' = Started
  BY DEF Started
<1>. QED BY <1>1 DEF IInv, BlockInv, Started

\* A step that starts the block of call i.
LEMMA NewBlock ==
    ASSUME IInv, TypeOK', NEW i \in Indexes, calls[i].block = 0,
           counter' = counter + 1, flavor' = flavor, Seen' = Seen \cup {i},
           calls'[i].block = counter + 1,
           \A j \in Indexes \ {i} : calls'[j] = calls[j]
    PROVE  BlockInv' /\ Started' = Started \cup {i} /\ i \notin Started
<1>1. counter \in Nat /\ \A j \in Indexes : calls[j].block \in 0..counter
  BY DEF IInv, TypeOK, BlockInv
<1>2. Started' = Started \cup {i} /\ i \notin Started
  BY <1>1 DEF Started
<1>3. \A j \in Started : j # i /\ calls'[j] = calls[j] /\ calls'[j].block <= counter
  BY <1>1, <1>2 DEF Started
<1>4. \A j \in Indexes : calls'[j].block \in 0..(counter + 1)
  BY <1>1
<1>5. \A j, k \in Started' : calls'[j].block = calls'[k].block => j = k
  BY <1>1, <1>2, <1>3 DEF IInv, BlockInv
<1>6. \A n \in 1..(counter + 1) : \E j \in Started' : calls'[j].block = n
  <2>1. SUFFICES ASSUME NEW n \in 1..(counter + 1), n # counter + 1
                 PROVE  \E j \in Started' : calls'[j].block = n
    BY <1>2
  <2>2. n \in 1..counter
    BY <1>1, <2>1
  <2>. QED BY <1>2, <1>3, <2>2 DEF IInv, BlockInv
<1>7. \A j \in Indexes : calls'[j].inputs > 0 => j \in Started'
  BY <1>2 DEF IInv, BlockInv
<1>8. Started' \subseteq Seen' /\ (flavor = "responses" => Seen' \subseteq Started')
  BY <1>2 DEF IInv, BlockInv
<1>. QED BY <1>2, <1>4, <1>5, <1>6, <1>7, <1>8 DEF BlockInv

\* What the two ways to buffer a piece, or all of them, leave as it was.
LEMMA BufferKeepsBlocks ==
    ASSUME IInv, NEW i \in Indexes, SendsPiece(i),
           (calls[i].block > 0 /\ Buffered(i)) \/ UNCHANGED calls
    PROVE  /\ \A j \in Indexes : calls'[j].block = calls[j].block
           /\ \A j \in Indexes : calls'[j].inputs > 0 => calls[j].block > 0
<1>. USE DEF IInv
<1>1. CASE UNCHANGED calls
  BY <1>1 DEF BlockInv, Started
<1>2. CASE calls[i].block > 0 /\ Buffered(i)
  BY <1>2, PieceBuffered DEF BlockInv, Started
<1>. QED BY <1>1, <1>2

LEMMA BlockStep ==
    ASSUME IInv, TypeOK', [Next]_vars
    PROVE  BlockInv'
<1>. TypeOK
  BY DEF IInv
<1>1. ASSUME UNCHANGED <<flavor, calls, order, counter>> PROVE BlockInv'
  <2>1. Seen' = Seen
    BY <1>1 DEF Seen
  <2>. QED BY <1>1, <2>1, NoNewBlock DEF IInv, BlockInv, Started
<1>2. ASSUME NEW i \in Indexes, NEW fields \in SUBSET Identity, ChatIdentity(i, fields)
      PROVE  BlockInv'
  <2>. counter \in Nat /\ counter + 1 \in Nat
    BY DEF TypeOK
  <2>1. Seen' = Seen \cup {i} /\ flavor = "chat" /\ flavor' = flavor
    BY <1>2, SeenAfterSee DEF ChatIdentity, Reads
  <2>2. CASE calls[i].block = 0 /\ calls[i].known \cup fields = Identity
    <3>1. /\ counter' = counter + 1
          /\ calls' = [calls EXCEPT ![i].known = Identity, ![i].block = counter + 1]
      BY <1>2, <2>2 DEF ChatIdentity
    <3>. QED BY <2>1, <2>2, <3>1, BlockStarted, NewBlock
  <2>3. CASE calls[i].block > 0 \/ calls[i].known \cup fields # Identity
    <3>1. counter' = counter /\ calls' = [calls EXCEPT ![i].known = @ \cup fields]
      BY <1>2, <2>3 DEF ChatIdentity
    <3>2. \A j \in Indexes : calls'[j].block = calls[j].block /\ calls'[j].inputs = calls[j].inputs
      BY <3>1, FieldsKnown
    <3>3. \A j \in Indexes : calls'[j].inputs > 0 => calls[j].block > 0
      BY <3>2 DEF IInv, BlockInv, Started
    <3>. QED BY <2>1, <3>1, <3>2, <3>3, NoNewBlock
  <2>. QED BY <1>2, <2>2, <2>3 DEF ChatIdentity
<1>3. ASSUME NEW i \in Indexes, ChatPiece(i) PROVE BlockInv'
  <2>1. Seen' = Seen \cup {i} /\ flavor = "chat" /\ flavor' = flavor /\ counter' = counter
    BY <1>3, SeenAfterSee DEF ChatPiece, Reads
  <2>. QED BY <1>3, <2>1, BufferKeepsBlocks, NoNewBlock DEF ChatPiece
<1>4. ASSUME NEW i \in Indexes, ResponsesItem(i) PROVE BlockInv'
  <2>1. counter \in Nat /\ counter + 1 \in Nat
    BY DEF TypeOK
  <2>2. calls[i].known = {} /\ i \notin Started
    BY <1>4 DEF ResponsesItem, IInv, ArrivalInv, Identity
  <2>3. calls[i].block = 0
    BY <2>2 DEF IInv, BlockInv, TypeOK, Started
  <2>4. Seen' = Seen \cup {i} /\ flavor' = flavor /\ counter' = counter + 1
    BY <1>4, SeenAfterAppend DEF ResponsesItem
  <2>. QED BY <1>4, <2>1, <2>3, <2>4, ItemAdded, NewBlock DEF ResponsesItem
<1>5. ASSUME NEW i \in Indexes, ResponsesPiece(i) PROVE BlockInv'
  <2>1. Seen' = Seen /\ flavor = "responses" /\ flavor' = flavor /\ counter' = counter
    BY <1>5 DEF ResponsesPiece, Reads, Seen
  <2>2. i \in Seen => calls[i].block > 0
    BY <2>1 DEF IInv, BlockInv, Started
  <2>. QED BY <1>5, <2>1, <2>2, BufferKeepsBlocks, NoNewBlock DEF ResponsesPiece
<1>6. ASSUME NEW i \in Indexes, ResponsesArguments(i) PROVE BlockInv'
  <2>1. Seen' = Seen /\ flavor = "responses" /\ flavor' = flavor /\ counter' = counter
    BY <1>6 DEF ResponsesArguments, Reads, Seen
  <2>2. i \in Seen => calls[i].block > 0
    BY <2>1 DEF IInv, BlockInv, Started
  <2>3. /\ \A j \in Indexes : calls'[j].block = calls[j].block
        /\ \A j \in Indexes : calls'[j].inputs > 0 => calls[j].block > 0
    <3>1. CASE UNCHANGED calls
      BY <3>1 DEF IInv, BlockInv, Started
    <3>2. CASE i \in Seen /\ calls' = [calls EXCEPT ![i].buffer = Whole, ![i].inputs = 1]
      BY <2>2, <3>2, WholeBuffered DEF IInv, BlockInv, Started
    <3>. QED BY <1>6, <3>1, <3>2 DEF ResponsesArguments
  <2>. QED BY <2>1, <2>3, NoNewBlock
<1>. QED
  BY <1>1, <1>2, <1>3, <1>4, <1>5, <1>6
  DEF Next, ChatStep, ResponsesStep, TailStep, YieldPreamble, Text, ChatFinish,
      ResponsesTerminal, Ends, ClientGone, Fails, CloseText, CloseTool, Conclude,
      vars, outside, upstreamVars

-----------------------------------------------------------------------------
(* The stages of the message.                                              *)

\* When no block is left to be stopped, all of them were.
LEMMA NothingToClose ==
    ASSUME IInv, 0 \in closed, ToClose = {}
    PROVE  closed = 0..counter
<1>. closed \subseteq 0..counter /\ counter \in Nat
  BY DEF IInv, StageInv, TypeOK
<1>1. SUFFICES ASSUME NEW n \in 1..counter PROVE n \in closed
  BY \A n \in 0..counter : n = 0 \/ n \in 1..counter
<1>2. PICK i \in Started : calls[i].block = n
  BY DEF IInv, BlockInv
<1>3. i \in Seen
  BY DEF IInv, BlockInv
<1>4. PICK k \in DOMAIN order : order[k] = i
  BY <1>3 DEF Seen
<1>5. calls[order[k]].block > 0
  BY <1>2, <1>4 DEF Started
<1>. QED BY <1>2, <1>4, <1>5 DEF ToClose

LEMMA StageStep ==
    ASSUME IInv, TypeOK', [Next]_vars
    PROVE  StageInv'
<1>. counter \in Nat /\ TypeOK /\ StageInv
  BY DEF IInv, TypeOK
<1>1. CASE YieldPreamble
  BY <1>1 DEF YieldPreamble, StageInv, Preamble
<1>2. ASSUME stage = "reading", stage' \in {"reading", "closing", "failed"}, closed' = closed,
             counter' = counter \/ counter' = counter + 1
      PROVE  StageInv'
  BY <1>2 DEF StageInv, Preamble
<1>3. CASE ChatStep \/ ResponsesStep \/ Ends \/ ClientGone \/ Fails
  <2>1. counter' = counter \/ counter' = counter + 1
    BY <1>3 DEF ChatStep, ResponsesStep, Ends, ClientGone, Fails, Text, ChatIdentity, ChatPiece,
                ChatFinish, ResponsesItem, ResponsesPiece, ResponsesArguments, ResponsesTerminal
  <2>2. stage = "reading" /\ stage' \in {"reading", "closing", "failed"} /\ closed' = closed
    BY <1>3 DEF ChatStep, ResponsesStep, Ends, ClientGone, Fails, Text, ChatIdentity, ChatPiece,
                ChatFinish, ResponsesItem, ResponsesPiece, ResponsesArguments, ResponsesTerminal,
                Reads
  <2>. QED BY <1>2, <2>1, <2>2
<1>4. CASE CloseText
  BY <1>4 DEF CloseText, StageInv, Preamble
<1>5. CASE CloseTool
  <2>1. PICK k \in ToClose : closed' = closed \cup {calls[order[k]].block}
    BY <1>5 DEF CloseTool
  <2>2. calls[order[k]].block \in 0..counter
    BY <2>1 DEF ToClose, TypeOK, IInv, BlockInv
  <2>. QED BY <1>5, <2>1, <2>2 DEF CloseTool, StageInv, Preamble
<1>6. CASE Conclude
  BY <1>6, NothingToClose DEF Conclude, StageInv, Preamble
<1>7. CASE UNCHANGED vars
  BY <1>7 DEF StageInv, vars
<1>. QED BY <1>1, <1>3, <1>4, <1>5, <1>6, <1>7 DEF Next, TailStep

-----------------------------------------------------------------------------
(* What arrives.                                                           *)

\* A call the step does not touch.
LEMMA OtherArrives ==
    ASSUME IInv, NEW j \in Indexes, calls'[j] = calls[j], sent'[j] = sent[j]
    PROVE  /\ calls'[j].known = sent'[j].known /\ (j \in Started' <=> calls'[j].known = Identity)
           /\ ~sent'[j].early => Arrived(j)' /\ (sent'[j].pieces > 0 => j \in Started')
BY DEF IInv, ArrivalInv, Arrived, Started

\* The upstream sends before it said that it ended, so that nothing else of the
\* invariant is at stake.
LEMMA CallArrives ==
    ASSUME IInv, NEW i \in Indexes, finish = "none", finish' = finish, stopReason' = stopReason,
           \A j \in Indexes \ {i} : calls'[j] = calls[j] /\ sent'[j] = sent[j],
           calls'[i].known = sent'[i].known, i \in Started' <=> calls'[i].known = Identity,
           ~sent'[i].early => Arrived(i)' /\ (sent'[i].pieces > 0 => i \in Started')
    PROVE  ArrivalInv'
<1>1. stopReason' = "tool_use" => finish' \in {"tool_calls", "completed", "filtered"}
  BY DEF IInv, ArrivalInv
<1>2. finish' \notin {"tool_calls", "completed"}
  OBVIOUS
<1>. QED BY <1>1, <1>2, OtherArrives DEF ArrivalInv

\* A piece that comes in time, and one that does not.
LEMMA PieceArrives ==
    ASSUME IInv, NEW i \in Indexes, SendsPiece(i), finish = "none",
           finish' = finish, stopReason' = stopReason,
           \/ calls[i].block > 0 /\ Buffered(i)
           \/ (calls[i].block = 0 \/ calls[i].inputs > 0) /\ UNCHANGED calls
    PROVE  ArrivalInv'
<1>. TypeOK
  BY DEF IInv
<1>1. /\ sent[i].pieces \in Nat /\ sent[i].pieces + 1 \in 1..Pieces
      /\ sent'[i].known = sent[i].known /\ sent'[i].pieces = sent[i].pieces + 1
      /\ sent'[i].early = (sent[i].early \/ sent[i].known # Identity)
      /\ \A j \in Indexes \ {i} : sent'[j] = sent[j]
  BY PieceSent
<1>2. calls[i].known = sent[i].known /\ (i \in Started <=> calls[i].known = Identity)
  BY DEF IInv, ArrivalInv
<1>3. ~sent[i].early => calls[i].inputs = 0 /\ calls[i].buffer = [n \in 1..sent[i].pieces |-> n]
  <2>1. ~sent[i].early => Arrived(i)
    BY DEF IInv, ArrivalInv
  <2>2. sent[i].pieces # Pieces
    BY <1>1, ConverterAssumption
  <2>. QED BY <2>1, <2>2 DEF Arrived
<1>4. CASE calls[i].block > 0 /\ Buffered(i)
  <2>1. /\ calls'[i].known = calls[i].known /\ calls'[i].block = calls[i].block
        /\ calls'[i].buffer = Append(calls[i].buffer, sent[i].pieces + 1)
        /\ calls'[i].inputs = IF calls'[i].buffer = Whole /\ calls[i].inputs = 0
                              THEN 1 ELSE calls[i].inputs
        /\ \A j \in Indexes \ {i} : calls'[j] = calls[j]
    BY <1>4, PieceBuffered
  <2>2. i \in Started /\ i \in Started'
    BY <1>4, <2>1 DEF Started
  <2>3. ASSUME ~sent'[i].early PROVE Arrived(i)'
    <3>1. ~sent[i].early
      BY <1>1, <2>3
    <3>2. calls'[i].buffer = [n \in 1..sent'[i].pieces |-> n]
      BY <1>1, <1>3, <2>1, <3>1, OneMorePiece
    <3>3. CASE sent'[i].pieces = Pieces
      BY <1>3, <2>1, <3>1, <3>2, <3>3 DEF Arrived, Whole
    <3>4. CASE sent'[i].pieces # Pieces
      <4>1. sent'[i].pieces \in Nat /\ sent'[i].pieces < Pieces
        BY <1>1, <3>4, ConverterAssumption
      <4>2. calls'[i].buffer # Whole
        BY <3>2, <3>4, <4>1, WholeIsLast
      <4>. QED BY <1>3, <2>1, <3>1, <3>2, <4>1, <4>2 DEF Arrived
    <3>. QED BY <3>3, <3>4
  <2>. QED BY <1>1, <1>2, <2>1, <2>2, <2>3, CallArrives
<1>5. CASE (calls[i].block = 0 \/ calls[i].inputs > 0) /\ UNCHANGED calls
  <2>1. sent'[i].early
    <3>1. CASE calls[i].block = 0
      <4>1. i \notin Started
        BY <3>1 DEF Started
      <4>2. sent[i].known # Identity
        BY <1>2, <4>1
      <4>. QED BY <1>1, <4>2, Zenon
    <3>2. CASE calls[i].inputs > 0
      <4>1. calls[i].inputs # 0
        BY <3>2
      <4>2. sent[i].early
        BY <1>3, <4>1, Zenon
      <4>. QED BY <1>1, <4>2, Zenon
    <3>. QED BY <1>5, <3>1, <3>2
  <2>2. Started' = Started
    BY <1>5 DEF Started
  <2>. QED BY <1>1, <1>2, <1>5, <2>1, <2>2, CallArrives
<1>. QED BY <1>4, <1>5

LEMMA ArrivalStep ==
    ASSUME IInv, TypeOK', [Next]_vars
    PROVE  ArrivalInv'
<1>. TypeOK
  BY DEF IInv
<1>1. ASSUME UNCHANGED <<calls, sent, finish, stopReason>> PROVE ArrivalInv'
  BY <1>1 DEF IInv, ArrivalInv, Arrived, AllSent, Started
<1>2. ASSUME NEW i \in Indexes, NEW fields \in SUBSET Identity, ChatIdentity(i, fields)
      PROVE  ArrivalInv'
  <2>1. /\ sent'[i].known = sent[i].known \cup fields
        /\ sent'[i].pieces = sent[i].pieces /\ sent'[i].early = sent[i].early
        /\ \A j \in Indexes \ {i} : sent'[j] = sent[j]
    BY <1>2, IdentitySent DEF ChatIdentity
  <2>2. counter \in Nat /\ counter + 1 \in Nat /\ counter + 1 > 0
    BY DEF TypeOK
  <2>3. /\ calls'[i].known = calls[i].known \cup fields
        /\ calls'[i].buffer = calls[i].buffer /\ calls'[i].inputs = calls[i].inputs
        /\ \A j \in Indexes \ {i} : calls'[j] = calls[j]
        /\ calls'[i].block > 0 <=> (calls[i].block > 0 \/ calls'[i].known = Identity)
    <3>1. CASE calls[i].block = 0 /\ calls[i].known \cup fields = Identity
      <4>1. calls' = [calls EXCEPT ![i].known = Identity, ![i].block = counter + 1]
        BY <1>2, <3>1 DEF ChatIdentity
      <4>. QED BY <2>2, <3>1, <4>1, BlockStarted
    <3>2. CASE calls[i].block > 0 \/ calls[i].known \cup fields # Identity
      <4>1. calls' = [calls EXCEPT ![i].known = @ \cup fields]
        BY <1>2, <3>2 DEF ChatIdentity
      <4>. QED BY <3>2, <4>1, FieldsKnown
    <3>. QED BY <1>2, <3>1, <3>2 DEF ChatIdentity
  <2>4. /\ calls[i].known = sent[i].known /\ (i \in Started <=> calls[i].known = Identity)
        /\ ~sent[i].early => Arrived(i) /\ (sent[i].pieces > 0 => i \in Started)
    BY DEF IInv, ArrivalInv
  <2>5. calls[i].known = Identity => calls'[i].known = Identity
    BY <2>3 DEF TypeOK, Entries
  <2>6. i \in Started' <=> calls'[i].known = Identity
    BY <2>3, <2>4, <2>5 DEF Started
  <2>7. i \in Started => i \in Started'
    BY <2>3 DEF Started
  <2>8. Arrived(i)' <=> Arrived(i)
    BY <2>1, <2>3 DEF Arrived
  <2>9. finish = "none" /\ finish' = finish /\ stopReason' = stopReason
    BY <1>2 DEF ChatIdentity, Reads
  <2>. QED BY <2>1, <2>3, <2>4, <2>6, <2>7, <2>8, <2>9, CallArrives
<1>3. ASSUME NEW i \in Indexes, ChatPiece(i) PROVE ArrivalInv'
  BY <1>3, PieceArrives DEF ChatPiece, Reads
<1>4. ASSUME NEW reason \in {"stop", "length", "tool_calls"}, ChatFinish(reason)
      PROVE  ArrivalInv'
  BY <1>4 DEF ChatFinish, IInv, ArrivalInv, Arrived, AllSent, Started
<1>5. ASSUME NEW i \in Indexes, ResponsesItem(i) PROVE ArrivalInv'
  <2>1. counter \in Nat /\ counter + 1 \in Nat /\ counter + 1 > 0
    BY DEF TypeOK
  <2>2. /\ calls'[i].known = Identity /\ calls'[i].block = counter + 1
        /\ calls'[i].buffer = <<>> /\ calls'[i].inputs = 0
        /\ \A j \in Indexes \ {i} : calls'[j] = calls[j]
    BY <1>5, <2>1, ItemAdded DEF ResponsesItem
  <2>3. i \in Started'
    BY <2>1, <2>2 DEF Started
  <2>4. sent'[i] = [sent[i] EXCEPT !.known = Identity] /\ \A j \in Indexes \ {i} : sent'[j] = sent[j]
    BY <1>5 DEF ResponsesItem, TypeOK
  <2>5. /\ sent'[i].known = Identity /\ sent'[i].pieces = sent[i].pieces
        /\ sent'[i].early = sent[i].early /\ sent[i].pieces \in 0..Pieces
    BY <2>4 DEF TypeOK, Accounts
  <2>6. i \notin Started
    BY <1>5 DEF ResponsesItem, IInv, ArrivalInv, Identity
  <2>7. ~sent[i].early => sent[i].pieces = 0
    BY <2>5, <2>6, ConverterAssumption DEF IInv, ArrivalInv
  <2>8. ~sent'[i].early => Arrived(i)'
    <3>1. [n \in 1..0 |-> n] = <<>>
      OBVIOUS
    <3>. QED BY <2>2, <2>5, <2>7, <3>1, ConverterAssumption DEF Arrived
  <2>9. finish = "none" /\ finish' = finish /\ stopReason' = stopReason
    BY <1>5 DEF ResponsesItem, Reads
  <2>. QED BY <2>2, <2>3, <2>4, <2>5, <2>8, <2>9, CallArrives
<1>6. ASSUME NEW i \in Indexes, ResponsesPiece(i) PROVE ArrivalInv'
  <2>1. flavor = "responses" /\ finish = "none" /\ finish' = finish /\ stopReason' = stopReason
    BY <1>6 DEF ResponsesPiece, Reads
  <2>2. i \in Seen <=> calls[i].block > 0
    BY <2>1 DEF IInv, BlockInv, Started
  <2>3. calls[i].block = 0 \/ calls[i].block > 0
    BY DEF TypeOK, Entries
  <2>. QED BY <1>6, <2>1, <2>2, <2>3, PieceArrives DEF ResponsesPiece
<1>7. ASSUME NEW i \in Indexes, ResponsesArguments(i) PROVE ArrivalInv'
  <2>1. /\ sent'[i].known = sent[i].known /\ sent'[i].pieces = Pieces
        /\ sent'[i].early = (sent[i].early \/ sent[i].known # Identity)
        /\ \A j \in Indexes \ {i} : sent'[j] = sent[j]
    BY <1>7, WholeSent DEF ResponsesArguments
  <2>2. /\ flavor = "responses" /\ finish = "none" /\ finish' = finish
        /\ stopReason' = stopReason
    BY <1>7 DEF ResponsesArguments, Reads
  <2>3. /\ calls'[i].known = calls[i].known /\ calls'[i].block = calls[i].block
        /\ \A j \in Indexes \ {i} : calls'[j] = calls[j]
        /\ \/ calls'[i].inputs = 1 /\ calls'[i].buffer = Whole
           \/ (i \notin Seen \/ calls[i].inputs # 0) /\ calls'[i] = calls[i]
    <3>1. CASE i \in Seen /\ calls[i].inputs = 0
      <4>1. calls' = [calls EXCEPT ![i].buffer = Whole, ![i].inputs = 1]
        BY <1>7, <3>1 DEF ResponsesArguments
      <4>. QED BY <4>1, WholeBuffered
    <3>. QED BY <1>7, <3>1 DEF ResponsesArguments
  <2>4. /\ calls[i].known = sent[i].known /\ (i \in Started <=> calls[i].known = Identity)
        /\ ~sent[i].early => Arrived(i)
    BY DEF IInv, ArrivalInv
  <2>5. i \in Started' <=> i \in Started
    BY <2>3 DEF Started
  <2>6. ASSUME ~sent'[i].early PROVE Arrived(i)' /\ i \in Started'
    <3>1. ~sent[i].early /\ sent[i].known = Identity
      BY <2>1, <2>6, Zenon
    <3>2. i \in Started' /\ i \in Seen
      BY <2>4, <2>5, <3>1 DEF IInv, BlockInv
    <3>3. calls[i].inputs # 0 => calls[i].inputs = 1 /\ calls[i].buffer = Whole
      BY <2>4, <3>1 DEF Arrived
    <3>4. calls'[i].inputs = 1 /\ calls'[i].buffer = Whole
      BY <2>3, <3>2, <3>3
    <3>. QED BY <2>1, <3>2, <3>4 DEF Arrived
  <2>. QED BY <2>1, <2>2, <2>3, <2>4, <2>5, <2>6, CallArrives
<1>8. ASSUME NEW kind \in {"completed", "incomplete", "filtered"}, ResponsesTerminal(kind)
      PROVE  ArrivalInv'
  BY <1>8 DEF ResponsesTerminal, IInv, ArrivalInv, Arrived, AllSent, Started
<1>. QED
  BY <1>1, <1>2, <1>3, <1>4, <1>5, <1>6, <1>7, <1>8
  DEF Next, ChatStep, ResponsesStep, TailStep, YieldPreamble, Text, Ends, ClientGone, Fails,
      CloseText, CloseTool, Conclude, vars, outside, upstreamVars

-----------------------------------------------------------------------------
(* The invariant.                                                          *)

LEMMA StartsInvariant == Init => IInv
<1>. SUFFICES ASSUME Init PROVE IInv
  OBVIOUS
<1>1. TypeOK
  <2>1. <<>> \in Seq(Indexes)
    OBVIOUS
  <2>2. calls \in [Indexes -> Entries] /\ sent \in [Indexes -> Accounts]
    BY ConstantTypes DEF Init
  <2>3. texts \in 0..MaxTexts /\ counter \in Nat
    BY ConverterAssumption DEF Init
  <2>. QED BY <2>1, <2>2, <2>3 DEF Init, TypeOK, Preamble
<1>2. Seen = {} /\ Started = {}
  BY DEF Init, Seen, Started, Unseen
<1>3. BlockInv /\ StageInv
  BY <1>2 DEF Init, BlockInv, StageInv, Unseen, Preamble
<1>4. ArrivalInv
  <2>1. [n \in 1..0 |-> n] = <<>>
    OBVIOUS
  <2>2. \A i \in Indexes : calls[i] = Unseen /\ sent[i] = Nothing
    BY DEF Init
  <2>3. /\ Unseen.known = {} /\ Unseen.buffer = <<>> /\ Unseen.inputs = 0
        /\ Nothing.known = {} /\ Nothing.pieces = 0
    BY DEF Unseen, Nothing
  <2>4. \A i \in Indexes : /\ calls[i].known = {} /\ sent[i].known = {}
                           /\ sent[i].pieces = 0 /\ calls[i].inputs = 0 /\ calls[i].buffer = <<>>
    BY <2>2, <2>3
  <2>5. ASSUME NEW i \in Indexes PROVE Arrived(i)
    <3>1. sent[i].pieces = 0 /\ calls[i].inputs = 0 /\ calls[i].buffer = <<>>
      BY <2>4
    <3>2. 0 < Pieces
      BY ConverterAssumption
    <3>. QED BY <2>1, <3>1, <3>2 DEF Arrived
  <2>6. finish = "none" /\ stopReason = "end_turn" /\ {} # Identity
    BY DEF Init, Identity
  <2>7. \A i \in Indexes : /\ calls[i].known = sent[i].known
                           /\ calls[i].known # Identity /\ i \notin Started
                           /\ sent[i].pieces = 0
    BY <1>2, <2>4, <2>6
  <2>8. ASSUME NEW i \in Indexes PROVE ~(sent[i].pieces > 0)
    <3>1. sent[i].pieces = 0
      BY <2>7
    <3>. QED BY <3>1
  <2>. QED BY <2>5, <2>6, <2>7, <2>8 DEF ArrivalInv
<1>. QED BY <1>1, <1>3, <1>4 DEF IInv

LEMMA KeepsInvariant == IInv /\ [Next]_vars => IInv'
<1>. SUFFICES ASSUME IInv, [Next]_vars PROVE IInv'
  OBVIOUS
<1>1. TypeOK'
  BY TypeStep DEF IInv
<1>. QED BY <1>1, BlockStep, StageStep, ArrivalStep DEF IInv

\* Blocks are numbered without gaps, are stopped in the tail and all before the message
\* ends, and what arrived of a call is what the upstream sent of it: in every
\* reachable state of either converter.
THEOREM ConverterInvariance == Spec => []IInv
<1>. QED BY StartsInvariant, KeepsInvariant, PTL DEF Spec

\* A message that asks the client to run tools has the whole input of each of them,
\* for any number of calls and any mix of their pieces.
THEOREM InputsAreWhole == Spec => []ToolUseComplete
<1>1. IInv => ToolUseComplete
  <2>. SUFFICES ASSUME IInv, stage = "stopped", stopReason = "tool_use", finish # "filtered",
                       NEW i \in Indexes, sent[i].known # {}, ~sent[i].early
                PROVE  calls[i].inputs = 1 /\ calls[i].buffer = Whole /\ calls[i].block \in closed
    BY DEF ToolUseComplete
  <2>1. AllSent
    BY DEF IInv, ArrivalInv
  <2>2. sent[i].known = Identity /\ sent[i].pieces = Pieces
    BY <2>1 DEF AllSent, Nothing
  <2>3. i \in Started /\ Arrived(i)
    BY <2>2 DEF IInv, ArrivalInv
  <2>4. calls[i].inputs = 1 /\ calls[i].buffer = Whole
    BY <2>2, <2>3, ConverterAssumption DEF Arrived
  <2>5. calls[i].block \in closed
    BY DEF IInv, BlockInv, StageInv
  <2>. QED BY <2>4, <2>5
<1>. QED BY <1>1, ConverterInvariance, PTL

-----------------------------------------------------------------------------
(* Either converter implements MessageStream.                              *)

LEMMA OneCallPerBlock ==
    ASSUME NEW c, NEW i \in Indexes, \A j \in Indexes : c[j].block = c[i].block => j = i
    PROVE  (CHOOSE j \in Indexes : c[j].block = c[i].block) = i
OBVIOUS

\* The call of a block, before and after a step.
LEMMA NumberedCall ==
    ASSUME IInv, NEW i \in Indexes, calls[i].block > 0
    PROVE  CallOf(calls[i].block) = i
<1>1. \A j \in Indexes : calls[j].block = calls[i].block => j = i
  BY DEF IInv, BlockInv, Started
<1>. QED BY <1>1, OneCallPerBlock DEF CallOf

LEMMA NumberedCallAfter ==
    ASSUME IInv', NEW i \in Indexes, calls'[i].block > 0
    PROVE  (CHOOSE j \in Indexes : calls'[j].block = calls'[i].block) = i
<1>1. \A j \in Indexes : calls'[j].block = calls'[i].block => j = i
  BY DEF IInv, BlockInv, Started
<1>. QED BY <1>1, OneCallPerBlock

\* A block is what it was when the input of its call is.
LEMMA SameCall ==
    ASSUME IInv, IInv', NEW n \in 1..counter,
           \A j \in Indexes : calls[j].block > 0 => calls'[j].block = calls[j].block
    PROVE  \E i \in Indexes : calls[i].block = n /\ CallOf(n) = i /\ CallOf(n)' = i
<1>. counter \in Nat /\ n > 0
  BY DEF IInv, TypeOK
<1>1. PICK i \in Indexes : calls[i].block = n
  BY DEF IInv, BlockInv, Started
<1>2. CallOf(n) = i
  BY <1>1, NumberedCall
<1>3. calls'[i].block = n
  BY <1>1
<1>4. CallOf(n)' = i
  BY <1>3, NumberedCallAfter DEF CallOf
<1>. QED BY <1>1, <1>2, <1>4

\* A step that neither starts, grows nor stops a block.
LEMMA SameStream ==
    ASSUME IInv, IInv', Phase' = Phase, Announced' = Announced,
           UNCHANGED <<texts, counter, closed>>,
           \A j \in Indexes : /\ calls'[j].block = calls[j].block
                             /\ calls'[j].inputs = calls[j].inputs
    PROVE  UNCHANGED Stream!vars
<1>. counter \in Nat
  BY DEF IInv, TypeOK
<1>1. ASSUME NEW n \in Announced PROVE BlockAt(n)' = BlockAt(n)
  <2>1. n = 0 \/ n \in 1..counter
    BY <1>1 DEF Announced
  <2>2. CASE n = 0
    BY <2>2 DEF BlockAt
  <2>3. CASE n \in 1..counter
    <3>1. PICK i \in Indexes : CallOf(n) = i /\ CallOf(n)' = i
      BY <2>3, SameCall
    <3>. QED BY <2>3, <3>1 DEF BlockAt
  <2>. QED BY <2>1, <2>2, <2>3
<1>2. Blocks' = Blocks
  BY <1>1 DEF Blocks
<1>. QED BY <1>2 DEF Stream!vars

\* An open block is what its kind and its parts say.
LEMMA OpenBlock ==
    ASSUME NEW kind, NEW n, NEW r \in [kind : {kind}, open : {TRUE}, parts : {n}]
    PROVE  r = [kind |-> kind, open |-> TRUE, parts |-> n]
OBVIOUS

\* A step that passes the input of call i on.
LEMMA InputGrows ==
    ASSUME IInv, IInv', stage = "reading", UNCHANGED <<stage, texts, counter, closed>>,
           NEW i \in Indexes, calls[i].block > 0, calls[i].inputs = 0, calls'[i].inputs = 1,
           \A j \in Indexes : calls'[j].block = calls[j].block,
           \A j \in Indexes \ {i} : calls'[j].inputs = calls[j].inputs
    PROVE  Stream!Grow
<1>. counter \in Nat /\ closed = {}
  BY DEF IInv, TypeOK, BlockInv, StageInv, Preamble
<1>0. PICK n \in 1..counter : calls[i].block = n /\ calls'[i].block = n
  BY DEF IInv, BlockInv
<1>1. Phase = "open" /\ Phase' = "open" /\ Announced = 0..counter /\ Announced' = 0..counter
  BY DEF Phase, Announced
<1>2. CallOf(n) = i
  BY <1>0, NumberedCall
<1>3. CallOf(n)' = i
  BY <1>0, NumberedCallAfter DEF CallOf
<1>4. n # 0 /\ n \in 0..counter
  OBVIOUS
<1>5. BlockAt(n) = [kind |-> "tool", open |-> TRUE, parts |-> 0]
  BY <1>2, <1>4 DEF BlockAt
<1>6. BlockAt(n)' = [kind |-> "tool", open |-> TRUE, parts |-> 1]
  BY <1>3, <1>4 DEF BlockAt
<1>7. Blocks[n] = [kind |-> "tool", open |-> TRUE, parts |-> 0] /\ DOMAIN Blocks = 0..counter
  BY <1>1, <1>4, <1>5 DEF Blocks
<1>8. ASSUME NEW m \in 0..counter, m # n PROVE BlockAt(m)' = Blocks[m]
  <2>1. CASE m = 0
    BY <1>1, <2>1 DEF Blocks, BlockAt
  <2>2. CASE m \in 1..counter
    <3>1. PICK j \in Indexes : calls[j].block = m /\ CallOf(m) = j /\ CallOf(m)' = j
      BY <2>2, SameCall
    <3>2. j # i
      BY <1>0, <1>8, <3>1
    <3>. QED BY <1>1, <2>2, <3>1, <3>2 DEF Blocks, BlockAt
  <2>. QED BY <2>1, <2>2
<1>9. Blocks' = [Blocks EXCEPT ![n].parts = @ + 1]
  <2>1. Blocks' = [m \in 0..counter |-> BlockAt(m)']
    BY <1>1 DEF Blocks
  <2>2. [Blocks[n] EXCEPT !.parts = @ + 1] = [kind |-> "tool", open |-> TRUE, parts |-> 1]
    <3>. DEFINE r == Blocks[n]
                e == [r EXCEPT !.parts = 1]
    <3>1. r \in [kind : {"tool"}, open : {TRUE}, parts : {0}]
      BY <1>7
    <3>. HIDE DEF r
    <3>2. e \in [kind : {"tool"}, open : {TRUE}, parts : {1}]
      BY <3>1
    <3>. HIDE DEF e
    <3>3. e = [kind |-> "tool", open |-> TRUE, parts |-> 1]
      BY <3>2, OpenBlock
    <3>4. r.parts = 0 /\ r.parts + 1 = 1
      BY <3>1
    <3>. QED BY <3>3, <3>4 DEF r, e
  <2>3. [Blocks EXCEPT ![n].parts = @ + 1] = [m \in 0..counter |->
          IF m = n THEN [kind |-> "tool", open |-> TRUE, parts |-> 1] ELSE Blocks[m]]
    BY <1>7, <2>2
  <2>. QED BY <1>6, <1>8, <2>1, <2>3
<1>10. n \in DOMAIN Blocks /\ Blocks[n].open /\ Blocks[n].parts = 0
  BY <1>4, <1>7
<1>. QED BY <1>1, <1>9, <1>10 DEF Stream!Grow

\* A step that starts the block of call i.
LEMMA ToolOpens ==
    ASSUME IInv, IInv', stage = "reading", UNCHANGED <<stage, texts, closed>>,
           NEW i \in Indexes, calls[i].block = 0, calls'[i].inputs = 0,
           counter' = counter + 1, calls'[i].block = counter + 1,
           \A j \in Indexes \ {i} : calls'[j] = calls[j]
    PROVE  Stream!Open("tool")
<1>. counter \in Nat /\ closed = {}
  BY DEF IInv, TypeOK, StageInv, Preamble
<1>0. PICK n \in Nat \ {0} : n = counter + 1 /\ n = counter'
  OBVIOUS
<1>1. Phase = "open" /\ Phase' = "open" /\ Announced = 0..counter /\ Announced' = 0..n
  BY <1>0 DEF Phase, Announced
<1>2. DOMAIN Blocks = 0..counter
  BY <1>1 DEF Blocks
<1>3. CallOf(n)' = i
  BY <1>0, NumberedCallAfter DEF CallOf
<1>4. BlockAt(n)' = Stream!Opened("tool")
  BY <1>0, <1>3 DEF BlockAt, Stream!Opened
<1>5. ASSUME NEW m \in 0..counter PROVE BlockAt(m)' = Blocks[m]
  <2>1. CASE m = 0
    BY <1>1, <2>1 DEF Blocks, BlockAt
  <2>2. CASE m \in 1..counter
    <3>1. \A j \in Indexes : calls[j].block > 0 => j # i /\ calls'[j].block = calls[j].block
      OBVIOUS
    <3>2. PICK j \in Indexes : calls[j].block = m /\ CallOf(m) = j /\ CallOf(m)' = j
      BY <2>2, <3>1, SameCall
    <3>3. j # i
      BY <2>2, <3>2
    <3>. QED BY <1>1, <2>2, <3>2, <3>3 DEF Blocks, BlockAt
  <2>. QED BY <2>1, <2>2
<1>6. Blocks' = [m \in 0..n |-> IF m = n THEN Stream!Opened("tool") ELSE Blocks[m]]
  <2>1. \A m \in 0..n : m = n \/ (m \in 0..counter /\ m # n)
    BY <1>0
  <2>2. Blocks' = [m \in 0..n |-> BlockAt(m)']
    BY <1>1 DEF Blocks
  <2>. QED BY <1>4, <1>5, <2>1, <2>2
<1>7. n \in {0} \cup {m + 1 : m \in DOMAIN Blocks}
  <2>1. counter \in DOMAIN Blocks
    BY <1>2
  <2>. QED BY <1>0, <2>1
<1>8. DOMAIN Blocks = {m \in 0..n : m < n}
  BY <1>0, <1>2
<1>. QED BY <1>1, <1>6, <1>7, <1>8 DEF Stream!Open

\* A step that passes text on.
LEMMA TextGrows ==
    ASSUME IInv, IInv', stage = "reading", UNCHANGED <<stage, calls, counter, closed>>,
           texts' = texts + 1
    PROVE  Stream!Grow
<1>. counter \in Nat /\ texts \in Nat /\ closed = {}
  BY ConverterAssumption DEF IInv, TypeOK, StageInv, Preamble
<1>1. Phase = "open" /\ Phase' = "open" /\ Announced = 0..counter /\ Announced' = 0..counter
  BY DEF Phase, Announced
<1>2. 0 \in 0..counter
  OBVIOUS
<1>3. Blocks[0] = [kind |-> "text", open |-> TRUE, parts |-> texts] /\ DOMAIN Blocks = 0..counter
  BY <1>1, <1>2 DEF Blocks, BlockAt
<1>4. BlockAt(0)' = [kind |-> "text", open |-> TRUE, parts |-> texts + 1]
  BY DEF BlockAt
<1>5. ASSUME NEW m \in 0..counter, m # 0 PROVE BlockAt(m)' = Blocks[m]
  BY <1>1, <1>5 DEF Blocks, BlockAt, CallOf
<1>6. Blocks' = [Blocks EXCEPT ![0].parts = @ + 1]
  <2>1. Blocks' = [m \in 0..counter |-> BlockAt(m)']
    BY <1>1 DEF Blocks
  <2>2. [Blocks[0] EXCEPT !.parts = @ + 1] = [kind |-> "text", open |-> TRUE, parts |-> texts + 1]
    <3>. DEFINE r == Blocks[0]
                n == texts + 1
                e == [r EXCEPT !.parts = n]
    <3>1. r \in [kind : {"text"}, open : {TRUE}, parts : {texts}]
      BY <1>3
    <3>. HIDE DEF r, n
    <3>2. e \in [kind : {"text"}, open : {TRUE}, parts : {n}]
      BY <3>1
    <3>. HIDE DEF e
    <3>3. e = [kind |-> "text", open |-> TRUE, parts |-> n]
      BY <3>2, OpenBlock
    <3>4. r.parts + 1 = n
      BY <3>1 DEF n
    <3>5. n = texts + 1
      BY DEF n
    <3>. QED BY <3>3, <3>4, <3>5 DEF r, e
  <2>3. [Blocks EXCEPT ![0].parts = @ + 1] = [m \in 0..counter |->
          IF m = 0 THEN [kind |-> "text", open |-> TRUE, parts |-> texts + 1] ELSE Blocks[m]]
    BY <1>3, <2>2
  <2>. QED BY <1>4, <1>5, <2>1, <2>3
<1>7. 0 \in DOMAIN Blocks /\ Blocks[0].open /\ Blocks[0].kind # "tool"
  BY <1>2, <1>3
<1>. QED BY <1>1, <1>6, <1>7 DEF Stream!Grow

\* A step that stops block n.
LEMMA BlockStops ==
    ASSUME IInv, IInv', stage = "closing", UNCHANGED <<stage, texts, calls, counter>>,
           NEW n \in 0..counter, n \notin closed, closed' = closed \cup {n}
    PROVE  Stream!Close
<1>. counter \in Nat
  BY DEF IInv, TypeOK
<1>1. Phase = "open" /\ Phase' = "open" /\ Announced = 0..counter /\ Announced' = 0..counter
  BY DEF Phase, Announced
<1>. DEFINE kind == IF n = 0 THEN "text" ELSE "tool"
            parts == IF n = 0 THEN texts ELSE calls[CallOf(n)].inputs
<1>2. Blocks[n] = [kind |-> kind, open |-> TRUE, parts |-> parts] /\ DOMAIN Blocks = 0..counter
  BY <1>1 DEF Blocks, BlockAt
<1>3. BlockAt(n)' = [kind |-> kind, open |-> FALSE, parts |-> parts]
  <2>1. CallOf(n)' = CallOf(n)
    BY DEF CallOf
  <2>2. n \in closed'
    OBVIOUS
  <2>. QED BY <2>1, <2>2 DEF BlockAt
<1>4. ASSUME NEW m \in 0..counter, m # n PROVE BlockAt(m)' = Blocks[m]
  BY <1>1, <1>4 DEF Blocks, BlockAt, CallOf
<1>. HIDE DEF kind, parts
<1>5. Blocks' = [Blocks EXCEPT ![n].open = FALSE]
  <2>1. Blocks' = [m \in 0..counter |-> BlockAt(m)']
    BY <1>1 DEF Blocks
  <2>2. [Blocks[n] EXCEPT !.open = FALSE] = [kind |-> kind, open |-> FALSE, parts |-> parts]
    <3>. DEFINE r == Blocks[n]
                e == [r EXCEPT !.open = FALSE]
    <3>1. r \in [kind : {kind}, open : {TRUE}, parts : {parts}]
      BY <1>2
    <3>. HIDE DEF r
    <3>2. e \in [kind : {kind}, open : {FALSE}, parts : {parts}]
      BY <3>1
    <3>. HIDE DEF e
    <3>3. e = [kind |-> kind, open |-> FALSE, parts |-> parts]
      BY <3>2
    <3>. QED BY <3>3 DEF r, e
  <2>3. [Blocks EXCEPT ![n].open = FALSE] = [m \in 0..counter |->
          IF m = n THEN [kind |-> kind, open |-> FALSE, parts |-> parts] ELSE Blocks[m]]
    BY <1>2, <2>2
  <2>. QED BY <1>3, <1>4, <2>1, <2>3
<1>6. n \in DOMAIN Blocks /\ Blocks[n].open
  BY <1>2
<1>. QED BY <1>1, <1>5, <1>6 DEF Stream!Close

LEMMA StartsStream == Init => Stream!Init
<1>. SUFFICES ASSUME Init PROVE Stream!Init
  OBVIOUS
<1>1. Phase = "idle" /\ Announced = {}
  BY DEF Init, Phase, Announced
<1>2. Blocks = [n \in {} |-> Stream!Opened("text")]
  BY <1>1 DEF Blocks
<1>. QED BY <1>1, <1>2 DEF Stream!Init

\* Every step of a converter is a step of the stream, or none.
LEMMA PreambleStreams ==
    ASSUME IInv, IInv', YieldPreamble
    PROVE  [Stream!Next]_(Stream!vars)
<1>. counter = 0 /\ counter' = 0 /\ texts = 0 /\ texts' = 0 /\ closed = {} /\ closed' = {}
  BY DEF YieldPreamble, IInv, StageInv, Preamble
<1>1. CASE stage = "message_start"
  <2>1. stage' = "block_start"
    BY <1>1 DEF YieldPreamble
  <2>2. Phase = "idle" /\ Phase' = "open" /\ Announced = {} /\ Announced' = {}
    BY <1>1, <2>1 DEF Phase, Announced
  <2>3. Blocks' = Blocks
    BY <2>2 DEF Blocks
  <2>. QED BY <2>2, <2>3 DEF Stream!Next, Stream!Start
<1>2. CASE stage = "block_start"
  <2>1. stage' = "ping"
    BY <1>2 DEF YieldPreamble
  <2>2. Phase = "open" /\ Phase' = "open" /\ Announced = {} /\ Announced' = 0..0
    BY <1>2, <2>1 DEF Phase, Announced
  <2>3. DOMAIN Blocks = {} /\ {m \in 0..0 : m < 0} = {}
    BY <2>2 DEF Blocks
  <2>4. BlockAt(0)' = Stream!Opened("text")
    BY DEF BlockAt, Stream!Opened
  <2>5. Blocks' = [m \in 0..0 |-> IF m = 0 THEN Stream!Opened("text") ELSE Blocks[m]]
    <3>1. \A m \in 0..0 : m = 0
      OBVIOUS
    <3>. QED BY <2>2, <2>4, <3>1 DEF Blocks
  <2>6. Stream!Open("text")
    BY <2>2, <2>3, <2>5 DEF Stream!Open
  <2>. QED BY <2>6 DEF Stream!Next
<1>3. CASE stage = "ping"
  <2>1. stage' = "reading"
    BY <1>3 DEF YieldPreamble
  <2>2. Phase' = Phase /\ Announced' = Announced
    BY <1>3, <2>1 DEF Phase, Announced
  <2>. QED BY <2>2, SameStream DEF YieldPreamble
<1>. QED BY <1>1, <1>2, <1>3 DEF YieldPreamble, Preamble

LEMMA TailStreams ==
    ASSUME IInv, IInv', TailStep
    PROVE  [Stream!Next]_(Stream!vars)
<1>. counter \in Nat
  BY DEF IInv, TypeOK
<1>1. CASE Ends \/ ClientGone
  <2>1. stage = "reading" /\ stage' = "closing" /\ UNCHANGED <<texts, calls, counter, closed>>
    BY <1>1 DEF Ends, ClientGone
  <2>2. Phase' = Phase /\ Announced' = Announced
    BY <2>1 DEF Phase, Announced
  <2>. QED BY <2>1, <2>2, SameStream
<1>2. CASE Fails
  <2>1. stage = "reading" /\ stage' = "failed" /\ UNCHANGED <<texts, calls, counter, closed>>
    BY <1>2 DEF Fails
  <2>2. Phase = "open" /\ Phase' = "failed" /\ Announced' = Announced
    BY <2>1 DEF Phase, Announced
  <2>3. Blocks' = Blocks
    BY <2>1, <2>2 DEF Blocks, BlockAt, CallOf
  <2>. QED BY <2>2, <2>3 DEF Stream!Next, Stream!Fail
<1>3. CASE CloseText
  <2>1. 0 \in 0..counter
    OBVIOUS
  <2>. QED BY <1>3, <2>1, BlockStops DEF CloseText, Stream!Next
<1>4. CASE CloseTool
  <2>1. PICK k \in ToClose : closed' = closed \cup {calls[order[k]].block}
    BY <1>4 DEF CloseTool
  <2>2. PICK n \in 0..counter : n = calls[order[k]].block /\ n \notin closed
    BY <2>1 DEF ToClose, IInv, TypeOK, BlockInv
  <2>3. Stream!Close
    BY <1>4, <2>1, <2>2, BlockStops DEF CloseTool
  <2>. QED BY <2>3 DEF Stream!Next
<1>5. CASE Conclude
  <2>. UNCHANGED <<texts, calls, counter, closed>>
    BY <1>5 DEF Conclude
  <2>1. CASE stage = "closing" /\ stage' = "delta"
    <3>1. Phase' = Phase /\ Announced' = Announced
      BY <2>1 DEF Phase, Announced
    <3>. QED BY <3>1, SameStream
  <2>2. CASE stage = "delta" /\ stage' = "stop"
    <3>1. Phase = "open" /\ Phase' = "delta" /\ Announced = 0..counter /\ Announced' = Announced
      BY <2>2 DEF Phase, Announced
    <3>2. Blocks' = Blocks
      BY <3>1 DEF Blocks, BlockAt, CallOf
    <3>3. closed = 0..counter
      BY <2>2 DEF IInv, StageInv
    <3>4. DOMAIN Blocks = 0..counter /\ \A n \in DOMAIN Blocks : ~Blocks[n].open
      BY <3>1, <3>3 DEF Blocks, BlockAt
    <3>5. Blocks # [n \in {} |-> Stream!Opened("text")]
      <4>1. 0 \in DOMAIN Blocks /\ DOMAIN [n \in {} |-> Stream!Opened("text")] = {}
        BY <3>4
      <4>. QED BY <4>1
    <3>. QED BY <3>1, <3>2, <3>4, <3>5 DEF Stream!Next, Stream!Conclude
  <2>3. CASE stage = "stop" /\ stage' = "stopped"
    <3>1. Phase = "delta" /\ Phase' = "stopped" /\ Announced' = Announced
      BY <2>3 DEF Phase, Announced
    <3>2. Blocks' = Blocks
      BY <3>1 DEF Blocks, BlockAt, CallOf
    <3>. QED BY <3>1, <3>2 DEF Stream!Next, Stream!Stop
  <2>. QED BY <1>5, <2>1, <2>2, <2>3 DEF Conclude
<1>. QED BY <1>1, <1>2, <1>3, <1>4, <1>5 DEF TailStep

\* A step that joins a piece to a buffer passes the input on or does nothing to be seen.
LEMMA BufferStreams ==
    ASSUME IInv, IInv', stage = "reading", UNCHANGED <<stage, texts, counter, closed>>,
           NEW i \in Indexes, SendsPiece(i), (calls[i].block > 0 /\ Buffered(i)) \/ UNCHANGED calls
    PROVE  [Stream!Next]_(Stream!vars)
<1>1. Phase' = Phase /\ Announced' = Announced
  BY DEF Phase, Announced
<1>2. CASE UNCHANGED calls
  BY <1>1, <1>2, SameStream
<1>3. CASE calls[i].block > 0 /\ Buffered(i)
  <2>1. /\ calls'[i].block = calls[i].block
        /\ \A j \in Indexes \ {i} : calls'[j] = calls[j]
        /\ \/ calls'[i].inputs = calls[i].inputs
           \/ calls[i].inputs = 0 /\ calls'[i].inputs = 1
    BY <1>3, PieceBuffered DEF IInv
  <2>2. CASE calls'[i].inputs = calls[i].inputs
    BY <1>1, <2>1, <2>2, SameStream
  <2>3. CASE calls[i].inputs = 0 /\ calls'[i].inputs = 1
    BY <1>3, <2>1, <2>3, InputGrows DEF Stream!Next
  <2>. QED BY <2>1, <2>2, <2>3
<1>. QED BY <1>2, <1>3

LEMMA ReadingStreams ==
    ASSUME IInv, IInv', ChatStep \/ ResponsesStep
    PROVE  [Stream!Next]_(Stream!vars)
<1>. TypeOK /\ counter \in Nat /\ counter + 1 \in Nat
  BY DEF IInv, TypeOK
<1>1. ASSUME NEW f \in {"chat", "responses"}, Text(f) PROVE [Stream!Next]_(Stream!vars)
  BY <1>1, TextGrows DEF Text, Reads, Stream!Next
<1>2. ASSUME NEW i \in Indexes, NEW fields \in SUBSET Identity, ChatIdentity(i, fields)
      PROVE  [Stream!Next]_(Stream!vars)
  <2>1. stage = "reading" /\ UNCHANGED <<stage, texts, closed>>
    BY <1>2 DEF ChatIdentity, Reads
  <2>2. CASE calls[i].block = 0 /\ calls[i].known \cup fields = Identity
    <3>1. /\ counter' = counter + 1
          /\ calls' = [calls EXCEPT ![i].known = Identity, ![i].block = counter + 1]
      BY <1>2, <2>2 DEF ChatIdentity
    <3>2. calls[i].inputs = 0
      <4>1. calls[i].inputs \in Nat
        BY DEF TypeOK, Entries
      <4>2. ~(calls[i].inputs > 0)
        BY <2>2 DEF IInv, BlockInv, Started
      <4>. QED BY <4>1, <4>2
    <3>. QED BY <2>1, <2>2, <3>1, <3>2, BlockStarted, ToolOpens DEF Stream!Next
  <2>3. CASE calls[i].block > 0 \/ calls[i].known \cup fields # Identity
    <3>1. counter' = counter /\ calls' = [calls EXCEPT ![i].known = @ \cup fields]
      BY <1>2, <2>3 DEF ChatIdentity
    <3>2. Phase' = Phase /\ Announced' = Announced
      BY <2>1, <3>1 DEF Phase, Announced
    <3>. QED BY <2>1, <3>1, <3>2, FieldsKnown, SameStream
  <2>. QED BY <1>2, <2>2, <2>3 DEF ChatIdentity
<1>3. ASSUME NEW i \in Indexes, ChatPiece(i) PROVE [Stream!Next]_(Stream!vars)
  BY <1>3, BufferStreams DEF ChatPiece, Reads
<1>4. ASSUME NEW reason \in {"stop", "length", "tool_calls"}, ChatFinish(reason)
      PROVE  [Stream!Next]_(Stream!vars)
  <2>1. Phase' = Phase /\ Announced' = Announced
    BY <1>4 DEF ChatFinish, Phase, Announced
  <2>. QED BY <1>4, <2>1, SameStream DEF ChatFinish
<1>5. ASSUME NEW i \in Indexes, ResponsesItem(i) PROVE [Stream!Next]_(Stream!vars)
  <2>1. calls[i].known = {} /\ i \notin Started
    BY <1>5 DEF ResponsesItem, IInv, ArrivalInv, Identity
  <2>2. calls[i].block = 0
    BY <2>1 DEF IInv, BlockInv, TypeOK, Started
  <2>. QED BY <1>5, <2>2, ItemAdded, ToolOpens DEF ResponsesItem, Reads, Stream!Next
<1>6. ASSUME NEW i \in Indexes, ResponsesPiece(i) PROVE [Stream!Next]_(Stream!vars)
  <2>1. i \in Seen => calls[i].block > 0
    BY <1>6 DEF ResponsesPiece, Reads, IInv, BlockInv, Started
  <2>. QED BY <1>6, <2>1, BufferStreams DEF ResponsesPiece, Reads
<1>7. ASSUME NEW i \in Indexes, ResponsesArguments(i) PROVE [Stream!Next]_(Stream!vars)
  <2>1. stage = "reading" /\ UNCHANGED <<stage, texts, counter, closed>>
    BY <1>7 DEF ResponsesArguments, Reads
  <2>2. CASE i \in Seen /\ calls[i].inputs = 0
    <3>1. calls' = [calls EXCEPT ![i].buffer = Whole, ![i].inputs = 1]
      BY <1>7, <2>2 DEF ResponsesArguments
    <3>2. calls[i].block > 0
      BY <1>7, <2>2 DEF ResponsesArguments, Reads, IInv, BlockInv, Started
    <3>3. /\ calls'[i].block = calls[i].block /\ calls'[i].inputs = 1
          /\ \A j \in Indexes \ {i} : calls'[j] = calls[j]
      BY <3>1, WholeBuffered
    <3>. QED BY <2>1, <2>2, <3>2, <3>3, InputGrows DEF Stream!Next
  <2>3. CASE ~(i \in Seen /\ calls[i].inputs = 0)
    <3>1. UNCHANGED calls
      BY <1>7, <2>3 DEF ResponsesArguments
    <3>2. Phase' = Phase /\ Announced' = Announced
      BY <2>1 DEF Phase, Announced
    <3>. QED BY <2>1, <3>1, <3>2, SameStream
  <2>. QED BY <2>2, <2>3
<1>8. ASSUME NEW kind \in {"completed", "incomplete", "filtered"}, ResponsesTerminal(kind)
      PROVE  [Stream!Next]_(Stream!vars)
  <2>1. Phase' = Phase /\ Announced' = Announced
    BY <1>8 DEF ResponsesTerminal, Reads, Phase, Announced
  <2>. QED BY <1>8, <2>1, SameStream DEF ResponsesTerminal
<1>. QED
  BY <1>1, <1>2, <1>3, <1>4, <1>5, <1>6, <1>7, <1>8 DEF ChatStep, ResponsesStep

\* The frames of either converter are those of one proper Anthropic message, for any
\* number of calls, pieces and text deltas, wherever the upstream ends.
THEOREM ConverterImplementsStream == Spec => KeepsStream
<1>1. IInv /\ IInv' /\ [Next]_vars => [Stream!Next]_(Stream!vars)
  <2>. SUFFICES ASSUME IInv, IInv', [Next]_vars PROVE [Stream!Next]_(Stream!vars)
    OBVIOUS
  <2>1. CASE UNCHANGED vars
    <3>1. Phase' = Phase /\ Announced' = Announced
      BY <2>1 DEF vars, Phase, Announced
    <3>. QED BY <2>1, <3>1, SameStream DEF vars
  <2>. QED BY <2>1, PreambleStreams, ReadingStreams, TailStreams DEF Next
<1>. QED BY <1>1, StartsStream, ConverterInvariance, PTL DEF Spec, KeepsStream, Stream!Spec
=============================================================================
