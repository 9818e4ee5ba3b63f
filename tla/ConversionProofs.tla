-------------------------- MODULE ConversionProofs --------------------------
(***************************************************************************)
(* RequestConverter: a converted request says what was said, has its tool  *)
(* results where they belong and no turn of system text alone next to a    *)
(* user's, for any conversation the Messages API allows and any cache.     *)
(* What is lost, doubled or out of place could be anywhere in sequences of *)
(* any length, so most lemmas are of what a property of two sequences is   *)
(* worth when one is put behind the other.                                 *)
(***************************************************************************)
EXTENDS RequestConverter, RequestProofs

-----------------------------------------------------------------------------
(* What items say.                                                         *)

\* The ids of blocks.
Id == Nat \X Nat
\* The roles of items.
Roles == {"user", "system", "assistant", "tool", "reasoning", "function_call", "function_call_output"}
ItemType == [role : Roles, parts : Seq(ContentBlock), calls : Seq(Id)]

\* The words of the items, in order.
WordParts(s) == [i \in DOMAIN s |-> Words(s[i].parts)]
WordsOf(s) == FlattenSeq(WordParts(s))

\* Words are blocks.
LEMMA WordsTyped ==
    ASSUME NEW b \in Seq(ContentBlock)
    PROVE  Words(b) \in Seq(ContentBlock)
BY OfKindsTyped DEF Words

\* The items' words are sequences of blocks.
LEMMA WordPartsTyped ==
    ASSUME NEW s \in Seq(ItemType)
    PROVE  WordParts(s) \in Seq(Seq(ContentBlock)) /\ Len(WordParts(s)) = Len(s)
<1>1. \A i \in DOMAIN s : s[i] \in ItemType
  OBVIOUS
<1>2. \A i \in DOMAIN s : Words(s[i].parts) \in Seq(ContentBlock)
  BY <1>1, WordsTyped DEF ItemType
<1>3. DOMAIN s = 1..Len(s) /\ Len(s) \in Nat
  OBVIOUS
<1> QED BY <1>2, <1>3 DEF WordParts

\* The words of all items are blocks.
LEMMA WordsOfTyped ==
    ASSUME NEW s \in Seq(ItemType)
    PROVE  WordsOf(s) \in Seq(ContentBlock)
BY WordPartsTyped, FlattenTyped DEF WordsOf

\* No items have no words.
LEMMA WordsOfEmpty == WordsOf(<<>>) = <<>>
<1>1. WordParts(<<>>) = <<>>
  BY DEF WordParts
<1> QED BY <1>1, FlattenEmpty DEF WordsOf

\* One more item has its words behind the others'.
LEMMA WordsOfAppend ==
    ASSUME NEW s \in Seq(ItemType), NEW it \in ItemType
    PROVE  WordsOf(Append(s, it)) = WordsOf(s) \o Words(it.parts)
<1>1. Words(it.parts) \in Seq(ContentBlock)
  BY WordsTyped DEF ItemType
<1>2. Append(s, it) \in Seq(ItemType) /\ Len(Append(s, it)) = Len(s) + 1
  OBVIOUS
<1>3. /\ WordParts(Append(s, it)) \in Seq(Seq(ContentBlock)) /\ Len(WordParts(Append(s, it))) = Len(s) + 1
      /\ WordParts(s) \in Seq(Seq(ContentBlock)) /\ Len(WordParts(s)) = Len(s)
  BY <1>2, WordPartsTyped
<1>4. /\ \A i \in 1..Len(s) : WordParts(Append(s, it))[i] = WordParts(s)[i]
      /\ WordParts(Append(s, it))[Len(s) + 1] = Words(it.parts)
  BY DEF WordParts
<1>5. WordParts(Append(s, it)) = Append(WordParts(s), Words(it.parts))
  BY ONLY <1>1, <1>3, <1>4, AppendIs
<1>6. FlattenSeq(Append(WordParts(s), Words(it.parts))) = FlattenSeq(WordParts(s)) \o Words(it.parts)
  BY ONLY <1>1, <1>3, FlattenOneMore
<1> QED BY <1>5, <1>6 DEF WordsOf

\* Items behind items have their words behind theirs.
LEMMA WordsOfConcat ==
    ASSUME NEW s \in Seq(ItemType), NEW t \in Seq(ItemType)
    PROVE  WordsOf(s \o t) = WordsOf(s) \o WordsOf(t)
<1> DEFINE P == {u \in Seq(ItemType) : WordsOf(s \o u) = WordsOf(s) \o WordsOf(u)}
<1>1. P \in SUBSET Seq(ItemType)
  OBVIOUS
<1>2. <<>> \in P
  <2>1. s \o <<>> = s
    OBVIOUS
  <2>2. WordsOf(s) \in Seq(ContentBlock)
    BY WordsOfTyped
  <2>3. WordsOf(s) \o <<>> = WordsOf(s)
    BY <2>2
  <2>4. WordsOf(s \o <<>>) = WordsOf(s) \o WordsOf(<<>>)
    BY ONLY <2>1, <2>3, WordsOfEmpty, Zenon
  <2> QED BY <2>4, EmptyIsSeq
<1>3. ASSUME NEW u \in P, NEW e \in ItemType PROVE Append(u, e) \in P
  <2>1. u \in Seq(ItemType) /\ WordsOf(s \o u) = WordsOf(s) \o WordsOf(u)
    OBVIOUS
  <2>2. s \o u \in Seq(ItemType) /\ s \o Append(u, e) = Append(s \o u, e) /\ Append(u, e) \in Seq(ItemType)
    BY <2>1
  <2>3. WordsOf(Append(s \o u, e)) = WordsOf(s \o u) \o Words(e.parts)
    BY <2>2, WordsOfAppend
  <2>4. WordsOf(Append(u, e)) = WordsOf(u) \o Words(e.parts)
    BY <2>1, WordsOfAppend
  <2>5. WordsOf(s) \in Seq(ContentBlock) /\ WordsOf(u) \in Seq(ContentBlock) /\ Words(e.parts) \in Seq(ContentBlock)
    BY <2>1, WordsOfTyped, WordsTyped DEF ItemType
  <2>6. WordsOf(s) \o (WordsOf(u) \o Words(e.parts)) = (WordsOf(s) \o WordsOf(u)) \o Words(e.parts)
    BY ONLY <2>5, ConcatThree
  <2> QED BY <2>1, <2>2, <2>3, <2>4, <2>6
<1> HIDE DEF P
<1>4. t \in P
  BY <1>1, <1>2, <1>3, OneByOne
<1> QED BY <1>4 DEF P

\* Items none of which has words have none together.
LEMMA Wordless ==
    ASSUME NEW s \in Seq(ItemType), \A i \in DOMAIN s : Words(s[i].parts) = <<>>
    PROVE  WordsOf(s) = <<>>
<1>1. Elements(WordsOf(s)) = UNION {Elements(u) : u \in Elements(WordParts(s))}
  BY WordPartsTyped, FlattenElements DEF WordsOf
<1>2. \A u \in Elements(WordParts(s)) : Elements(u) = {}
  BY DEF Elements, WordParts
<1>3. \A x \in Elements(WordsOf(s)) : FALSE
  BY <1>1, <1>2
<1>4. WordsOf(s) \in Seq(ContentBlock)
  BY WordsOfTyped
<1>5. DOMAIN WordsOf(s) = {}
  BY <1>3 DEF Elements
<1> QED BY <1>4, <1>5

\* A message's blocks of some kinds are blocks of those kinds.
LEMMA OfTyped ==
    ASSUME NEW m \in Message, NEW A
    PROVE  Of(m, A) \in Seq(ContentBlock) /\ \A i \in DOMAIN Of(m, A) : Of(m, A)[i].kind \in A
<1>1. m.blocks \in Seq(ContentBlock)
  BY DEF Message
<1> QED BY <1>1, OfKindsTyped, OfKindsElements DEF Of

\* Blocks behind blocks have their words behind theirs.
LEMMA WordsConcat ==
    ASSUME NEW a \in Seq(ContentBlock), NEW b \in Seq(ContentBlock)
    PROVE  Words(a \o b) = Words(a) \o Words(b)
<1>1. \A A : OfKinds(a \o b, A) = OfKinds(a, A) \o OfKinds(b, A)
  BY OfKindsConcat
<1> QED BY <1>1 DEF Words

\* What is said in a message is what is said in what becomes of it.
LEMMA MessageWords ==
    ASSUME NEW m \in Message
    PROVE  /\ Words(Content(m)) = Of(m, {"text", "image"})
           /\ Words(SystemText(m)) = Of(m, {"text"})
           /\ Words(Of(m, {"text", "blank"})) = Of(m, {"text"})
<1>1. m.blocks \in Seq(ContentBlock)
  BY DEF Message
<1>2. \A A : Words(Of(m, A)) = Of(m, A \cap {"text", "image"})
  BY <1>1, OfKindsTwice DEF Words, Of
<1>3. /\ {"text", "blank", "image"} \cap {"text", "image"} = {"text", "image"}
      /\ {"text"} \cap {"text", "image"} = {"text"}
      /\ {"text", "blank"} \cap {"text", "image"} = {"text"}
  OBVIOUS
<1> QED BY <1>2, <1>3 DEF Content, SystemText

\* What is said in a message are blocks.
LEMMA SaidTyped ==
    ASSUME NEW m \in Message
    PROVE  Said(m) \in Seq(ContentBlock)
BY OfTyped DEF Said

\* What is said in the first n messages of c.
SaidIn(c, n) == FlattenSeq([m \in 1..n |-> Said(c[m])])

\* What is said in a conversation are blocks.
LEMMA SaidInTyped ==
    ASSUME NEW c \in Seq(Message), NEW n \in 0..Len(c)
    PROVE  /\ [m \in 1..n |-> Said(c[m])] \in Seq(Seq(ContentBlock))
           /\ SaidIn(c, n) \in Seq(ContentBlock)
<1>1. n \in Nat /\ \A m \in 1..n : c[m] \in Message
  OBVIOUS
<1>2. \A m \in 1..n : Said(c[m]) \in Seq(ContentBlock)
  BY <1>1, SaidTyped
<1>3. [m \in 1..n |-> Said(c[m])] \in Seq(Seq(ContentBlock))
  BY <1>1, <1>2
<1> QED BY <1>3, FlattenTyped DEF SaidIn

\* Each message adds what is said in it.
LEMMA SaidNext ==
    ASSUME NEW c \in Seq(Message), NEW n \in 1..Len(c)
    PROVE  SaidIn(c, n) = SaidIn(c, n - 1) \o Said(c[n])
<1> DEFINE a == [m \in 1..n |-> Said(c[m])]  z == [m \in 1..(n - 1) |-> Said(c[m])]
<1>1. n \in Nat /\ n - 1 \in Nat /\ n \in 0..Len(c) /\ n - 1 \in 0..Len(c) /\ n - 1 + 1 = n /\ c[n] \in Message
  OBVIOUS
<1>2. a \in Seq(Seq(ContentBlock)) /\ z \in Seq(Seq(ContentBlock)) /\ Said(c[n]) \in Seq(ContentBlock)
  BY <1>1, SaidInTyped, SaidTyped
<1>3. Len(a) = Len(z) + 1 /\ a[Len(z) + 1] = Said(c[n])
  BY <1>1
<1>4. \A i \in 1..Len(z) : a[i] = z[i]
  BY <1>1
<1>5. SaidIn(c, n) = FlattenSeq(a) /\ SaidIn(c, n - 1) = FlattenSeq(z)
  BY DEF SaidIn
<1> HIDE DEF a, z
<1>6. a = Append(z, Said(c[n]))
  BY ONLY <1>2, <1>3, <1>4, AppendIs
<1>7. FlattenSeq(Append(z, Said(c[n]))) = FlattenSeq(z) \o Said(c[n])
  BY ONLY <1>2, FlattenOneMore
<1> QED BY <1>5, <1>6, <1>7

\* Before the first message nothing is said.
LEMMA SaidNothing == ASSUME NEW c PROVE SaidIn(c, 0) = <<>>
<1>1. [m \in 1..0 |-> Said(c[m])] = <<>>
  OBVIOUS
<1> QED BY <1>1, FlattenEmpty DEF SaidIn

\* Tool results as items: one each, wordless, that names its call.
LEMMA ResultItems ==
    ASSUME NEW m \in Message, NEW role \in Roles, NEW t,
           t = [i \in DOMAIN Results(m) |-> Item(role, <<Results(m)[i]>>, <<Results(m)[i].id>>)]
    PROVE  /\ t \in Seq(ItemType) /\ DOMAIN t = DOMAIN Results(m)
           /\ \A i \in DOMAIN t : t[i].role = role /\ t[i].calls = <<Results(m)[i].id>>
           /\ WordsOf(t) = <<>>
<1> DEFINE r == Results(m)
<1>1. r \in Seq(ContentBlock) /\ \A i \in DOMAIN r : r[i].kind = "result"
  BY OfTyped DEF Results
<1> HIDE DEF r
<1>2. \A i \in DOMAIN r : r[i] \in ContentBlock /\ r[i].id \in Id
  <2>1. \A i \in DOMAIN r : r[i] \in ContentBlock
    BY <1>1
  <2> QED BY <2>1 DEF ContentBlock, Id
<1>3. \A i \in DOMAIN r : Item(role, <<r[i]>>, <<r[i].id>>) \in ItemType
  BY <1>2 DEF Item, ItemType
<1>4. DOMAIN t = DOMAIN r /\ \A i \in DOMAIN r : t[i] = Item(role, <<r[i]>>, <<r[i].id>>)
  BY DEF r
<1>5. DOMAIN r = 1..Len(r) /\ Len(r) \in Nat /\ t = [i \in DOMAIN r |-> t[i]]
  BY <1>1 DEF r
<1>6. t \in Seq(ItemType)
  <2>1. \A i \in 1..Len(r) : t[i] \in ItemType
    BY <1>3, <1>4, <1>5
  <2>2. t = [i \in 1..Len(r) |-> t[i]]
    BY ONLY <1>5
  <2> QED BY ONLY <1>5, <2>1, <2>2
<1>7. \A i \in DOMAIN t : t[i].role = role /\ t[i].calls = <<r[i].id>> /\ t[i].parts = <<r[i]>>
  BY <1>4 DEF Item
<1>8. \A i \in DOMAIN t : Words(t[i].parts) = <<>>
  <2> SUFFICES ASSUME NEW i \in DOMAIN t PROVE Words(<<r[i]>>) = <<>>
    BY <1>7
  <2>1. r[i] \in ContentBlock /\ r[i].kind \notin {"text", "image"}
    BY <1>1, <1>2, <1>4
  <2>2. <<r[i]>> = Append(<<>>, r[i])
    OBVIOUS
  <2>3. OfKinds(Append(<<>>, r[i]), {"text", "image"}) = OfKinds(<<>>, {"text", "image"})
    <3>1. <<>> \in Seq(ContentBlock)
      OBVIOUS
    <3> QED BY <2>1, <3>1, OfKindsAppend
  <2> QED BY <2>2, <2>3, OfKindsEmpty DEF Words
<1>9. WordsOf(t) = <<>>
  BY <1>6, <1>8, Wordless
<1> QED BY <1>4, <1>6, <1>7, <1>9 DEF r

\* Text at the end of the last item.
Lengthened(s, text) == [s EXCEPT ![Len(s)].parts = @ \o text]

\* Only the last item changes, and the text comes behind all words.
LEMMA LastLengthened ==
    ASSUME NEW s \in Seq(ItemType), s # <<>>, NEW text \in Seq(ContentBlock)
    PROVE  LET t == Lengthened(s, text) IN
           /\ t \in Seq(ItemType) /\ Len(t) = Len(s) /\ DOMAIN t = DOMAIN s
           /\ \A i \in DOMAIN s : i # Len(s) => t[i] = s[i]
           /\ \A i \in DOMAIN s : t[i].role = s[i].role /\ t[i].calls = s[i].calls
           /\ t[Len(s)].parts = s[Len(s)].parts \o text
           /\ WordsOf(t) = WordsOf(s) \o Words(text)
<1> DEFINE t == Lengthened(s, text)
<1> HIDE DEF t
<1>1. PICK f \in Seq(ItemType), l \in ItemType : s = Append(f, l)
  BY SequenceEmptyOrAppend
<1>2. Len(s) = Len(f) + 1 /\ s[Len(s)] = l /\ Len(f) \in Nat /\ DOMAIN s = 1..Len(s)
      /\ \A i \in 1..Len(f) : s[i] = f[i]
  BY <1>1
<1> DEFINE k == [l EXCEPT !.parts = @ \o text]  u == Append(f, k)
<1>3. l.parts \in Seq(ContentBlock) /\ l.parts \o text \in Seq(ContentBlock)
  BY DEF ItemType
<1>4. k \in ItemType /\ k.parts = l.parts \o text /\ k.role = l.role /\ k.calls = l.calls
  BY <1>3 DEF ItemType
<1> HIDE DEF k
<1>5. u \in Seq(ItemType) /\ Len(u) = Len(f) + 1 /\ u[Len(f) + 1] = k /\ \A i \in 1..Len(f) : u[i] = f[i]
  BY <1>4
<1>6. t = u
  <2>1. DOMAIN t = 1..Len(s) /\ t[Len(s)] = k /\ \A i \in 1..Len(f) : t[i] = f[i]
    BY <1>2 DEF k, t, Lengthened
  <2>2. t = [i \in 1..Len(s) |-> t[i]]
    BY <1>2 DEF t, Lengthened
  <2>3. \A i \in 1..Len(s) : i = Len(s) \/ i \in 1..Len(f)
    BY <1>2
  <2>4. \A i \in 1..Len(s) : t[i] \in ItemType
    <3>1. \A i \in 1..Len(f) : f[i] \in ItemType
      OBVIOUS
    <3> QED BY ONLY <1>4, <2>1, <2>3, <3>1
  <2>5. t \in Seq(ItemType) /\ Len(t) = Len(s)
    BY ONLY <1>2, <2>1, <2>2, <2>4
  <2> HIDE DEF u
  <2>6. \A i \in 1..Len(s) : t[i] = u[i]
    BY ONLY <1>2, <1>5, <2>1, <2>3
  <2> QED BY ONLY <1>2, <1>5, <2>5, <2>6, SeqEqual
<1>7. WordsOf(u) = WordsOf(f) \o Words(k.parts) /\ WordsOf(s) = WordsOf(f) \o Words(l.parts)
  BY <1>1, <1>4, WordsOfAppend
<1>8. Words(l.parts \o text) = Words(l.parts) \o Words(text)
  BY ONLY <1>3, text \in Seq(ContentBlock), WordsConcat
<1>9. WordsOf(f) \o (Words(l.parts) \o Words(text)) = (WordsOf(f) \o Words(l.parts)) \o Words(text)
  <2>1. WordsOf(f) \in Seq(ContentBlock) /\ Words(l.parts) \in Seq(ContentBlock) /\ Words(text) \in Seq(ContentBlock)
    BY <1>3, WordsOfTyped, WordsTyped
  <2> QED BY ONLY <2>1, ConcatThree
<1>10. WordsOf(u) = WordsOf(s) \o Words(text)
  BY <1>4, <1>7, <1>8, <1>9
<1> HIDE DEF u
<1>11. \A i \in DOMAIN s : i = Len(f) + 1 \/ i \in 1..Len(f)
  BY <1>2
<1>12. DOMAIN t = DOMAIN s
  BY <1>2, <1>5, <1>6
<1> QED BY <1>2, <1>4, <1>5, <1>6, <1>10, <1>11, <1>12 DEF t

\* The places of two sequences put together are those of the one, then those of the other.
LEMMA ConcatPlaces ==
    ASSUME NEW S, NEW s \in Seq(S), NEW t \in Seq(S)
    PROVE  /\ s \o t \in Seq(S) /\ Len(s \o t) = Len(s) + Len(t)
           /\ \A i \in DOMAIN s : i \in DOMAIN (s \o t) /\ (s \o t)[i] = s[i]
           /\ \A i \in DOMAIN t : Len(s) + i \in DOMAIN (s \o t) /\ (s \o t)[Len(s) + i] = t[i]
           /\ \A k \in DOMAIN (s \o t) : k \in DOMAIN s \/ \E i \in DOMAIN t : k = Len(s) + i
<1>1. s \o t \in Seq(S) /\ Len(s \o t) = Len(s) + Len(t)
  OBVIOUS
<1>2. \A i \in DOMAIN s : i \in DOMAIN (s \o t) /\ (s \o t)[i] = s[i]
  OBVIOUS
<1>3. \A i \in DOMAIN t : Len(s) + i \in DOMAIN (s \o t) /\ (s \o t)[Len(s) + i] = t[i]
  OBVIOUS
<1>4. \A k \in DOMAIN (s \o t) : k \in DOMAIN s \/ \E i \in DOMAIN t : k = Len(s) + i
  <2>1. \A k \in DOMAIN (s \o t) : k \in DOMAIN s \/ (k - Len(s) \in DOMAIN t /\ k = Len(s) + (k - Len(s)))
    OBVIOUS
  <2> QED BY <2>1
<1> QED BY <1>1, <1>2, <1>3, <1>4

\* Every call whose reasoning is cached stands right behind it.
Reasoned(s) ==
    \A i \in DOMAIN s : s[i].role = "function_call" /\ s[i].calls[1] \in Cached =>
        i > 1 /\ s[i - 1] = Item("reasoning", <<>>, s[i].calls)

\* Items behind items keep their reasoning before their calls.
LEMMA ReasonedConcat ==
    ASSUME NEW s \in Seq(ItemType), NEW t \in Seq(ItemType), Reasoned(s), Reasoned(t)
    PROVE  Reasoned(s \o t)
<1> DEFINE u == s \o t  n == Len(s)
<1>1. /\ \A i \in DOMAIN s : i \in DOMAIN u /\ u[i] = s[i]
      /\ \A i \in DOMAIN t : n + i \in DOMAIN u /\ u[n + i] = t[i]
      /\ \A k \in DOMAIN u : k \in DOMAIN s \/ \E i \in DOMAIN t : k = n + i
  BY ConcatPlaces
<1>2. n \in Nat /\ DOMAIN s = 1..n /\ Len(t) \in Nat /\ DOMAIN t = 1..Len(t)
  OBVIOUS
<1> HIDE DEF u, n
<1>3. SUFFICES ASSUME NEW k \in DOMAIN u, u[k].role = "function_call", u[k].calls[1] \in Cached
               PROVE  k > 1 /\ u[k - 1] = Item("reasoning", <<>>, u[k].calls)
  BY DEF Reasoned, u
<1>4. CASE k \in DOMAIN s
  <2>1. k > 1 /\ s[k - 1] = Item("reasoning", <<>>, s[k].calls)
    BY <1>1, <1>3, <1>4 DEF Reasoned
  <2>2. k - 1 \in DOMAIN s
    BY <1>2, <1>4, <2>1
  <2> QED BY <1>1, <1>4, <2>1, <2>2
<1>5. CASE k \notin DOMAIN s
  <2>1. PICK i \in DOMAIN t : k = n + i
    BY <1>1, <1>5
  <2>2. i > 1 /\ t[i - 1] = Item("reasoning", <<>>, t[i].calls)
    BY <1>1, <1>3, <2>1 DEF Reasoned
  <2>3. i - 1 \in DOMAIN t /\ n + (i - 1) = k - 1 /\ k > 1
    BY <1>2, <2>1, <2>2
  <2>4. u[n + (i - 1)] = t[i - 1]
    BY <1>1, <2>3
  <2> QED BY <1>1, <2>1, <2>2, <2>3, <2>4
<1> QED BY <1>4, <1>5

\* A call is made.
HasCall(s, id) == \E i \in DOMAIN s : s[i].role = "function_call" /\ s[i].calls = <<id>>

\* A result stands behind its call.
CallAnswered(s, id) ==
    \E j \in DOMAIN s : \E i \in 1..(j - 1) :
        /\ s[i].role = "function_call" /\ s[j].role = "function_call_output"
        /\ s[i].calls = <<id>> /\ s[j].calls = <<id>>

\* Calls and their results stay when items come behind them, and a result behind its call
\* answers it.
LEMMA CallsStay ==
    ASSUME NEW s \in Seq(ItemType), NEW t \in Seq(ItemType), NEW id
    PROVE  /\ HasCall(s, id) => HasCall(s \o t, id)
           /\ HasCall(t, id) => HasCall(s \o t, id)
           /\ CallAnswered(s, id) => CallAnswered(s \o t, id)
           /\ HasCall(s, id) /\ (\E k \in DOMAIN t : t[k].role = "function_call_output" /\ t[k].calls = <<id>>)
                 => CallAnswered(s \o t, id)
<1> DEFINE u == s \o t  n == Len(s)
<1>1. /\ \A i \in DOMAIN s : i \in DOMAIN u /\ u[i] = s[i]
      /\ \A i \in DOMAIN t : n + i \in DOMAIN u /\ u[n + i] = t[i]
  BY ConcatPlaces
<1>2. n \in Nat /\ DOMAIN s = 1..n /\ Len(t) \in Nat /\ DOMAIN t = 1..Len(t)
  OBVIOUS
<1> HIDE DEF u, n
<1>3. HasCall(s, id) => HasCall(u, id)
  BY <1>1 DEF HasCall
<1>4. HasCall(t, id) => HasCall(u, id)
  BY <1>1 DEF HasCall
<1>5. CallAnswered(s, id) => CallAnswered(u, id)
  <2> SUFFICES ASSUME NEW j \in DOMAIN s, NEW i \in 1..(j - 1),
                      s[i].role = "function_call" /\ s[j].role = "function_call_output",
                      s[i].calls = <<id>> /\ s[j].calls = <<id>>
               PROVE  CallAnswered(u, id)
    BY DEF CallAnswered
  <2>1. i \in DOMAIN s
    BY <1>2
  <2> QED BY <1>1, <2>1 DEF CallAnswered
<1>6. ASSUME HasCall(s, id), NEW k \in DOMAIN t, t[k].role = "function_call_output", t[k].calls = <<id>>
      PROVE  CallAnswered(u, id)
  <2>1. PICK i \in DOMAIN s : s[i].role = "function_call" /\ s[i].calls = <<id>>
    BY <1>6 DEF HasCall
  <2>2. i \in 1..(n + k - 1) /\ n + k \in DOMAIN u
    BY <1>1, <1>2, <1>6
  <2>3. u[i] = s[i] /\ u[n + k] = t[k]
    BY <1>1, <1>6
  <2>4. PICK j : j = n + k
    OBVIOUS
  <2>5. j \in DOMAIN u /\ i \in 1..(j - 1)
    BY ONLY <2>2, <2>4, <1>2
  <2>6. /\ u[i].role = "function_call" /\ u[j].role = "function_call_output"
        /\ u[i].calls = <<id>> /\ u[j].calls = <<id>>
    BY ONLY <1>6, <2>1, <2>3, <2>4
  <2> QED BY ONLY <2>5, <2>6 DEF CallAnswered
<1> QED BY <1>3, <1>4, <1>5, <1>6 DEF u

\* Two sequences of one element make one of two.
LEMMA OneAndOne ==
    ASSUME NEW S, NEW x \in S, NEW y \in S
    PROVE  <<x>> \o <<y>> = <<x, y>>
<1> DEFINE a == <<x>>  b == <<y>>  z == <<x, y>>
<1>1. a \in Seq(S) /\ b \in Seq(S) /\ z \in Seq(S) /\ Len(a) = 1 /\ Len(b) = 1 /\ Len(z) = 2
      /\ a[1] = x /\ b[1] = y /\ z[1] = x /\ z[2] = y
  OBVIOUS
<1> HIDE DEF a, b, z
<1>2. a \o b \in Seq(S) /\ Len(a \o b) = 2 /\ (a \o b)[1] = x /\ (a \o b)[2] = y
  <2>1. 1 \in DOMAIN a /\ 1 \in DOMAIN b /\ 1 + 1 = 2
    BY ONLY <1>1
  <2>2. /\ a \o b \in Seq(S) /\ Len(a \o b) = Len(a) + Len(b)
        /\ \A i \in DOMAIN a : i \in DOMAIN (a \o b) /\ (a \o b)[i] = a[i]
        /\ \A i \in DOMAIN b : Len(a) + i \in DOMAIN (a \o b) /\ (a \o b)[Len(a) + i] = b[i]
    BY ONLY <1>1, ConcatPlaces
  <2>3. (a \o b)[1] = a[1] /\ (a \o b)[Len(a) + 1] = b[1]
    BY ONLY <2>1, <2>2
  <2>4. Len(a) + 1 = 2 /\ Len(a) + Len(b) = 2
    BY ONLY <1>1
  <2> QED BY ONLY <1>1, <2>2, <2>3, <2>4
<1>3. \A i \in 1..2 : i = 1 \/ i = 2
  OBVIOUS
<1>4. a \o b = z
  BY ONLY <1>1, <1>2, <1>3, SeqEqual
<1> QED BY <1>4 DEF a, b, z

\* The items of some calls.
CallsOf(ids) == FlattenSeq([i \in DOMAIN ids |-> Call(ids[i])])

\* A call's items are wordless and have its reasoning right before it.
LEMMA CallItems ==
    ASSUME NEW id \in Id
    PROVE  Call(id) \in Seq(ItemType) /\ WordsOf(Call(id)) = <<>> /\ Reasoned(Call(id)) /\ HasCall(Call(id), id)
<1> DEFINE r == Item("reasoning", <<>>, <<id>>)  c == Item("function_call", <<>>, <<id>>)
<1>1. r \in ItemType /\ c \in ItemType
  <2>1. <<>> \in Seq(ContentBlock)
    BY EmptyIsSeq
  <2>2. <<id>> \in Seq(Id)
    OBVIOUS
  <2> QED BY ONLY <2>1, <2>2 DEF Item, ItemType, Roles
<1>2. r.parts = <<>> /\ c.parts = <<>> /\ r.role = "reasoning" /\ c.role = "function_call" /\ c.calls = <<id>>
  BY DEF Item
<1>3. id \in Cached => Call(id) = <<r, c>>
  <2> HIDE DEF r, c
  <2>1. <<r>> \o <<c>> = <<r, c>>
    BY <1>1, OneAndOne
  <2> QED BY <2>1 DEF Call, r, c
<1>4. id \notin Cached => Call(id) = <<c>>
  <2>1. <<>> \o <<c>> = <<c>>
    OBVIOUS
  <2> QED BY <2>1 DEF Call
<1>5. Call(id) \in Seq(ItemType)
  <2> HIDE DEF r, c
  <2>1. <<r, c>> \in Seq(ItemType) /\ <<c>> \in Seq(ItemType)
    BY <1>1
  <2> QED BY <1>3, <1>4, <2>1
<1>6. \A i \in DOMAIN Call(id) : Call(id)[i].parts = <<>>
  <2> HIDE DEF r, c
  <2> QED BY <1>2, <1>3, <1>4
<1>7. WordsOf(Call(id)) = <<>>
  <2>1. Words(<<>>) = <<>>
    BY OfKindsEmpty DEF Words
  <2> QED BY <1>5, <1>6, <2>1, Wordless
<1>8. c.calls[1] = id /\ r = Item("reasoning", <<>>, c.calls) /\ r.role # "function_call"
  BY <1>2
<1> HIDE DEF r, c
<1>9. Reasoned(Call(id))
  <2>1. Reasoned(<<r, c>>)
    BY <1>8 DEF Reasoned
  <2>2. id \notin Cached => Reasoned(<<c>>)
    BY <1>8 DEF Reasoned
  <2> QED BY <1>3, <1>4, <2>1, <2>2
<1>10. HasCall(Call(id), id)
  <2>1. 2 \in DOMAIN <<r, c>> /\ <<r, c>>[2] = c /\ 1 \in DOMAIN <<c>> /\ <<c>>[1] = c
    OBVIOUS
  <2> QED BY <1>2, <1>3, <1>4, <2>1 DEF HasCall
<1> QED BY <1>5, <1>7, <1>9, <1>10

CallParts(ids) == [i \in DOMAIN ids |-> Call(ids[i])]

\* The items of calls are items.
LEMMA CallPartsTyped ==
    ASSUME NEW ids \in Seq(Id)
    PROVE  CallParts(ids) \in Seq(Seq(ItemType)) /\ Len(CallParts(ids)) = Len(ids)
<1>1. \A i \in DOMAIN ids : ids[i] \in Id
  OBVIOUS
<1>2. \A i \in DOMAIN ids : Call(ids[i]) \in Seq(ItemType)
  BY <1>1, CallItems
<1>3. DOMAIN ids = 1..Len(ids) /\ Len(ids) \in Nat
  OBVIOUS
<1> QED BY <1>2, <1>3 DEF CallParts

\* One more call has its items behind the others'.
LEMMA CallsAppend ==
    ASSUME NEW ids \in Seq(Id), NEW id \in Id
    PROVE  CallsOf(Append(ids, id)) = CallsOf(ids) \o Call(id)
<1>1. Call(id) \in Seq(ItemType)
  BY CallItems
<1>2. Append(ids, id) \in Seq(Id) /\ Len(Append(ids, id)) = Len(ids) + 1
  OBVIOUS
<1>3. /\ CallParts(Append(ids, id)) \in Seq(Seq(ItemType)) /\ Len(CallParts(Append(ids, id))) = Len(ids) + 1
      /\ CallParts(ids) \in Seq(Seq(ItemType)) /\ Len(CallParts(ids)) = Len(ids)
  BY <1>2, CallPartsTyped
<1>4. /\ \A i \in 1..Len(ids) : CallParts(Append(ids, id))[i] = CallParts(ids)[i]
      /\ CallParts(Append(ids, id))[Len(ids) + 1] = Call(id)
  BY DEF CallParts
<1>5. CallParts(Append(ids, id)) = Append(CallParts(ids), Call(id))
  BY ONLY <1>1, <1>3, <1>4, AppendIs
<1>6. FlattenSeq(Append(CallParts(ids), Call(id))) = FlattenSeq(CallParts(ids)) \o Call(id)
  BY ONLY <1>1, <1>3, FlattenOneMore
<1> QED BY <1>5, <1>6 DEF CallsOf, CallParts

\* The items of calls are wordless, reasoned, and leave no call out.
LEMMA CallsOfSound ==
    ASSUME NEW ids \in Seq(Id)
    PROVE  /\ CallsOf(ids) \in Seq(ItemType) /\ WordsOf(CallsOf(ids)) = <<>> /\ Reasoned(CallsOf(ids))
           /\ \A i \in DOMAIN ids : HasCall(CallsOf(ids), ids[i])
<1> DEFINE Sound(u) == /\ CallsOf(u) \in Seq(ItemType) /\ WordsOf(CallsOf(u)) = <<>> /\ Reasoned(CallsOf(u))
                       /\ \A i \in DOMAIN u : HasCall(CallsOf(u), u[i])
           P == {u \in Seq(Id) : Sound(u)}
<1>1. P \in SUBSET Seq(Id)
  OBVIOUS
<1>2. <<>> \in P
  <2>1. CallsOf(<<>>) = <<>>
    BY FlattenEmpty DEF CallsOf
  <2>2. Reasoned(<<>>) /\ <<>> \in Seq(ItemType)
    BY EmptyIsSeq DEF Reasoned
  <2>3. Sound(<<>>)
    <3>1. \A i \in DOMAIN <<>> : FALSE
      OBVIOUS
    <3> QED BY ONLY <2>1, <2>2, <3>1, WordsOfEmpty
  <2> HIDE DEF Sound
  <2> QED BY <2>3, EmptyIsSeq
<1>3. ASSUME NEW u \in P, NEW id \in Id PROVE Append(u, id) \in P
  <2> DEFINE v == Append(u, id)  a == CallsOf(u)  c == Call(id)
  <2>1. u \in Seq(Id) /\ v \in Seq(Id) /\ Sound(u)
    OBVIOUS
  <2>2. CallsOf(v) = a \o c
    BY <2>1, CallsAppend
  <2>3. c \in Seq(ItemType) /\ WordsOf(c) = <<>> /\ Reasoned(c) /\ HasCall(c, id)
    BY CallItems
  <2>4. a \in Seq(ItemType) /\ WordsOf(a) = <<>> /\ Reasoned(a) /\ \A i \in DOMAIN u : HasCall(a, u[i])
    BY <2>1
  <2>5. \A i \in DOMAIN v : (i \in DOMAIN u /\ v[i] = u[i]) \/ v[i] = id
    BY <2>1
  <2> HIDE DEF a, c, v, Sound, P
  <2>6. a \o c \in Seq(ItemType) /\ Reasoned(a \o c)
    BY <2>3, <2>4, ReasonedConcat
  <2>7. WordsOf(a \o c) = <<>>
    <3>1. WordsOf(a \o c) = WordsOf(a) \o WordsOf(c)
      BY <2>3, <2>4, WordsOfConcat
    <3> QED BY <2>3, <2>4, <3>1
  <2>8. \A i \in DOMAIN v : HasCall(a \o c, v[i])
    BY <2>3, <2>4, <2>5, CallsStay
  <2>9. Sound(v)
    BY <2>2, <2>6, <2>7, <2>8 DEF Sound
  <2> QED BY <2>1, <2>9 DEF P, v
<1> HIDE DEF P
<1>4. ids \in P
  BY <1>1, <1>2, <1>3, OneByOne
<1> QED BY <1>4 DEF P

\* An item holds a block that is of no system message.
Plain(item, B) == ~(ToSet(item.parts) \subseteq B)

\* User turns next to each other both do.
PlainPairs(s, B) ==
    \A i \in 1..(Len(s) - 1) : s[i].role = "user" /\ s[i + 1].role = "user" =>
        Plain(s[i], B) /\ Plain(s[i + 1], B)

\* No user turn ends the items.
EndsOtherwise(s) == s = <<>> \/ s[Len(s)].role # "user"
\* A user turn that does is plain.
EndsPlain(s, B) == s # <<>> /\ s[Len(s)].role = "user" => Plain(s[Len(s)], B)

\* One more item, if it is no user turn behind another that holds system text alone.
LEMMA PairsAppend ==
    ASSUME NEW B, NEW s \in Seq(ItemType), NEW it \in ItemType,
           it.role = "user" => EndsOtherwise(s) \/ (EndsPlain(s, B) /\ Plain(it, B))
    PROVE  /\ PlainPairs(s, B) => PlainPairs(Append(s, it), B)
           /\ it.role = "user" /\ Plain(it, B) => EndsPlain(Append(s, it), B)
           /\ it.role # "user" => EndsOtherwise(Append(s, it)) /\ EndsPlain(Append(s, it), B)
<1> DEFINE u == Append(s, it)  n == Len(s)
<1>1. n \in Nat /\ Len(u) = n + 1 /\ u[n + 1] = it /\ \A i \in 1..n : u[i] = s[i]
  OBVIOUS
<1>2. n # 0 => s # <<>>
  OBVIOUS
<1> HIDE DEF u
<1>3. ASSUME PlainPairs(s, B) PROVE PlainPairs(u, B)
  <2> SUFFICES ASSUME NEW i \in 1..n, u[i].role = "user", u[i + 1].role = "user"
               PROVE  Plain(u[i], B) /\ Plain(u[i + 1], B)
    BY <1>1 DEF PlainPairs
  <2> HIDE DEF n
  <2>1. u[i] = s[i]
    BY <1>1
  <2>2. CASE i = n
    <3>1. u[i + 1] = it /\ it.role = "user" /\ s # <<>> /\ s[Len(s)].role = "user"
      BY <1>1, <1>2, <2>1, <2>2 DEF n
    <3>2. Plain(s[Len(s)], B) /\ Plain(it, B)
      BY <3>1 DEF EndsOtherwise, EndsPlain
    <3> QED BY <2>1, <2>2, <3>1, <3>2 DEF n
  <2>3. CASE i # n
    <3>1. i \in 1..(Len(s) - 1) /\ u[i + 1] = s[i + 1]
      BY <1>1, <2>3 DEF n
    <3> QED BY <1>3, <2>1, <3>1 DEF PlainPairs
  <2> QED BY <2>2, <2>3
<1>4. u[Len(u)] = it
  BY <1>1
<1> QED BY <1>3, <1>4 DEF EndsPlain, EndsOtherwise, u

\* Items of other roles open no user turn.
LEMMA PairsOthers ==
    ASSUME NEW B, NEW s \in Seq(ItemType), NEW t \in Seq(ItemType),
           \A i \in DOMAIN t : t[i].role # "user"
    PROVE  (PlainPairs(s, B) => PlainPairs(s \o t, B)) /\ (EndsOtherwise(s) => EndsOtherwise(s \o t))
<1> DEFINE u == s \o t  n == Len(s)  m == Len(t)
<1>1. /\ n \in Nat /\ m \in Nat /\ Len(u) = n + m /\ u \in Seq(ItemType)
      /\ DOMAIN s = 1..n /\ DOMAIN t = 1..m /\ DOMAIN u = 1..(n + m)
  OBVIOUS
<1>2. /\ \A i \in DOMAIN s : i \in DOMAIN u /\ u[i] = s[i]
      /\ \A i \in DOMAIN t : n + i \in DOMAIN u /\ u[n + i] = t[i]
      /\ \A k \in DOMAIN u : k \in DOMAIN s \/ \E i \in DOMAIN t : k = n + i
  BY ConcatPlaces
<1>3. m = 0 => u = s
  <2>1. m = 0 => t = <<>>
    OBVIOUS
  <2>2. s \o <<>> = s
    OBVIOUS
  <2> QED BY <2>1, <2>2
<1>4. n # 0 <=> s # <<>>
  OBVIOUS
<1>5. s[n] = s[Len(s)]
  OBVIOUS
<1> HIDE DEF u, n, m
<1>6. \A k \in DOMAIN u : k \notin DOMAIN s => u[k].role # "user"
  BY <1>2
<1>7. ASSUME PlainPairs(s, B) PROVE PlainPairs(u, B)
  <2> SUFFICES ASSUME NEW i \in 1..(Len(u) - 1), u[i].role = "user", u[i + 1].role = "user"
               PROVE  Plain(u[i], B) /\ Plain(u[i + 1], B)
    BY DEF PlainPairs
  <2>1. i \in DOMAIN u /\ i + 1 \in DOMAIN u
    BY <1>1
  <2>2. i \in DOMAIN s /\ i + 1 \in DOMAIN s
    BY <1>6, <2>1
  <2>3. i \in 1..(Len(s) - 1)
    BY <1>1, <2>2 DEF n
  <2> QED BY <1>2, <1>7, <2>2, <2>3 DEF PlainPairs
<1>8. ASSUME EndsOtherwise(s) PROVE EndsOtherwise(u)
  <2>1. CASE m = 0
    BY <1>3, <1>8, <2>1
  <2>2. CASE m # 0
    <3>1. Len(u) \in DOMAIN u /\ Len(u) \notin DOMAIN s
      BY <1>1, <2>2
    <3> QED BY <1>6, <3>1 DEF EndsOtherwise
  <2> QED BY <2>1, <2>2
<1> QED BY <1>7, <1>8 DEF u

\* Tool messages stand behind the assistant message whose calls they answer.
ToolsBehind(s) ==
    \A i \in DOMAIN s : s[i].role = "tool" =>
        \E j \in 1..(i - 1) : /\ s[j].role = "assistant" /\ s[i].calls[1] \in ToSet(s[j].calls)
                              /\ \A k \in j + 1..i : s[k].role = "tool"

\* Items whose tool messages stand behind their own calls may follow any others.
LEMMA ToolsBehindLonger ==
    ASSUME NEW s \in Seq(ItemType), NEW t \in Seq(ItemType), ToolsBehind(s),
           \A i \in DOMAIN t : t[i].role = "tool" =>
              \E j \in 1..(i - 1) : /\ t[j].role = "assistant" /\ t[i].calls[1] \in ToSet(t[j].calls)
                                    /\ \A k \in j + 1..i : t[k].role = "tool"
    PROVE  ToolsBehind(s \o t)
<1> DEFINE u == s \o t  n == Len(s)  m == Len(t)
<1>1. /\ n \in Nat /\ m \in Nat /\ DOMAIN s = 1..n /\ DOMAIN t = 1..m
  OBVIOUS
<1>2. /\ \A i \in DOMAIN s : i \in DOMAIN u /\ u[i] = s[i]
      /\ \A i \in DOMAIN t : n + i \in DOMAIN u /\ u[n + i] = t[i]
      /\ \A k \in DOMAIN u : k \in DOMAIN s \/ \E i \in DOMAIN t : k = n + i
  BY ConcatPlaces
<1> HIDE DEF u, n, m
<1> SUFFICES ASSUME NEW i \in DOMAIN u, u[i].role = "tool"
             PROVE  \E j \in 1..(i - 1) : /\ u[j].role = "assistant" /\ u[i].calls[1] \in ToSet(u[j].calls)
                                          /\ \A k \in j + 1..i : u[k].role = "tool"
  BY DEF ToolsBehind, u
<1>3. CASE i \in DOMAIN s
  <2>1. PICK j \in 1..(i - 1) : /\ s[j].role = "assistant" /\ s[i].calls[1] \in ToSet(s[j].calls)
                                /\ \A k \in j + 1..i : s[k].role = "tool"
    BY <1>2, <1>3 DEF ToolsBehind
  <2>2. j \in DOMAIN s /\ \A k \in j + 1..i : k \in DOMAIN s
    BY <1>1, <1>3
  <2> QED BY <1>2, <1>3, <2>1, <2>2
<1>4. CASE i \notin DOMAIN s
  <2>1. PICK p \in DOMAIN t : i = n + p
    BY <1>2, <1>4
  <2>2. t[p].role = "tool" /\ u[i] = t[p]
    BY <1>2, <2>1
  <2>3. PICK q \in 1..(p - 1) : /\ t[q].role = "assistant" /\ t[p].calls[1] \in ToSet(t[q].calls)
                                /\ \A k \in q + 1..p : t[k].role = "tool"
    BY <2>2
  <2>4. q \in DOMAIN t /\ n + q \in 1..(i - 1) /\ u[n + q] = t[q]
    <3>1. p \in 1..m /\ p \in Nat /\ q \in 1..(p - 1)
      BY <1>1
    <3>2. q \in 1..m /\ n + q \in 1..(n + p - 1)
      BY ONLY <1>1, <3>1
    <3>3. q \in DOMAIN t /\ n + q \in 1..(i - 1)
      BY ONLY <1>1, <2>1, <3>2
    <3> QED BY <1>2, <3>3
  <2>5. \A k \in (n + q) + 1..i : u[k].role = "tool"
    <3> SUFFICES ASSUME NEW k \in (n + q) + 1..i PROVE u[k].role = "tool"
      OBVIOUS
    <3>1. k - n \in q + 1..p /\ k - n \in DOMAIN t /\ k = n + (k - n)
      BY <1>1, <2>1, <2>4
    <3>2. u[n + (k - n)] = t[k - n]
      BY <1>2, <3>1
    <3> QED BY <2>3, <3>1, <3>2
  <2> QED BY <2>2, <2>3, <2>4, <2>5
<1> QED BY <1>3, <1>4

\* An item of another role disturbs no tool message.
LEMMA ToolsBehindAppend ==
    ASSUME NEW s \in Seq(ItemType), NEW it \in ItemType, ToolsBehind(s), it.role # "tool"
    PROVE  ToolsBehind(Append(s, it))
<1>1. Append(s, it) = s \o <<it>> /\ <<it>> \in Seq(ItemType) /\ \A i \in DOMAIN <<it>> : <<it>>[i] = it
  OBVIOUS
<1> QED BY <1>1, ToolsBehindLonger

\* t goes on where s ends, but for the parts of its items.
GoesOn(s, t) ==
    \A i \in DOMAIN s : i \in DOMAIN t /\ t[i].role = s[i].role /\ t[i].calls = s[i].calls

\* Items behind t go on where t does.
LEMMA ConcatGoesOn ==
    ASSUME NEW r \in Seq(ItemType), NEW s \in Seq(ItemType), NEW t \in Seq(ItemType), GoesOn(r, s)
    PROVE  GoesOn(r, s \o t)
<1>1. \A i \in DOMAIN s : i \in DOMAIN (s \o t) /\ (s \o t)[i] = s[i]
  BY ConcatPlaces
<1> QED BY <1>1 DEF GoesOn

\* A tool message has the result of a call.
HasResult(s, id) == \E i \in DOMAIN s : s[i].role = "tool" /\ s[i].calls = <<id>>

\* Items go on where they end.
LEMMA SelfGoesOn == ASSUME NEW s PROVE GoesOn(s, s)
BY DEF GoesOn

\* An assistant message and the results of its calls, behind items that are sound.
LEMMA ToolsBehindRun ==
    ASSUME NEW s \in Seq(ItemType), NEW a \in ItemType, NEW t \in Seq(ItemType),
           ToolsBehind(s), a.role = "assistant",
           \A i \in DOMAIN t : t[i].role = "tool" /\ t[i].calls[1] \in ToSet(a.calls)
    PROVE  ToolsBehind((s \o <<a>>) \o t)
<1> DEFINE one == <<a>>  u == one \o t
<1>1. one \in Seq(ItemType) /\ Len(one) = 1 /\ one[1] = a /\ DOMAIN one = {1}
  OBVIOUS
<1> HIDE DEF one
<1>2. /\ u \in Seq(ItemType)
      /\ \A i \in DOMAIN one : i \in DOMAIN u /\ u[i] = one[i]
      /\ \A i \in DOMAIN t : Len(one) + i \in DOMAIN u /\ u[Len(one) + i] = t[i]
      /\ \A k \in DOMAIN u : k \in DOMAIN one \/ \E i \in DOMAIN t : k = Len(one) + i
  <2>1. one \in Seq(ItemType) /\ t \in Seq(ItemType)
    BY <1>1
  <2> HIDE DEF one
  <2> QED BY ONLY <2>1, ConcatPlaces DEF u
<1> HIDE DEF u
<1>3. u[1] = a /\ \A k \in DOMAIN u : k = 1 \/ (u[k].role = "tool" /\ u[k].calls[1] \in ToSet(a.calls))
  <2>1. u[1] = a /\ \A k \in DOMAIN u : k = 1 \/ \E i \in DOMAIN t : k = Len(one) + i
    BY ONLY <1>1, <1>2
  <2>2. \A i \in DOMAIN t : u[Len(one) + i] = t[i] /\ t[i].role = "tool" /\ t[i].calls[1] \in ToSet(a.calls)
    BY <1>2
  <2> QED BY ONLY <2>1, <2>2
<1>4. DOMAIN u = 1..Len(u) /\ Len(u) \in Nat
  BY ONLY <1>2
<1>5. \A i \in DOMAIN u : u[i].role = "tool" =>
          \E j \in 1..(i - 1) : /\ u[j].role = "assistant" /\ u[i].calls[1] \in ToSet(u[j].calls)
                                /\ \A k \in j + 1..i : u[k].role = "tool"
  <2> SUFFICES ASSUME NEW i \in DOMAIN u, u[i].role = "tool"
               PROVE  /\ 1 \in 1..(i - 1) /\ u[1].role = "assistant" /\ u[i].calls[1] \in ToSet(u[1].calls)
                      /\ \A k \in 1 + 1..i : u[k].role = "tool"
    OBVIOUS
  <2>1. i # 1 /\ i \in Nat /\ i >= 1 /\ \A k \in 1 + 1..i : k \in DOMAIN u /\ k # 1
    BY <1>3, <1>4
  <2>2. 1 \in 1..(i - 1)
    BY ONLY <2>1
  <2> QED BY <1>3, <2>1, <2>2
<1>6. ToolsBehind(s \o u)
  BY <1>2, <1>5, ToolsBehindLonger
<1>7. s \o (one \o t) = (s \o one) \o t
  BY ONLY <1>1, s \in Seq(ItemType), t \in Seq(ItemType), ConcatThree
<1> QED BY <1>6, <1>7 DEF u, one

\* What ChatAssistant appends: perhaps a user turn of its own, the assistant message,
\* the results of its calls, and perhaps a user turn.
RunOf(s, f, a, t, r, B) ==
    /\ ToolsBehind(s) /\ a.role = "assistant"
    /\ f = <<>> \/ (EndsOtherwise(s) /\ \E p \in ItemType : p.role = "user" /\ f = <<p>>)
    /\ \A i \in DOMAIN t : t[i].role = "tool" /\ t[i].calls[1] \in ToSet(a.calls)
    /\ r = <<>> \/ \E p \in ItemType : p.role = "user" /\ Plain(p, B) /\ r = <<p>>

\* What such items keep of those before.
Continued(s, u, f, a, t, r, B) ==
    /\ u \in Seq(ItemType)
    /\ WordsOf(u) = ((WordsOf(s) \o WordsOf(f)) \o Words(a.parts)) \o (WordsOf(t) \o WordsOf(r))
    /\ (PlainPairs(s, B) => PlainPairs(u, B)) /\ EndsPlain(u, B)
    /\ ToolsBehind(u) /\ GoesOn(s, u)
    /\ \A i \in DOMAIN t : \E k \in DOMAIN u : u[k] = t[i]

\* Such items keep what the items before them have.
LEMMA AssistantItems ==
    ASSUME NEW B, NEW s \in Seq(ItemType), NEW f \in Seq(ItemType), NEW a \in ItemType,
           NEW t \in Seq(ItemType), NEW r \in Seq(ItemType), RunOf(s, f, a, t, r, B)
    PROVE  Continued(s, ((s \o f) \o <<a>>) \o (t \o r), f, a, t, r, B)
<1>0. /\ ToolsBehind(s) /\ a.role = "assistant"
      /\ f = <<>> \/ (EndsOtherwise(s) /\ \E p \in ItemType : p.role = "user" /\ f = <<p>>)
      /\ \A i \in DOMAIN t : t[i].role = "tool" /\ t[i].calls[1] \in ToSet(a.calls)
      /\ r = <<>> \/ \E p \in ItemType : p.role = "user" /\ Plain(p, B) /\ r = <<p>>
  BY DEF RunOf
<1> USE <1>0
<1> DEFINE u == ((s \o f) \o <<a>>) \o (t \o r)
<1> HIDE DEF u
<1> DEFINE s1 == s \o f  s2 == s1 \o <<a>>  s3 == s2 \o t
<1>1. s1 \in Seq(ItemType) /\ (PlainPairs(s, B) => PlainPairs(s1, B)) /\ ToolsBehind(s1) /\ GoesOn(s, s1)
  <2>1. CASE f = <<>>
    <3>1. s1 = s
      BY <2>1
    <3> QED BY <3>1, SelfGoesOn
  <2>2. CASE EndsOtherwise(s) /\ \E p \in ItemType : p.role = "user" /\ f = <<p>>
    <3>1. PICK p \in ItemType : p.role = "user" /\ f = <<p>>
      BY <2>2
    <3>2. s1 = Append(s, p)
      BY <3>1
    <3>3. PlainPairs(s, B) => PlainPairs(Append(s, p), B)
      BY ONLY <2>2, <3>1, s \in Seq(ItemType), p \in ItemType, PairsAppend
    <3>4. ToolsBehind(Append(s, p))
      BY <3>1, ToolsBehindAppend
    <3>5. GoesOn(s, s1)
      BY SelfGoesOn, ConcatGoesOn
    <3>6. s1 \in Seq(ItemType)
      OBVIOUS
    <3> QED BY ONLY <3>2, <3>3, <3>4, <3>5, <3>6
  <2> QED BY <2>1, <2>2
<1> HIDE DEF s1
<1>2. /\ s2 \in Seq(ItemType) /\ (PlainPairs(s1, B) => PlainPairs(s2, B)) /\ EndsOtherwise(s2)
      /\ WordsOf(s2) = WordsOf(s1) \o Words(a.parts)
  <2>1. s2 = Append(s1, a)
    BY <1>1
  <2>2. (PlainPairs(s1, B) => PlainPairs(Append(s1, a), B)) /\ EndsOtherwise(Append(s1, a))
    BY <1>1, PairsAppend
  <2>3. WordsOf(Append(s1, a)) = WordsOf(s1) \o Words(a.parts)
    BY <1>1, WordsOfAppend
  <2>4. Append(s1, a) \in Seq(ItemType)
    BY <1>1
  <2> QED BY <2>1, <2>2, <2>3, <2>4
<1>3. ToolsBehind(s3)
  BY <1>1, ToolsBehindRun
<1> HIDE DEF s2
<1>4. s3 \in Seq(ItemType) /\ (PlainPairs(s2, B) => PlainPairs(s3, B)) /\ EndsOtherwise(s3)
  <2>1. \A i \in DOMAIN t : t[i].role # "user"
    OBVIOUS
  <2>2. (PlainPairs(s2, B) => PlainPairs(s3, B)) /\ EndsOtherwise(s3)
    BY <1>2, <2>1, PairsOthers
  <2>3. s3 \in Seq(ItemType)
    BY <1>2
  <2> QED BY <2>2, <2>3
<1>5. u = s3 \o r
  <2>1. s2 \o (t \o r) = (s2 \o t) \o r
    BY ONLY <1>2, t \in Seq(ItemType), r \in Seq(ItemType), ConcatThree
  <2>2. u = s2 \o (t \o r)
    BY DEF u, s2, s1
  <2> QED BY <2>1, <2>2
<1>6. GoesOn(s, s3)
  <2>1. <<a>> \in Seq(ItemType)
    OBVIOUS
  <2>2. GoesOn(s, s1 \o <<a>>)
    BY ONLY <1>1, <2>1, s \in Seq(ItemType), ConcatGoesOn
  <2>3. GoesOn(s, s2)
    BY <2>2 DEF s2
  <2> QED BY ONLY <1>2, <2>3, s \in Seq(ItemType), t \in Seq(ItemType), ConcatGoesOn
<1>7. \A i \in DOMAIN t : \E k \in DOMAIN s3 : s3[k] = t[i]
  <2>1. \A i \in DOMAIN t : Len(s2) + i \in DOMAIN (s2 \o t) /\ (s2 \o t)[Len(s2) + i] = t[i]
    BY ONLY <1>2, t \in Seq(ItemType), ConcatPlaces
  <2> QED BY <2>1
<1>8. WordsOf(u) = ((WordsOf(s) \o WordsOf(f)) \o Words(a.parts)) \o (WordsOf(t) \o WordsOf(r))
  <2>1. WordsOf(s1) = WordsOf(s) \o WordsOf(f)
    BY WordsOfConcat DEF s1
  <2>2. t \o r \in Seq(ItemType) /\ WordsOf(t \o r) = WordsOf(t) \o WordsOf(r)
    BY WordsOfConcat
  <2>3. WordsOf(s2 \o (t \o r)) = WordsOf(s2) \o WordsOf(t \o r)
    BY ONLY <1>2, <2>2, WordsOfConcat
  <2>4. u = s2 \o (t \o r)
    BY DEF u, s2, s1
  <2> QED BY ONLY <1>2, <2>1, <2>2, <2>3, <2>4
<1> HIDE DEF s3
<1>9. /\ u \in Seq(ItemType) /\ (PlainPairs(s3, B) => PlainPairs(u, B)) /\ EndsPlain(u, B) /\ ToolsBehind(u) /\ GoesOn(s, u)
      /\ \A k \in DOMAIN s3 : k \in DOMAIN u /\ u[k] = s3[k]
  <2>1. CASE r = <<>>
    <3>1. u = s3
      BY <1>4, <1>5, <2>1
    <3> QED BY <1>3, <1>4, <1>6, <3>1 DEF EndsPlain, EndsOtherwise
  <2>2. CASE \E p \in ItemType : p.role = "user" /\ Plain(p, B) /\ r = <<p>>
    <3>1. PICK p \in ItemType : p.role = "user" /\ Plain(p, B) /\ r = <<p>>
      BY <2>2
    <3>2. u = Append(s3, p)
      <4>1. s3 \o <<p>> = Append(s3, p)
        BY ONLY <1>4, p \in ItemType
      <4> QED BY ONLY <1>5, <3>1, <4>1
    <3>3. (PlainPairs(s3, B) => PlainPairs(Append(s3, p), B)) /\ EndsPlain(Append(s3, p), B)
      BY <1>4, <3>1, PairsAppend
    <3>4. ToolsBehind(Append(s3, p))
      BY <1>3, <1>4, <3>1, ToolsBehindAppend
    <3>5. GoesOn(s, s3 \o r)
      BY ONLY <1>4, <1>6, s \in Seq(ItemType), r \in Seq(ItemType), ConcatGoesOn
    <3>6. Append(s3, p) \in Seq(ItemType) /\ \A k \in DOMAIN s3 : k \in DOMAIN Append(s3, p) /\ Append(s3, p)[k] = s3[k]
      BY <1>4
    <3> QED BY <1>5, <3>2, <3>3, <3>4, <3>5, <3>6
  <2> QED BY <2>1, <2>2
<1>10. \A i \in DOMAIN t : \E k \in DOMAIN u : u[k] = t[i]
  <2> SUFFICES ASSUME NEW i \in DOMAIN t PROVE \E k \in DOMAIN u : u[k] = t[i]
    OBVIOUS
  <2>1. PICK k \in DOMAIN s3 : s3[k] = t[i]
    BY <1>7
  <2> QED BY <1>9, <2>1
<1> QED BY <1>1, <1>2, <1>4, <1>8, <1>9, <1>10 DEF u, Continued

\* The messages that are converted.
Over == IF turn <= Len(messages) + 1 THEN turn - 1 ELSE Len(messages)

\* The blocks of system messages.
SystemBlocks ==
    UNION {ToSet(messages[m].blocks) : m \in {m \in DOMAIN messages : messages[m].role = "system"}}

\* The types.
ConverterTypeOK ==
    /\ target \in {"chat", "responses"} /\ messages \in Conversations
    /\ turn \in 1..(Len(messages) + 2)
    /\ items \in Seq(ItemType) /\ pending \in Seq(ContentBlock)

\* Nothing that was said is lost, doubled or moved before what was said before it.
WordsKept == WordsOf(items) \o Words(pending) = SaidIn(messages, Over)

\* Text waits only where no user turn ends.
TextWaits == pending # <<>> => EndsOtherwise(items) /\ turn <= Len(messages) + 1

\* No user turn stands by another that holds something only system messages say.
TurnsPlain ==
    Stray = {} => /\ PlainPairs(items, SystemBlocks)
                  /\ turn <= Len(messages) + 1 => EndsPlain(items, SystemBlocks)

\* The results right behind their calls have been taken along with them.
ResultsTaken ==
    /\ \A m \in 1..(Len(messages) - 1) :
          m + 1 <= Over /\ messages[m].role = "assistant" /\ messages[m + 1].role = "user" =>
              \A r \in ToSet(Results(messages[m + 1])) : HasResult(items, r.id)
    /\ turn \in 2..Len(messages) /\ messages[turn - 1].role = "assistant" /\ messages[turn].role = "user"
          => Results(messages[turn]) = <<>>

\* The invariant of a chat request.
ChatInv == TextWaits /\ TurnsPlain /\ ResultsTaken /\ ToolsBehind(items)

\* That of a Responses request.
ResponsesInv ==
    /\ pending = <<>> /\ Reasoned(items)
    /\ \A m \in 1..Over : messages[m].role = "assistant" =>
          \A u \in ToSet(Of(messages[m], {"use"})) : HasCall(items, u.id)
    /\ \A m \in 1..Over : messages[m].role = "user" =>
          \A r \in ToSet(Results(messages[m])) : CallAnswered(items, r.id)

\* The inductive invariant.
ConverterInv ==
    /\ ConverterTypeOK /\ WordsKept
    /\ target = "chat" => ChatInv
    /\ target = "responses" => ResponsesInv

\* A conversation is a sequence of messages.
LEMMA ConversationTyped ==
    ASSUME NEW c \in Conversations
    PROVE  c \in Seq(Message) /\ Len(c) \in Nat /\ DOMAIN c = 1..Len(c) /\ \A m \in 1..Len(c) : c[m] \in Message
<1>1. c \in Seq(Message)
  BY ConversationsAssumption
<1> QED BY <1>1

\* What a user message leaves is of no system message, whatever text waited for it.
LEMMA UserBlocksPlain ==
    ASSUME messages \in Conversations, NEW m \in DOMAIN messages, messages[m].role = "user",
           Content(messages[m]) # <<>>, NEW p \in Seq(ContentBlock)
    PROVE  Plain(Item("user", p \o Content(messages[m]), <<>>), SystemBlocks)
<1> DEFINE b == messages[m].blocks  c == Content(messages[m])  q == p \o c
<1>1. messages[m] \in Message
  BY ConversationTyped
<1>2. b \in Seq(ContentBlock) /\ c \in Seq(ContentBlock)
  BY <1>1, OfTyped DEF Message, Content
<1>3. 1 \in DOMAIN c
  BY <1>2
<1>4. c[1] \in ToSet(b)
  <2>1. c = OfKinds(b, {"text", "blank", "image"})
    BY DEF Content, Of
  <2>2. PICK k \in DOMAIN b : c[1] = b[k]
    BY <1>2, <1>3, <2>1, OfKindsElements
  <2> QED BY <2>2 DEF ToSet
<1>5. c[1] \notin SystemBlocks
  <2>1. \A n \in DOMAIN messages : messages[n].role = "system" =>
            ToSet(messages[m].blocks) \cap ToSet(messages[n].blocks) = {}
    BY ConversationsAssumption
  <2> HIDE DEF c
  <2> QED BY <1>4, <2>1 DEF SystemBlocks
<1>6. c[1] \in ToSet(q)
  <2> HIDE DEF c
  <2>1. Len(p) + 1 \in DOMAIN q /\ q[Len(p) + 1] = c[1]
    BY <1>2, <1>3
  <2> QED BY <2>1 DEF ToSet
<1>7. Item("user", q, <<>>).parts = q
  BY DEF Item
<1> HIDE DEF c, q
<1> QED BY <1>5, <1>6, <1>7 DEF Plain, c, q

\* A result has its call in an assistant message before it, and in one right before it if
\* that is an assistant message.
LEMMA CallOfResult ==
    ASSUME NEW c \in Conversations, NEW m \in DOMAIN c, c[m].role = "user", NEW r \in ToSet(Results(c[m]))
    PROVE  /\ \E k \in 1..(m - 1) : c[k].role = "assistant" /\ \E u \in ToSet(Of(c[k], {"use"})) : u.id = r.id
           /\ m > 1 /\ c[m - 1].role = "assistant" => \E u \in ToSet(Of(c[m - 1], {"use"})) : u.id = r.id
<1>1. PICK k \in 1..(m - 1) : /\ c[k].role = "assistant" /\ \A l \in k + 1..m - 1 : c[l].role # "assistant"
                              /\ \E u \in ToSet(Of(c[k], {"use"})) : u.id = r.id
  BY ConversationsAssumption
<1>2. m \in Nat
  BY ConversationTyped
<1>3. ASSUME m > 1, c[m - 1].role = "assistant" PROVE k = m - 1
  <2>1. k # m - 1 => m - 1 \in k + 1..m - 1
    BY <1>2
  <2> QED BY <1>1, <1>3, <2>1
<1> QED BY <1>1, <1>3

\* The ids of blocks.
LEMMA IdsTyped ==
    ASSUME NEW b \in Seq(ContentBlock)
    PROVE  Ids(b) \in Seq(Id) /\ \A x \in ToSet(b) : \E i \in DOMAIN Ids(b) : Ids(b)[i] = x.id
<1>1. \A i \in DOMAIN b : b[i].id \in Id
  <2>1. \A i \in DOMAIN b : b[i] \in ContentBlock
    OBVIOUS
  <2> QED BY <2>1 DEF ContentBlock, Id
<1>2. DOMAIN b = 1..Len(b) /\ Len(b) \in Nat
  OBVIOUS
<1>3. Ids(b) \in Seq(Id)
  BY <1>1, <1>2 DEF Ids
<1> QED BY <1>3 DEF Ids, ToSet

\* An item and its fields.
LEMMA ItemTyped ==
    ASSUME NEW role \in Roles, NEW p \in Seq(ContentBlock), NEW q \in Seq(Id)
    PROVE  /\ Item(role, p, q) \in ItemType
           /\ Item(role, p, q).role = role /\ Item(role, p, q).parts = p /\ Item(role, p, q).calls = q
BY DEF Item, ItemType

\* No blocks have no words.
LEMMA NoWords == Words(<<>>) = <<>>
BY OfKindsEmpty DEF Words

\* Nothing put before or behind a sequence leaves it as it is.
LEMMA NothingMore == ASSUME NEW S, NEW s \in Seq(S) PROVE s \o <<>> = s /\ <<>> \o s = s
OBVIOUS

\* One item has its own words.
LEMMA WordsOfOne ==
    ASSUME NEW it \in ItemType
    PROVE  <<it>> \in Seq(ItemType) /\ WordsOf(<<it>>) = Words(it.parts)
<1>1. <<it>> = Append(<<>>, it) /\ <<it>> \in Seq(ItemType)
  OBVIOUS
<1>2. WordsOf(Append(<<>>, it)) = WordsOf(<<>>) \o Words(it.parts)
  BY EmptyIsSeq, WordsOfAppend
<1>3. Words(it.parts) \in Seq(ContentBlock)
  BY WordsTyped DEF ItemType
<1>4. <<>> \o Words(it.parts) = Words(it.parts)
  BY <1>3
<1> QED BY ONLY <1>1, <1>2, <1>4, WordsOfEmpty

\* A tool message stays where its items go on.
LEMMA HasResultStays ==
    ASSUME NEW s \in Seq(ItemType), NEW t \in Seq(ItemType), GoesOn(s, t), NEW id, HasResult(s, id)
    PROVE  HasResult(t, id)
BY DEF GoesOn, HasResult

\* What is a matter of the messages alone stays with them.
LEMMA SameMessages ==
    ASSUME messages' = messages
    PROVE  Stray' = Stray /\ SystemBlocks' = SystemBlocks
BY DEF Stray, SystemBlocks

\* A round that converts one message.
LEMMA OneMessage ==
    ASSUME ConverterTypeOK, NEW role, Converting(role), turn' = turn + 1
    PROVE  /\ messages' = messages /\ target' = target
           /\ turn \in 1..Len(messages) /\ turn \in DOMAIN messages /\ Len(messages) \in Nat
           /\ messages[turn] \in Message /\ messages[turn].role = role
           /\ Over = turn - 1 /\ Over' = turn
           /\ turn' \in 1..(Len(messages) + 2) /\ turn' <= Len(messages) + 1
           /\ SaidIn(messages, turn) = SaidIn(messages, turn - 1) \o Said(messages[turn])
<1>1. messages' = messages /\ target' = target /\ turn <= Len(messages) /\ messages[turn].role = role
  BY DEF Converting
<1>2. /\ messages \in Seq(Message) /\ Len(messages) \in Nat /\ DOMAIN messages = 1..Len(messages)
      /\ \A m \in 1..Len(messages) : messages[m] \in Message
  BY ConversationTyped DEF ConverterTypeOK
<1>3. turn \in 1..Len(messages)
  BY <1>1, <1>2 DEF ConverterTypeOK
<1>4. Over = turn - 1 /\ Over' = turn
  BY <1>1, <1>2, <1>3 DEF Over
<1>5. SaidIn(messages, turn) = SaidIn(messages, turn - 1) \o Said(messages[turn])
  BY <1>2, <1>3, SaidNext
<1>6. turn' \in 1..(Len(messages) + 2) /\ turn' <= Len(messages) + 1
  BY <1>2, <1>3
<1> QED BY <1>1, <1>2, <1>3, <1>4, <1>5, <1>6

\* A round on a user or a system message loses no result that has a place.
LEMMA ResultsTakenNext ==
    ASSUME ConverterTypeOK, ResultsTaken, NEW role, Converting(role), role # "assistant", turn' = turn + 1,
           items' \in Seq(ItemType), GoesOn(items, items')
    PROVE  ResultsTaken'
<1>1. /\ messages' = messages /\ turn \in 1..Len(messages) /\ Len(messages) \in Nat
      /\ messages[turn].role = role /\ Over = turn - 1 /\ Over' = turn
  BY OneMessage
<1>2. ASSUME NEW m \in 1..(Len(messages) - 1), m + 1 <= turn,
             messages[m].role = "assistant", messages[m + 1].role = "user",
             NEW r \in ToSet(Results(messages[m + 1]))
      PROVE  HasResult(items', r.id)
  <2>1. CASE m + 1 = turn
    <3>1. Results(messages[turn]) = <<>> /\ turn - 1 = m
      BY <1>1, <1>2, <2>1 DEF ResultsTaken
    <3>2. ToSet(<<>>) = {}
      BY DEF ToSet
    <3> QED BY <1>2, <2>1, <3>1, <3>2
  <2>2. CASE m + 1 # turn
    <3>1. m + 1 <= Over
      BY <1>1, <1>2, <2>2
    <3>2. HasResult(items, r.id)
      BY <1>2, <3>1 DEF ResultsTaken
    <3> QED BY <3>2, HasResultStays DEF ConverterTypeOK
  <2> QED BY <2>1, <2>2
<1>3. turn' - 1 = turn
  BY <1>1
<1>4. \A m \in 1..(Len(messages) - 1) :
          m + 1 <= turn /\ messages[m].role = "assistant" /\ messages[m + 1].role = "user" =>
              \A r \in ToSet(Results(messages[m + 1])) : HasResult(items', r.id)
  BY <1>2
<1> QED BY <1>1, <1>3, <1>4 DEF ResultsTaken

\* A user message keeps the invariant.
LEMMA ChatUserKeeps ==
    ASSUME ConverterInv, ChatUser
    PROVE  ConverterInv'
<1> DEFINE m == messages[turn]  c == Content(m)  it == Item("user", pending \o c, <<>>)
<1>1. /\ messages' = messages /\ target' = target /\ target = "chat"
      /\ turn \in 1..Len(messages) /\ turn \in DOMAIN messages /\ Len(messages) \in Nat
      /\ m \in Message /\ m.role = "user" /\ Over = turn - 1 /\ Over' = turn
      /\ turn' = turn + 1 /\ turn' \in 1..(Len(messages) + 2) /\ turn' <= Len(messages) + 1
      /\ SaidIn(messages, turn) = SaidIn(messages, turn - 1) \o Said(m)
  BY OneMessage DEF ConverterInv, ChatUser
<1>2. items' = Append(items, it) /\ pending' = <<>>
  BY DEF ChatUser
<1>3. ConverterTypeOK /\ WordsKept /\ TextWaits /\ TurnsPlain /\ ResultsTaken /\ ToolsBehind(items)
  BY <1>1 DEF ConverterInv, ChatInv
<1>4. messages \in Conversations /\ items \in Seq(ItemType) /\ pending \in Seq(ContentBlock)
  BY <1>3 DEF ConverterTypeOK
<1>5. c \in Seq(ContentBlock)
  BY <1>1, OfTyped DEF Content
<1>6. it \in ItemType /\ it.role = "user" /\ it.parts = pending \o c
  <2>1. pending \o c \in Seq(ContentBlock) /\ <<>> \in Seq(Id) /\ "user" \in Roles
    BY <1>4, <1>5 DEF Roles
  <2> DEFINE q == pending \o c  u == "user"  e == <<>>
  <2>2. q \in Seq(ContentBlock) /\ u \in Roles /\ e \in Seq(Id)
    BY <2>1
  <2> HIDE DEF c, q, u, e
  <2>3. Item(u, q, e) \in ItemType /\ Item(u, q, e).role = u /\ Item(u, q, e).parts = q
    BY ONLY <2>2, ItemTyped
  <2> QED BY <2>3 DEF it, q, u, e
<1>7. Stray' = Stray /\ SystemBlocks' = SystemBlocks
  BY <1>1, SameMessages
<1>8. ConverterTypeOK'
  <2>1. items' \in Seq(ItemType) /\ pending' \in Seq(ContentBlock)
    BY <1>2, <1>4, <1>6
  <2> QED BY <1>1, <1>3, <2>1 DEF ConverterTypeOK
<1>9. WordsKept'
  <2>1. WordsOf(Append(items, it)) = WordsOf(items) \o Words(pending \o c)
    BY <1>4, <1>6, WordsOfAppend
  <2>2. Words(pending \o c) = Words(pending) \o Words(c)
    BY <1>4, <1>5, WordsConcat
  <2>3. Words(c) = Said(m)
    BY <1>1, MessageWords DEF Said
  <2>4. WordsOf(items) \in Seq(ContentBlock) /\ Words(pending) \in Seq(ContentBlock) /\ Words(c) \in Seq(ContentBlock)
    BY <1>4, <1>5, WordsOfTyped, WordsTyped
  <2>5. WordsOf(items) \o (Words(pending) \o Words(c)) = (WordsOf(items) \o Words(pending)) \o Words(c)
    BY ONLY <2>4, ConcatThree
  <2>6. WordsOf(items) \o Words(pending) = SaidIn(messages, turn - 1)
    BY <1>1, <1>3 DEF WordsKept
  <2>7. WordsOf(items') = SaidIn(messages, turn)
    BY ONLY <1>1, <1>2, <2>1, <2>2, <2>3, <2>5, <2>6
  <2>8. WordsOf(items') \in Seq(ContentBlock)
    BY <1>8, WordsOfTyped DEF ConverterTypeOK
  <2>9. WordsOf(items') \o Words(pending') = WordsOf(items')
    BY ONLY <1>2, <2>8, NoWords, NothingMore
  <2> QED BY ONLY <1>1, <2>7, <2>9 DEF WordsKept
<1> HIDE DEF it
<1>10. GoesOn(items, items')
  BY <1>2, <1>4, <1>6 DEF GoesOn
<1>11. ToolsBehind(items')
  BY <1>2, <1>3, <1>4, <1>6, ToolsBehindAppend
<1>12. ResultsTaken'
  BY <1>1, <1>3, <1>8, <1>10, ResultsTakenNext DEF ChatUser, ConverterTypeOK
<1>13. TextWaits'
  BY <1>2 DEF TextWaits
<1>14. TurnsPlain'
  <2> SUFFICES ASSUME Stray = {} PROVE PlainPairs(items', SystemBlocks) /\ EndsPlain(items', SystemBlocks)
    BY <1>7 DEF TurnsPlain
  <2>1. PlainPairs(items, SystemBlocks) /\ EndsPlain(items, SystemBlocks)
    BY <1>1, <1>3 DEF TurnsPlain
  <2>2. c # <<>>
    <3> SUFFICES ASSUME c = <<>> PROVE FALSE
      OBVIOUS
    <3>1. turn > 1 /\ messages[turn - 1].role = "assistant" /\ Results(m) # <<>>
      BY <1>1 DEF Stray
    <3>2. turn \in 2..Len(messages)
      BY <1>1, <3>1
    <3> QED BY <1>1, <1>3, <3>1, <3>2 DEF ResultsTaken
  <2>3. Plain(it, SystemBlocks)
    BY <1>1, <1>4, <2>2, UserBlocksPlain DEF it
  <2> QED BY <1>2, <1>4, <1>6, <2>1, <2>3, PairsAppend
<1> QED BY <1>1, <1>8, <1>9, <1>11, <1>12, <1>13, <1>14 DEF ConverterInv, ChatInv

\* System text at the end of a user turn.
LEMMA LengthenedSound ==
    ASSUME NEW s \in Seq(ItemType), s # <<>>, NEW text \in Seq(ContentBlock), NEW B
    PROVE  /\ GoesOn(s, Lengthened(s, text))
           /\ ToolsBehind(s) => ToolsBehind(Lengthened(s, text))
           /\ PlainPairs(s, B) => PlainPairs(Lengthened(s, text), B)
           /\ EndsPlain(s, B) => EndsPlain(Lengthened(s, text), B)
<1> DEFINE t == Lengthened(s, text)
<1> HIDE DEF t
<1>1. /\ t \in Seq(ItemType) /\ Len(t) = Len(s) /\ DOMAIN t = DOMAIN s
      /\ \A i \in DOMAIN s : i # Len(s) => t[i] = s[i]
      /\ \A i \in DOMAIN s : t[i].role = s[i].role /\ t[i].calls = s[i].calls
      /\ t[Len(s)].parts = s[Len(s)].parts \o text
  BY LastLengthened DEF t
<1>2. Len(s) \in Nat /\ Len(s) # 0 /\ DOMAIN s = 1..Len(s) /\ s[Len(s)] \in ItemType
  OBVIOUS
<1>3. ToSet(s[Len(s)].parts) \subseteq ToSet(t[Len(s)].parts)
  <2>1. s[Len(s)].parts \in Seq(ContentBlock)
    BY <1>2 DEF ItemType
  <2>2. \A i \in DOMAIN s[Len(s)].parts :
            i \in DOMAIN t[Len(s)].parts /\ t[Len(s)].parts[i] = s[Len(s)].parts[i]
    BY ONLY <1>1, <2>1, text \in Seq(ContentBlock), ConcatPlaces
  <2> QED BY <2>2 DEF ToSet
<1>4. \A i \in DOMAIN s : Plain(s[i], B) => Plain(t[i], B)
  BY ONLY <1>1, <1>3 DEF Plain
<1>5. GoesOn(s, t)
  BY ONLY <1>1 DEF GoesOn
<1>6. ASSUME ToolsBehind(s) PROVE ToolsBehind(t)
  <2> SUFFICES ASSUME NEW i \in DOMAIN t, t[i].role = "tool"
               PROVE  \E j \in 1..(i - 1) : /\ t[j].role = "assistant" /\ t[i].calls[1] \in ToSet(t[j].calls)
                                            /\ \A k \in j + 1..i : t[k].role = "tool"
    BY DEF ToolsBehind
  <2>1. i \in DOMAIN s /\ s[i].role = "tool"
    BY <1>1
  <2>2. PICK j \in 1..(i - 1) : /\ s[j].role = "assistant" /\ s[i].calls[1] \in ToSet(s[j].calls)
                                /\ \A k \in j + 1..i : s[k].role = "tool"
    BY <1>6, <2>1 DEF ToolsBehind
  <2>3. j \in DOMAIN s /\ \A k \in j + 1..i : k \in DOMAIN s
    BY <1>2, <2>1
  <2> QED BY <1>1, <2>1, <2>2, <2>3
<1>7. ASSUME PlainPairs(s, B) PROVE PlainPairs(t, B)
  <2> SUFFICES ASSUME NEW i \in 1..(Len(t) - 1), t[i].role = "user", t[i + 1].role = "user"
               PROVE  Plain(t[i], B) /\ Plain(t[i + 1], B)
    BY DEF PlainPairs
  <2>1. i \in DOMAIN s /\ i + 1 \in DOMAIN s /\ i \in 1..(Len(s) - 1)
    BY <1>1, <1>2
  <2>2. Plain(s[i], B) /\ Plain(s[i + 1], B)
    BY <1>1, <1>7, <2>1 DEF PlainPairs
  <2> QED BY <1>4, <2>1, <2>2
<1>8. ASSUME EndsPlain(s, B) PROVE EndsPlain(t, B)
  <2>1. Len(s) \in DOMAIN s
    BY <1>2
  <2>2. t[Len(t)].role = "user" => Plain(t[Len(t)], B)
    BY <1>1, <1>4, <1>8, <2>1 DEF EndsPlain
  <2> QED BY <2>2 DEF EndsPlain
<1> QED BY <1>5, <1>6, <1>7, <1>8 DEF t

\* A system message keeps it, whether its text is taken or waits.
LEMMA ChatSystemKeeps ==
    ASSUME ConverterInv, ChatSystem
    PROVE  ConverterInv'
<1> DEFINE m == messages[turn]  text == SystemText(m)
<1>1. /\ messages' = messages /\ target' = target /\ target = "chat"
      /\ turn \in 1..Len(messages) /\ turn \in DOMAIN messages /\ Len(messages) \in Nat
      /\ m \in Message /\ m.role = "system" /\ Over = turn - 1 /\ Over' = turn
      /\ turn' = turn + 1 /\ turn' \in 1..(Len(messages) + 2) /\ turn' <= Len(messages) + 1
      /\ SaidIn(messages, turn) = SaidIn(messages, turn - 1) \o Said(m)
  BY OneMessage DEF ConverterInv, ChatSystem
<1>2. ConverterTypeOK /\ WordsKept /\ TextWaits /\ TurnsPlain /\ ResultsTaken /\ ToolsBehind(items)
  BY <1>1 DEF ConverterInv, ChatInv
<1>3. messages \in Conversations /\ items \in Seq(ItemType) /\ pending \in Seq(ContentBlock)
  BY <1>2 DEF ConverterTypeOK
<1>4. text \in Seq(ContentBlock)
  BY <1>1, OfTyped DEF SystemText
<1>5. Words(text) = Said(m)
  BY <1>1, MessageWords DEF Said
<1>6. WordsOf(items) \o Words(pending) = SaidIn(messages, turn - 1)
  BY <1>1, <1>2 DEF WordsKept
<1>7. /\ WordsOf(items) \in Seq(ContentBlock) /\ Words(pending) \in Seq(ContentBlock)
      /\ Words(text) \in Seq(ContentBlock)
  BY <1>3, <1>4, WordsOfTyped, WordsTyped
<1>8. \/ items # <<>> /\ items[Len(items)].role = "user" /\ pending' = pending
         /\ items' = Lengthened(items, text)
      \/ EndsOtherwise(items) /\ pending' = pending \o text /\ items' = items
  BY DEF ChatSystem, EndsOtherwise, Last, Lengthened
<1>9. Stray' = Stray /\ SystemBlocks' = SystemBlocks
  BY <1>1, SameMessages
<1> HIDE DEF text
<1>10. ASSUME items # <<>>, items[Len(items)].role = "user", pending' = pending,
              items' = Lengthened(items, text)
       PROVE  /\ ConverterTypeOK' /\ WordsKept' /\ TextWaits' /\ ToolsBehind(items') /\ GoesOn(items, items')
              /\ TurnsPlain'
  <2>1. /\ items' \in Seq(ItemType) /\ WordsOf(items') = WordsOf(items) \o Words(text)
        /\ items'[Len(items')].role = "user"
    <3>1. /\ items' \in Seq(ItemType) /\ Len(items') = Len(items)
          /\ \A i \in DOMAIN items : items'[i].role = items[i].role
          /\ WordsOf(items') = WordsOf(items) \o Words(text)
      BY ONLY <1>3, <1>4, <1>10, LastLengthened
    <3>2. Len(items) \in DOMAIN items
      BY <1>3, <1>10
    <3> QED BY <1>10, <3>1, <3>2
  <2>2. /\ GoesOn(items, items')
        /\ ToolsBehind(items) => ToolsBehind(items')
        /\ PlainPairs(items, SystemBlocks) => PlainPairs(items', SystemBlocks)
        /\ EndsPlain(items, SystemBlocks) => EndsPlain(items', SystemBlocks)
    BY ONLY <1>3, <1>4, <1>10, LengthenedSound
  <2>3. pending = <<>>
    BY <1>2, <1>10 DEF TextWaits, EndsOtherwise
  <2>4. ConverterTypeOK'
    BY <1>1, <1>2, <1>10, <2>1 DEF ConverterTypeOK
  <2>5. WordsKept'
    <3>1. WordsOf(items) = SaidIn(messages, turn - 1)
      BY ONLY <1>6, <1>7, <2>3, NoWords, NothingMore
    <3>2. WordsOf(items') = SaidIn(messages, turn)
      BY ONLY <1>1, <1>5, <2>1, <3>1
    <3>3. WordsOf(items') \in Seq(ContentBlock)
      BY <2>1, WordsOfTyped
    <3>4. WordsOf(items') \o Words(pending') = WordsOf(items')
      BY ONLY <1>10, <2>3, <3>3, NoWords, NothingMore
    <3> QED BY ONLY <1>1, <3>2, <3>4 DEF WordsKept
  <2>6. TextWaits'
    BY <1>10, <2>3 DEF TextWaits
  <2>7. TurnsPlain'
    BY <1>1, <1>2, <1>9, <2>2 DEF TurnsPlain
  <2> QED BY <1>2, <2>2, <2>4, <2>5, <2>6, <2>7
<1>11. ASSUME EndsOtherwise(items), pending' = pending \o text, items' = items
       PROVE  /\ ConverterTypeOK' /\ WordsKept' /\ TextWaits' /\ ToolsBehind(items') /\ GoesOn(items, items')
              /\ TurnsPlain'
  <2>1. pending' \in Seq(ContentBlock)
    BY <1>3, <1>4, <1>11
  <2>2. ConverterTypeOK'
    BY <1>1, <1>2, <1>3, <1>11, <2>1 DEF ConverterTypeOK
  <2>3. WordsKept'
    <3>1. Words(pending \o text) = Words(pending) \o Words(text)
      BY <1>3, <1>4, WordsConcat
    <3>2. WordsOf(items) \o (Words(pending) \o Words(text)) = (WordsOf(items) \o Words(pending)) \o Words(text)
      BY ONLY <1>7, ConcatThree
    <3>3. WordsOf(items') \o Words(pending') = SaidIn(messages, turn)
      BY ONLY <1>1, <1>5, <1>6, <1>11, <3>1, <3>2
    <3> QED BY ONLY <1>1, <3>3 DEF WordsKept
  <2>4. TextWaits'
    BY <1>1, <1>11 DEF TextWaits
  <2>5. TurnsPlain'
    BY <1>1, <1>2, <1>9, <1>11 DEF TurnsPlain
  <2> QED BY <1>2, <1>11, <2>2, <2>3, <2>4, <2>5, SelfGoesOn
<1>12. /\ ConverterTypeOK' /\ WordsKept' /\ TextWaits' /\ ToolsBehind(items') /\ GoesOn(items, items')
       /\ TurnsPlain'
  BY ONLY <1>8, <1>10, <1>11
<1>13. ResultsTaken'
  <2>1. items' \in Seq(ItemType)
    BY <1>12 DEF ConverterTypeOK
  <2> QED BY <1>1, <1>2, <1>12, <2>1, ResultsTakenNext DEF ChatSystem
<1> QED BY <1>1, <1>12, <1>13 DEF ConverterInv, ChatInv

\* Of blocks none of which is of some kinds.
LEMMA OfKindsNone ==
    ASSUME NEW S, NEW s \in Seq(S), NEW A, \A i \in DOMAIN s : s[i].kind \notin A
    PROVE  OfKinds(s, A) = <<>>
<1>1. OfKinds(s, A) \in Seq(S)
  BY OfKindsTyped
<1>2. \A i \in DOMAIN OfKinds(s, A) : FALSE
  BY OfKindsElements
<1>3. DOMAIN OfKinds(s, A) = {}
  BY <1>2
<1> QED BY <1>1, <1>3

\* The text that waits, as a user turn behind none.
LEMMA FlushedSound ==
    ASSUME ConverterTypeOK, TextWaits
    PROVE  /\ Flushed \in Seq(ItemType) /\ WordsOf(Flushed) = Words(pending)
           /\ Flushed = <<>> \/ (EndsOtherwise(items) /\ \E p \in ItemType : p.role = "user" /\ Flushed = <<p>>)
<1> DEFINE it == Item("user", pending, <<>>)
<1>1. pending \in Seq(ContentBlock)
  BY DEF ConverterTypeOK
<1>2. it \in ItemType /\ it.role = "user" /\ it.parts = pending
  <2>1. <<>> \in Seq(Id)
    BY EmptyIsSeq
  <2> QED BY <1>1, <2>1 DEF Item, ItemType, Roles
<1>3. <<it>> \in Seq(ItemType) /\ WordsOf(<<it>>) = Words(pending)
  <2> HIDE DEF it
  <2> QED BY <1>2, WordsOfOne
<1>4. CASE pending = <<>>
  <2>1. Flushed = <<>>
    BY <1>4 DEF Flushed
  <2> QED BY <1>4, <2>1, NoWords, WordsOfEmpty, EmptyIsSeq
<1>5. CASE pending # <<>>
  <2>1. Flushed = <<it>> /\ EndsOtherwise(items)
    BY <1>5 DEF Flushed, TextWaits
  <2> HIDE DEF it
  <2> QED BY <1>2, <1>3, <2>1
<1> QED BY <1>4, <1>5

\* An assistant message as an item: what is said in it, and its calls.
LEMMA AssistantItemSound ==
    ASSUME NEW m \in Message, m.role = "assistant"
    PROVE  /\ AssistantItem(m) \in ItemType /\ AssistantItem(m).role = "assistant"
           /\ Words(AssistantItem(m).parts) = Said(m)
           /\ \A u \in ToSet(Of(m, {"use"})) : u.id \in ToSet(AssistantItem(m).calls)
<1> DEFINE p == Of(m, {"text", "blank"})  b == Of(m, {"use"})  q == Ids(b)
<1>1. p \in Seq(ContentBlock) /\ b \in Seq(ContentBlock)
  BY OfTyped
<1>2. Words(p) = Said(m)
  BY MessageWords DEF Said
<1>3. q \in Seq(Id) /\ \A x \in ToSet(b) : \E i \in DOMAIN q : q[i] = x.id
  BY <1>1, IdsTyped
<1>4. AssistantItem(m) = Item("assistant", p, q)
  BY DEF AssistantItem
<1> HIDE DEF p, q, b
<1>5. /\ AssistantItem(m) \in ItemType /\ AssistantItem(m).role = "assistant"
      /\ AssistantItem(m).parts = p /\ AssistantItem(m).calls = q
  BY <1>1, <1>3, <1>4 DEF Item, ItemType, Roles
<1>6. \A x \in ToSet(b) : x.id \in ToSet(q)
  BY <1>3 DEF ToSet
<1> QED BY <1>2, <1>5, <1>6 DEF b

\* What stands beside tool results, as a user turn: all that is said, or nothing.
LEMMA RemainderSound ==
    ASSUME messages \in Conversations, NEW k \in DOMAIN messages, messages[k].role = "user"
    PROVE  /\ Remainder(messages[k]) \in Seq(ItemType) /\ WordsOf(Remainder(messages[k])) = Said(messages[k])
           /\ \/ Remainder(messages[k]) = <<>>
              \/ \E p \in ItemType : /\ p.role = "user" /\ Plain(p, SystemBlocks)
                                     /\ Remainder(messages[k]) = <<p>>
<1> DEFINE n == messages[k]  c == Content(n)  it == Item("user", c, <<>>)
<1>1. n \in Message
  BY ConversationTyped
<1>2. c \in Seq(ContentBlock) /\ \A i \in DOMAIN c : c[i].kind \in {"text", "blank", "image"}
  BY <1>1, OfTyped DEF Content
<1>3. Words(c) = Said(n)
  BY <1>1, MessageWords DEF Said
<1>4. it \in ItemType /\ it.role = "user" /\ it.parts = c
  <2>1. <<>> \in Seq(Id)
    BY EmptyIsSeq
  <2> HIDE DEF c
  <2> QED BY <1>2, <2>1 DEF Item, ItemType, Roles
<1>5. CASE \E i \in DOMAIN c : c[i].kind # "blank"
  <2>1. Remainder(n) = <<it>>
    BY <1>5 DEF Remainder, UserItem
  <2>2. c # <<>>
    BY <1>5
  <2>3. Plain(Item("user", <<>> \o c, <<>>), SystemBlocks)
    BY <2>2, EmptyIsSeq, UserBlocksPlain
  <2>4. <<>> \o c = c
    BY <1>2
  <2>5. Plain(it, SystemBlocks)
    BY <2>3, <2>4
  <2> HIDE DEF it, c
  <2>6. <<it>> \in Seq(ItemType) /\ WordsOf(<<it>>) = Words(c)
    BY <1>4, WordsOfOne
  <2> QED BY <1>3, <1>4, <2>1, <2>5, <2>6
<1>6. CASE \A i \in DOMAIN c : c[i].kind = "blank"
  <2>1. Remainder(n) = <<>>
    BY <1>6 DEF Remainder
  <2>2. Words(c) = <<>>
    <3> HIDE DEF c
    <3>1. \A i \in DOMAIN c : c[i].kind \notin {"text", "image"}
      BY <1>6
    <3> QED BY <1>2, <3>1, OfKindsNone DEF Words
  <2> QED BY <1>3, <2>1, <2>2, WordsOfEmpty, EmptyIsSeq
<1> QED BY <1>5, <1>6

\* The results of the calls of the assistant message right before.
LEMMA ToolItemsSound ==
    ASSUME messages \in Conversations, NEW k \in DOMAIN messages, k + 1 \in DOMAIN messages,
           messages[k].role = "assistant", messages[k + 1].role = "user"
    PROVE  LET t == ToolItems(messages[k + 1]) IN
           /\ t \in Seq(ItemType) /\ WordsOf(t) = <<>>
           /\ \A i \in DOMAIN t : t[i].role = "tool" /\ t[i].calls[1] \in ToSet(AssistantItem(messages[k]).calls)
           /\ \A r \in ToSet(Results(messages[k + 1])) :
                 \E i \in DOMAIN t : t[i].role = "tool" /\ t[i].calls = <<r.id>>
<1> DEFINE n == messages[k + 1]  t == ToolItems(n)  a == AssistantItem(messages[k])
<1>1. k \in Nat /\ k >= 1 /\ n \in Message /\ messages[k] \in Message
  BY ConversationTyped
<1>2. t = [i \in DOMAIN Results(n) |-> Item("tool", <<Results(n)[i]>>, <<Results(n)[i].id>>)]
  BY DEF ToolItems
<1> HIDE DEF t
<1>3. /\ t \in Seq(ItemType) /\ DOMAIN t = DOMAIN Results(n)
      /\ \A i \in DOMAIN t : t[i].role = "tool" /\ t[i].calls = <<Results(n)[i].id>>
      /\ WordsOf(t) = <<>>
  <2> DEFINE role == "tool"
  <2>1. role \in Roles /\ t = [i \in DOMAIN Results(n) |-> Item(role, <<Results(n)[i]>>, <<Results(n)[i].id>>)]
    BY <1>2 DEF Roles
  <2> HIDE DEF role, n
  <2>2. /\ t \in Seq(ItemType) /\ DOMAIN t = DOMAIN Results(n)
        /\ \A i \in DOMAIN t : t[i].role = role /\ t[i].calls = <<Results(n)[i].id>>
        /\ WordsOf(t) = <<>>
    BY <1>1, <2>1, ResultItems
  <2> QED BY <2>2 DEF role
<1>4. \A r \in ToSet(Results(n)) : r.id \in ToSet(a.calls)
  <2> SUFFICES ASSUME NEW r \in ToSet(Results(n)) PROVE r.id \in ToSet(a.calls)
    OBVIOUS
  <2>1. k + 1 > 1 /\ k + 1 - 1 = k
    BY <1>1
  <2>2. PICK u \in ToSet(Of(messages[k], {"use"})) : u.id = r.id
    <3> DEFINE m == k + 1
    <3>0. m \in DOMAIN messages /\ messages[m].role = "user" /\ r \in ToSet(Results(messages[m]))
      OBVIOUS
    <3>1. m \in DOMAIN messages /\ messages[m].role = "user" /\ r \in ToSet(Results(messages[m])) /\ m > 1 /\ m - 1 = k
      BY ONLY <1>1, <2>1, <3>0 DEF m
    <3> HIDE DEF m
    <3>2. m > 1 /\ messages[m - 1].role = "assistant" =>
              \E u \in ToSet(Of(messages[m - 1], {"use"})) : u.id = r.id
      BY ONLY <3>1, messages \in Conversations, CallOfResult
    <3> QED BY <3>1, <3>2
  <2>3. u.id \in ToSet(a.calls)
    BY <1>1, AssistantItemSound
  <2> QED BY <2>2, <2>3
<1>5. \A i \in DOMAIN t : Results(n)[i] \in ToSet(Results(n))
  BY <1>3 DEF ToSet
<1>6. \A i \in DOMAIN t : t[i].calls[1] \in ToSet(a.calls)
  BY <1>3, <1>4, <1>5
<1>7. \A r \in ToSet(Results(n)) : \E i \in DOMAIN t : t[i].role = "tool" /\ t[i].calls = <<r.id>>
  BY <1>3 DEF ToSet
<1> QED BY <1>3, <1>6, <1>7 DEF t

\* An assistant message keeps the invariant, alone or with the results of its calls.
LEMMA ChatAssistantKeeps ==
    ASSUME ConverterInv, ChatAssistant
    PROVE  ConverterInv'
<1> DEFINE m == messages[turn]  n == messages[turn + 1]
           answered == turn < Len(messages) /\ n.role = "user" /\ Results(n) # <<>>
           f == Flushed  a == AssistantItem(m)
           t == IF answered THEN ToolItems(n) ELSE <<>>
           r == IF answered THEN Remainder(n) ELSE <<>>
           last == IF answered THEN turn + 1 ELSE turn
<1>1. ConverterTypeOK /\ WordsKept /\ TextWaits /\ TurnsPlain /\ ResultsTaken /\ ToolsBehind(items)
  BY DEF ConverterInv, ChatInv, ChatAssistant
<1>2. /\ messages \in Conversations /\ messages \in Seq(Message) /\ Len(messages) \in Nat
      /\ DOMAIN messages = 1..Len(messages) /\ items \in Seq(ItemType) /\ pending \in Seq(ContentBlock)
  BY <1>1, ConversationTyped DEF ConverterTypeOK
<1>3. /\ messages' = messages /\ target' = target /\ target = "chat" /\ pending' = <<>>
      /\ turn <= Len(messages) /\ m.role = "assistant"
  BY DEF ChatAssistant, Converting
<1>4. turn \in 1..Len(messages) /\ m \in Message /\ Over = turn - 1
  <2>1. turn \in 1..Len(messages)
    BY <1>1, <1>2, <1>3 DEF ConverterTypeOK
  <2>2. Over = turn - 1
    BY <1>2, <2>1 DEF Over
  <2> QED BY <1>2, <2>1, <2>2
<1>5. answered => turn + 1 \in DOMAIN messages /\ turn + 1 \in 1..Len(messages)
  BY <1>2, <1>4
<1>6. turn' = last + 1 /\ last \in 1..Len(messages) /\ Over' = last
  <2>1. turn' = last + 1
    BY <1>2, <1>4 DEF ChatAssistant
  <2>2. last \in 1..Len(messages)
    BY <1>4, <1>5
  <2> HIDE DEF last
  <2> QED BY <1>2, <1>3, <2>1, <2>2 DEF Over
<1>7. items' = ((items \o f) \o <<a>>) \o (t \o r)
  <2>1. <<>> \o <<>> = <<>>
    OBVIOUS
  <2>2. CASE answered
    BY <2>2 DEF ChatAssistant
  <2>3. CASE ~answered
    BY <2>1, <2>3 DEF ChatAssistant
  <2> QED BY <2>2, <2>3
<1>8. /\ f \in Seq(ItemType) /\ WordsOf(f) = Words(pending)
      /\ f = <<>> \/ (EndsOtherwise(items) /\ \E p \in ItemType : p.role = "user" /\ f = <<p>>)
  BY <1>1, FlushedSound
<1>9. a \in ItemType /\ a.role = "assistant" /\ Words(a.parts) = Said(m)
  BY <1>3, <1>4, AssistantItemSound
<1>10. /\ t \in Seq(ItemType) /\ WordsOf(t) = <<>>
       /\ \A i \in DOMAIN t : t[i].role = "tool" /\ t[i].calls[1] \in ToSet(a.calls)
       /\ answered => \A x \in ToSet(Results(n)) : \E i \in DOMAIN t : t[i].role = "tool" /\ t[i].calls = <<x.id>>
  <2>1. CASE answered
    <3>1. t = ToolItems(n) /\ turn \in DOMAIN messages /\ turn + 1 \in DOMAIN messages /\ n.role = "user"
      BY <1>2, <1>4, <1>5, <2>1
    <3> HIDE DEF t, answered
    <3> QED BY <1>2, <1>3, <3>1, ToolItemsSound
  <2>2. CASE ~answered
    <3>1. t = <<>>
      BY <2>2
    <3> HIDE DEF t, answered
    <3> QED BY <2>2, <3>1, WordsOfEmpty, EmptyIsSeq
  <2> QED BY <2>1, <2>2
<1>11. /\ r \in Seq(ItemType)
       /\ WordsOf(r) = IF answered THEN Said(n) ELSE <<>>
       /\ r = <<>> \/ \E p \in ItemType : p.role = "user" /\ Plain(p, SystemBlocks) /\ r = <<p>>
  <2>1. CASE answered
    <3>1. r = Remainder(n) /\ turn + 1 \in DOMAIN messages /\ n.role = "user"
      BY <1>5, <2>1
    <3> HIDE DEF r, answered
    <3> QED BY <1>2, <2>1, <3>1, RemainderSound
  <2>2. CASE ~answered
    <3>1. r = <<>>
      BY <2>2
    <3> HIDE DEF r, answered
    <3> QED BY <2>2, <3>1, WordsOfEmpty, EmptyIsSeq
  <2> QED BY <2>1, <2>2
<1>12. /\ SaidIn(messages, turn) = SaidIn(messages, turn - 1) \o Said(m)
       /\ answered => SaidIn(messages, turn + 1) = SaidIn(messages, turn) \o Said(n)
  <2>1. SaidIn(messages, turn) = SaidIn(messages, turn - 1) \o Said(m)
    BY <1>2, <1>4, SaidNext
  <2>0. \A j \in 1..Len(messages) : SaidIn(messages, j) = SaidIn(messages, j - 1) \o Said(messages[j])
    BY <1>2, SaidNext
  <2>2. ASSUME answered PROVE SaidIn(messages, turn + 1) = SaidIn(messages, (turn + 1) - 1) \o Said(n)
    <3>1. turn + 1 \in 1..Len(messages)
      BY <1>5, <2>2
    <3> HIDE DEF answered
    <3> DEFINE j == turn + 1
    <3>2. j \in 1..Len(messages)
      BY <3>1
    <3> HIDE DEF j
    <3>3. SaidIn(messages, j) = SaidIn(messages, j - 1) \o Said(messages[j])
      BY ONLY <2>0, <3>2
    <3> QED BY ONLY <3>3 DEF j, n
  <2>3. (turn + 1) - 1 = turn
    BY <1>4
  <2> QED BY <2>1, <2>2, <2>3
<1> HIDE DEF f, a, t, r
<1>13. /\ items' \in Seq(ItemType)
       /\ WordsOf(items') = ((WordsOf(items) \o WordsOf(f)) \o Words(a.parts)) \o (WordsOf(t) \o WordsOf(r))
       /\ (PlainPairs(items, SystemBlocks) => PlainPairs(items', SystemBlocks)) /\ EndsPlain(items', SystemBlocks)
       /\ ToolsBehind(items') /\ GoesOn(items, items')
       /\ \A i \in DOMAIN t : \E k \in DOMAIN items' : items'[k] = t[i]
  <2> DEFINE u == ((items \o f) \o <<a>>) \o (t \o r)
  <2>0. RunOf(items, f, a, t, r, SystemBlocks)
    BY ONLY <1>1, <1>8, <1>9, <1>10, <1>11 DEF RunOf
  <2>1. Continued(items, u, f, a, t, r, SystemBlocks)
    BY ONLY <1>2, <1>8, <1>9, <1>10, <1>11, <2>0, AssistantItems
  <2> HIDE DEF u
  <2>2. items' = u
    BY <1>7 DEF u
  <2> QED BY ONLY <2>1, <2>2 DEF Continued
<1>14. ConverterTypeOK'
  <2>1. <<>> \in Seq(ContentBlock) /\ turn' \in 1..(Len(messages) + 2)
    BY <1>2, <1>6, EmptyIsSeq
  <2> QED BY <1>1, <1>3, <1>13, <2>1 DEF ConverterTypeOK
<1>15. WordsKept'
  <2>1. WordsOf(items) \o WordsOf(f) = SaidIn(messages, turn - 1)
    BY <1>1, <1>4, <1>8 DEF WordsKept
  <2>2. (WordsOf(items) \o WordsOf(f)) \o Words(a.parts) = SaidIn(messages, turn)
    BY ONLY <1>9, <1>12, <2>1
  <2>3. WordsOf(r) \in Seq(ContentBlock) /\ WordsOf(items') \in Seq(ContentBlock)
    BY <1>11, <1>13, WordsOfTyped
  <2>4. WordsOf(t) \o WordsOf(r) = WordsOf(r)
    BY ONLY <1>10, <2>3, NothingMore
  <2>5. WordsOf(items') = SaidIn(messages, turn) \o WordsOf(r)
    BY ONLY <1>13, <2>2, <2>4
  <2>6. WordsOf(items') = SaidIn(messages, last)
    <3>1. CASE answered
      BY <1>11, <1>12, <2>5, <3>1
    <3>2. CASE ~answered
      <4>1. SaidIn(messages, turn) \in Seq(ContentBlock)
        <5>1. turn \in 0..Len(messages)
          BY <1>2, <1>4
        <5> QED BY <1>2, <5>1, SaidInTyped
      <4>2. WordsOf(r) = <<>> /\ last = turn
        BY <1>11, <3>2
      <4> QED BY ONLY <2>5, <4>1, <4>2, NothingMore
    <3> QED BY <3>1, <3>2
  <2>7. WordsOf(items') \o Words(pending') = WordsOf(items')
    BY ONLY <1>3, <2>3, NoWords, NothingMore
  <2> QED BY <1>3, <1>6, <2>6, <2>7 DEF WordsKept
<1>16. TextWaits'
  BY <1>3 DEF TextWaits
<1>17. TurnsPlain'
  <2>1. Stray' = Stray /\ SystemBlocks' = SystemBlocks
    BY <1>3, SameMessages
  <2> QED BY <1>1, <1>13, <2>1 DEF TurnsPlain
<1>18. ResultsTaken'
  <2>1. ASSUME NEW k \in 1..(Len(messages) - 1), k + 1 <= last,
               messages[k].role = "assistant", messages[k + 1].role = "user",
               NEW x \in ToSet(Results(messages[k + 1]))
        PROVE  HasResult(items', x.id)
    <3>1. CASE k + 1 <= turn - 1
      <4>1. HasResult(items, x.id)
        BY <1>1, <1>4, <2>1, <3>1 DEF ResultsTaken
      <4> QED BY <1>2, <1>13, <4>1, HasResultStays
    <3>2. CASE ~(k + 1 <= turn - 1)
      <4>1. k + 1 # turn
        BY <1>3, <2>1
      <4>2. answered /\ k = turn
        BY <1>4, <2>1, <3>2, <4>1
      <4>3. PICK i \in DOMAIN t : t[i].role = "tool" /\ t[i].calls = <<x.id>>
        BY <1>10, <2>1, <4>2
      <4> QED BY <1>13, <4>3 DEF HasResult
    <3> QED BY <3>1, <3>2
  <2>2. ASSUME turn' \in 2..Len(messages), messages[turn' - 1].role = "assistant", messages[turn'].role = "user"
        PROVE  Results(messages[turn']) = <<>>
    <3>1. last = turn' - 1
      BY <1>6
    <3>2. ~answered
      BY <2>2, <3>1
    <3>3. turn' = turn + 1 /\ turn < Len(messages)
      BY <1>4, <1>6, <2>2, <3>2
    <3> QED BY <2>2, <3>2, <3>3
  <2>3. \A k \in 1..(Len(messages) - 1) :
            k + 1 <= last /\ messages[k].role = "assistant" /\ messages[k + 1].role = "user" =>
                \A x \in ToSet(Results(messages[k + 1])) : HasResult(items', x.id)
    BY <2>1
  <2> HIDE DEF last
  <2> QED BY <1>3, <1>6, <2>2, <2>3 DEF ResultsTaken
<1> QED BY <1>3, <1>13, <1>14, <1>15, <1>16, <1>17, <1>18 DEF ConverterInv, ChatInv

\* The end keeps it: text that waits becomes the last turn.
LEMMA ChatEndsKeeps ==
    ASSUME ConverterInv, ChatEnds
    PROVE  ConverterInv'
<1>1. ConverterTypeOK /\ WordsKept /\ TextWaits /\ TurnsPlain /\ ResultsTaken /\ ToolsBehind(items)
  BY DEF ConverterInv, ChatInv, ChatEnds
<1>2. messages \in Conversations /\ Len(messages) \in Nat /\ items \in Seq(ItemType) /\ pending \in Seq(ContentBlock)
  BY <1>1, ConversationTyped DEF ConverterTypeOK
<1>3. /\ messages' = messages /\ target' = target /\ target = "chat" /\ pending' = <<>>
      /\ turn = Len(messages) + 1 /\ turn' = turn + 1 /\ items' = items \o Flushed
  BY DEF ChatEnds
<1>4. Over = Len(messages) /\ Over' = Len(messages)
  BY <1>2, <1>3 DEF Over
<1>5. /\ Flushed \in Seq(ItemType) /\ WordsOf(Flushed) = Words(pending)
      /\ Flushed = <<>> \/ (EndsOtherwise(items) /\ \E p \in ItemType : p.role = "user" /\ Flushed = <<p>>)
  BY <1>1, FlushedSound
<1>6. /\ items' \in Seq(ItemType) /\ GoesOn(items, items') /\ ToolsBehind(items')
      /\ PlainPairs(items, SystemBlocks) => PlainPairs(items', SystemBlocks)
  <2>1. items' \in Seq(ItemType)
    BY <1>2, <1>3, <1>5
  <2>2. GoesOn(items, items \o Flushed)
    BY <1>2, <1>5, SelfGoesOn, ConcatGoesOn
  <2>3. CASE Flushed = <<>>
    <3>1. items' = items
      BY <1>2, <1>3, <2>3
    <3> QED BY <1>1, <1>2, <3>1, SelfGoesOn
  <2>4. CASE EndsOtherwise(items) /\ \E p \in ItemType : p.role = "user" /\ Flushed = <<p>>
    <3>1. PICK p \in ItemType : p.role = "user" /\ Flushed = <<p>>
      BY <2>4
    <3>2. items' = Append(items, p)
      BY <1>2, <1>3, <3>1
    <3>3. PlainPairs(items, SystemBlocks) => PlainPairs(Append(items, p), SystemBlocks)
      BY <1>2, <2>4, <3>1, PairsAppend
    <3>4. ToolsBehind(Append(items, p))
      BY <1>1, <1>2, <3>1, ToolsBehindAppend
    <3> QED BY <1>3, <2>1, <2>2, <3>2, <3>3, <3>4
  <2> QED BY <1>5, <2>3, <2>4
<1>7. ConverterTypeOK'
  <2>1. <<>> \in Seq(ContentBlock) /\ turn' \in 1..(Len(messages) + 2)
    BY <1>2, <1>3, EmptyIsSeq
  <2> QED BY <1>1, <1>3, <1>6, <2>1 DEF ConverterTypeOK
<1>8. WordsKept'
  <2>1. WordsOf(items') = WordsOf(items) \o Words(pending)
    BY <1>2, <1>3, <1>5, WordsOfConcat
  <2>2. WordsOf(items') = SaidIn(messages, Len(messages))
    BY <1>1, <1>4, <2>1 DEF WordsKept
  <2>3. WordsOf(items') \in Seq(ContentBlock)
    BY <1>6, WordsOfTyped
  <2>4. WordsOf(items') \o Words(pending') = WordsOf(items')
    BY ONLY <1>3, <2>3, NoWords, NothingMore
  <2> QED BY <1>3, <1>4, <2>2, <2>4 DEF WordsKept
<1>9. TextWaits'
  BY <1>3 DEF TextWaits
<1>10. TurnsPlain'
  <2>1. Stray' = Stray /\ SystemBlocks' = SystemBlocks
    BY <1>3, SameMessages
  <2>2. ~(turn' <= Len(messages) + 1)
    BY <1>2, <1>3
  <2> QED BY <1>1, <1>3, <1>6, <2>1, <2>2 DEF TurnsPlain
<1>11. ResultsTaken'
  <2>1. \A id : HasResult(items, id) => HasResult(items', id)
    BY <1>2, <1>6, HasResultStays
  <2>2. turn' \notin 2..Len(messages)
    BY <1>2, <1>3
  <2> QED BY <1>1, <1>3, <1>4, <2>1, <2>2 DEF ResultsTaken
<1> QED BY <1>3, <1>6, <1>7, <1>8, <1>9, <1>10, <1>11 DEF ConverterInv, ChatInv

\* A round of the Responses conversion appends items of one message.
LEMMA ResponsesRound ==
    ASSUME ConverterInv, target = "responses", NEW role, Converting(role), turn' = turn + 1, pending' = pending,
           NEW t \in Seq(ItemType), items' = items \o t, Reasoned(t), WordsOf(t) = Said(messages[turn]),
           role = "assistant" => \A u \in ToSet(Of(messages[turn], {"use"})) : HasCall(t, u.id),
           role = "user" => \A r \in ToSet(Results(messages[turn])) :
              \E k \in DOMAIN t : t[k].role = "function_call_output" /\ t[k].calls = <<r.id>>
    PROVE  ConverterInv'
<1>1. ConverterTypeOK /\ WordsKept /\ ResponsesInv
  BY DEF ConverterInv
<1>2. /\ messages' = messages /\ target' = target
      /\ turn \in 1..Len(messages) /\ turn \in DOMAIN messages /\ Len(messages) \in Nat
      /\ messages[turn] \in Message /\ messages[turn].role = role
      /\ Over = turn - 1 /\ Over' = turn /\ turn' \in 1..(Len(messages) + 2)
      /\ SaidIn(messages, turn) = SaidIn(messages, turn - 1) \o Said(messages[turn])
  BY <1>1, OneMessage
<1>3. messages \in Conversations /\ items \in Seq(ItemType) /\ pending = <<>>
  BY <1>1 DEF ConverterTypeOK, ResponsesInv
<1>4. ConverterTypeOK'
  <2>1. items' \in Seq(ItemType)
    BY <1>3
  <2> QED BY <1>1, <1>2, <2>1 DEF ConverterTypeOK
<1>5. WordsKept'
  <2>1. WordsOf(items') = WordsOf(items) \o Said(messages[turn])
    BY <1>3, WordsOfConcat
  <2>2. WordsOf(items) \in Seq(ContentBlock) /\ WordsOf(items') \in Seq(ContentBlock)
    BY <1>3, <1>4, WordsOfTyped DEF ConverterTypeOK
  <2>3. WordsOf(items) = WordsOf(items) \o Words(pending)
    BY ONLY <1>3, <2>2, NoWords, NothingMore
  <2>4. WordsOf(items') = SaidIn(messages, turn)
    BY <1>1, <1>2, <2>1, <2>3 DEF WordsKept
  <2>5. WordsOf(items') \o Words(pending') = WordsOf(items')
    BY ONLY <1>3, pending' = pending, <2>2, NoWords, NothingMore
  <2> QED BY <1>2, <2>4, <2>5 DEF WordsKept
<1>6. Reasoned(items')
  BY <1>1, <1>3, ReasonedConcat DEF ResponsesInv
<1>7. \A id : /\ HasCall(items, id) => HasCall(items', id)
              /\ HasCall(t, id) => HasCall(items', id)
              /\ CallAnswered(items, id) => CallAnswered(items', id)
              /\ HasCall(items, id) /\ (\E k \in DOMAIN t : t[k].role = "function_call_output" /\ t[k].calls = <<id>>)
                    => CallAnswered(items', id)
  BY <1>3, CallsStay
<1>8. ASSUME NEW m \in 1..turn, messages[m].role = "assistant", NEW u \in ToSet(Of(messages[m], {"use"}))
      PROVE  HasCall(items', u.id)
  <2>1. CASE m = turn
    BY <1>2, <1>7, <1>8, <2>1
  <2>2. CASE m # turn
    <3>1. m \in 1..Over
      BY <1>2, <2>2
    <3> QED BY <1>1, <1>7, <1>8, <3>1 DEF ResponsesInv
  <2> QED BY <2>1, <2>2
<1>9. ASSUME NEW m \in 1..turn, messages[m].role = "user", NEW r \in ToSet(Results(messages[m]))
      PROVE  CallAnswered(items', r.id)
  <2>1. CASE m = turn
    <3>1. m \in DOMAIN messages
      BY <1>2, <2>1
    <3>2. PICK k \in 1..(m - 1) : /\ messages[k].role = "assistant"
                                  /\ \E u \in ToSet(Of(messages[k], {"use"})) : u.id = r.id
      BY <1>3, <1>9, <3>1, CallOfResult
    <3>3. k \in 1..Over
      BY <1>2, <2>1
    <3>4. HasCall(items, r.id)
      BY <1>1, <3>2, <3>3 DEF ResponsesInv
    <3> QED BY <1>2, <1>7, <1>9, <2>1, <3>4
  <2>2. CASE m # turn
    <3>1. m \in 1..Over
      BY <1>2, <2>2
    <3> QED BY <1>1, <1>7, <1>9, <3>1 DEF ResponsesInv
  <2> QED BY <2>1, <2>2
<1>10. ResponsesInv'
  BY <1>2, <1>3, <1>6, <1>8, <1>9 DEF ResponsesInv
<1> QED BY <1>2, <1>4, <1>5, <1>10 DEF ConverterInv

\* Where no call is made none lacks its reasoning.
LEMMA NoCallsReasoned ==
    ASSUME NEW s, \A i \in DOMAIN s : s[i].role # "function_call"
    PROVE  Reasoned(s)
BY DEF Reasoned

\* One item of some parts, or none.
OneOrNone(role, p) == IF p = <<>> THEN <<>> ELSE <<Item(role, p, <<>>)>>

\* Such an item has the words of its parts and makes no call.
LEMMA OneOrNoneSound ==
    ASSUME NEW role \in Roles, role # "function_call", NEW p \in Seq(ContentBlock)
    PROVE  /\ OneOrNone(role, p) \in Seq(ItemType) /\ WordsOf(OneOrNone(role, p)) = Words(p)
           /\ Reasoned(OneOrNone(role, p))
<1> DEFINE it == Item(role, p, <<>>)
<1>1. it \in ItemType /\ it.role = role /\ it.parts = p
  <2>1. <<>> \in Seq(Id)
    BY EmptyIsSeq
  <2> QED BY <2>1 DEF Item, ItemType
<1> HIDE DEF it
<1>2. <<it>> \in Seq(ItemType) /\ WordsOf(<<it>>) = Words(p)
  BY <1>1, WordsOfOne
<1>3. Reasoned(<<>>) /\ Reasoned(<<it>>)
  BY <1>1 DEF Reasoned
<1> QED BY <1>2, <1>3, NoWords, WordsOfEmpty, EmptyIsSeq DEF OneOrNone, it

\* A user message is a round of results and words.
LEMMA ResponsesUserKeeps ==
    ASSUME ConverterInv, ResponsesUser
    PROVE  ConverterInv'
<1> DEFINE m == messages[turn]  results == Results(m)  role == "function_call_output"
           s == [i \in DOMAIN results |-> Item(role, <<results[i]>>, <<results[i].id>>)]
           c == OneOrNone("user", Content(m))
<1>1. target = "responses" /\ Converting("user") /\ turn' = turn + 1 /\ pending' = pending
  BY DEF ResponsesUser
<1>2. messages[turn] \in Message /\ items \in Seq(ItemType)
  BY <1>1, OneMessage DEF ConverterInv, ConverterTypeOK
<1>3. items' = (items \o s) \o c
  BY DEF ResponsesUser, OneOrNone
<1>4. /\ s \in Seq(ItemType) /\ DOMAIN s = DOMAIN results /\ WordsOf(s) = <<>>
      /\ \A i \in DOMAIN s : s[i].role = role /\ s[i].calls = <<results[i].id>>
  <2>1. role \in Roles
    BY DEF Roles
  <2> HIDE DEF role
  <2> QED BY <1>2, <2>1, ResultItems
<1>5. c \in Seq(ItemType) /\ WordsOf(c) = Said(m) /\ Reasoned(c)
  <2>1. Content(m) \in Seq(ContentBlock) /\ Words(Content(m)) = Said(m)
    BY <1>1, <1>2, OfTyped, MessageWords DEF Content, Said, Converting
  <2>2. "user" \in Roles
    BY DEF Roles
  <2> QED BY <2>1, <2>2, OneOrNoneSound
<1> HIDE DEF c, s
<1>6. s \o c \in Seq(ItemType) /\ items' = items \o (s \o c)
  <2>1. items \o (s \o c) = (items \o s) \o c
    BY ONLY <1>2, <1>4, <1>5, ConcatThree
  <2>2. s \o c \in Seq(ItemType)
    BY <1>4, <1>5
  <2> QED BY <1>3, <2>1, <2>2
<1>7. Reasoned(s \o c)
  <2>1. Reasoned(s)
    BY <1>4, NoCallsReasoned
  <2> QED BY <1>4, <1>5, <2>1, ReasonedConcat
<1>8. WordsOf(s \o c) = Said(m)
  <2>1. WordsOf(s \o c) = WordsOf(s) \o WordsOf(c)
    BY <1>4, <1>5, WordsOfConcat
  <2>2. WordsOf(c) \in Seq(ContentBlock)
    BY <1>5, WordsOfTyped
  <2> QED BY ONLY <1>4, <1>5, <2>1, <2>2, NothingMore
<1>9. \A r \in ToSet(results) : \E k \in DOMAIN (s \o c) :
          (s \o c)[k].role = "function_call_output" /\ (s \o c)[k].calls = <<r.id>>
  <2> SUFFICES ASSUME NEW r \in ToSet(results)
               PROVE  \E k \in DOMAIN (s \o c) : (s \o c)[k].role = "function_call_output" /\ (s \o c)[k].calls = <<r.id>>
    OBVIOUS
  <2>1. PICK k \in DOMAIN s : results[k] = r
    BY <1>4 DEF ToSet
  <2>2. k \in DOMAIN (s \o c) /\ (s \o c)[k] = s[k]
    BY <1>4, <1>5, ConcatPlaces
  <2> QED BY <1>4, <2>1, <2>2
<1> DEFINE t == s \o c  asker == "user"
<1>10. /\ t \in Seq(ItemType) /\ items' = items \o t /\ Reasoned(t) /\ WordsOf(t) = Said(messages[turn])
       /\ asker = "user" => \A r \in ToSet(Results(messages[turn])) :
              \E k \in DOMAIN t : t[k].role = "function_call_output" /\ t[k].calls = <<r.id>>
  BY <1>6, <1>7, <1>8, <1>9
<1>11. asker # "assistant" /\ Converting(asker)
  BY <1>1
<1> HIDE DEF t, asker
<1> QED BY ONLY <1>1, <1>10, <1>11, ConverterInv, ResponsesRound

\* An assistant message is one of words and calls.
LEMMA ResponsesAssistantKeeps ==
    ASSUME ConverterInv, ResponsesAssistant
    PROVE  ConverterInv'
<1> DEFINE m == messages[turn]  b == Of(m, {"use"})  text == Of(m, {"text", "blank"})
           a == OneOrNone("assistant", text)  c == CallsOf(Ids(b))
<1>1. /\ target = "responses" /\ Converting("assistant") /\ turn' = turn + 1 /\ pending' = pending
      /\ m.role = "assistant"
  BY DEF ResponsesAssistant, Converting
<1>2. m \in Message /\ items \in Seq(ItemType)
  BY <1>1, OneMessage DEF ConverterInv, ConverterTypeOK
<1>3. items' = (items \o a) \o c
  BY DEF ResponsesAssistant, OneOrNone, Called, CallsOf
<1>4. a \in Seq(ItemType) /\ WordsOf(a) = Said(m) /\ Reasoned(a)
  <2>1. text \in Seq(ContentBlock) /\ Words(text) = Said(m)
    BY <1>1, <1>2, OfTyped, MessageWords DEF Said
  <2>2. "assistant" \in Roles
    BY DEF Roles
  <2> HIDE DEF text
  <2> QED BY <2>1, <2>2, OneOrNoneSound
<1>5. Ids(b) \in Seq(Id) /\ \A x \in ToSet(b) : \E i \in DOMAIN Ids(b) : Ids(b)[i] = x.id
  BY <1>2, OfTyped, IdsTyped
<1>6. /\ c \in Seq(ItemType) /\ WordsOf(c) = <<>> /\ Reasoned(c)
      /\ \A i \in DOMAIN Ids(b) : HasCall(c, Ids(b)[i])
  BY <1>5, CallsOfSound
<1> HIDE DEF a, b, c
<1>7. a \o c \in Seq(ItemType) /\ items' = items \o (a \o c)
  <2>1. items \o (a \o c) = (items \o a) \o c
    BY ONLY <1>2, <1>4, <1>6, ConcatThree
  <2>2. a \o c \in Seq(ItemType)
    BY <1>4, <1>6
  <2> QED BY <1>3, <2>1, <2>2
<1>8. Reasoned(a \o c)
  BY <1>4, <1>6, ReasonedConcat
<1>9. WordsOf(a \o c) = Said(m)
  <2>1. WordsOf(a \o c) = WordsOf(a) \o WordsOf(c)
    BY <1>4, <1>6, WordsOfConcat
  <2>2. WordsOf(a) \in Seq(ContentBlock)
    BY <1>4, WordsOfTyped
  <2> QED BY ONLY <1>4, <1>6, <2>1, <2>2, NothingMore
<1>10. \A u \in ToSet(b) : HasCall(a \o c, u.id)
  BY <1>4, <1>5, <1>6, CallsStay
<1> QED BY <1>1, <1>7, <1>8, <1>9, <1>10, ResponsesRound DEF b

\* A system message is one of words.
LEMMA ResponsesSystemKeeps ==
    ASSUME ConverterInv, ResponsesSystem
    PROVE  ConverterInv'
<1> DEFINE m == messages[turn]  text == SystemText(m)  t == OneOrNone("system", text)
<1>1. /\ target = "responses" /\ Converting("system") /\ turn' = turn + 1 /\ pending' = pending
      /\ m.role = "system"
  BY DEF ResponsesSystem, Converting
<1>2. m \in Message
  BY <1>1, OneMessage DEF ConverterInv
<1>3. items' = items \o t
  BY DEF ResponsesSystem, OneOrNone
<1>4. t \in Seq(ItemType) /\ WordsOf(t) = Said(m) /\ Reasoned(t)
  <2>1. text \in Seq(ContentBlock) /\ Words(text) = Said(m)
    BY <1>1, <1>2, OfTyped, MessageWords DEF Said, SystemText
  <2>2. "system" \in Roles
    BY DEF Roles
  <2> HIDE DEF text
  <2> QED BY <2>1, <2>2, OneOrNoneSound
<1> HIDE DEF t
<1> QED BY <1>1, <1>3, <1>4, ResponsesRound

\* The end changes no item.
LEMMA ResponsesEndsKeeps ==
    ASSUME ConverterInv, ResponsesEnds
    PROVE  ConverterInv'
<1>1. ConverterTypeOK /\ WordsKept /\ ResponsesInv
  BY DEF ConverterInv, ResponsesEnds
<1>2. /\ messages' = messages /\ target' = target /\ target = "responses" /\ pending' = pending
      /\ turn = Len(messages) + 1 /\ turn' = turn + 1 /\ items' = items
  BY DEF ResponsesEnds
<1>3. Len(messages) \in Nat
  BY <1>1, ConversationTyped DEF ConverterTypeOK
<1>4. Over = Len(messages) /\ Over' = Len(messages)
  BY <1>2, <1>3 DEF Over
<1>5. ConverterTypeOK'
  BY <1>1, <1>2, <1>3 DEF ConverterTypeOK
<1>6. WordsKept' /\ ResponsesInv'
  BY <1>1, <1>2, <1>4 DEF WordsKept, ResponsesInv
<1> QED BY <1>2, <1>5, <1>6 DEF ConverterInv

\* The invariant holds before the first message.
LEMMA ConverterStarts ==
    ASSUME ConverterInit
    PROVE  ConverterInv
<1> DEFINE it == Item("system", <<>>, <<>>)
<1>1. messages \in Conversations /\ turn = 1 /\ pending = <<>> /\ target \in {"chat", "responses"}
      /\ (items = <<>> \/ (target = "chat" /\ items = <<it>>))
  BY DEF ConverterInit
<1>2. Len(messages) \in Nat
  BY <1>1, ConversationTyped
<1>3. it \in ItemType /\ it.role = "system" /\ it.parts = <<>>
  <2>1. <<>> \in Seq(Id) /\ <<>> \in Seq(ContentBlock)
    BY EmptyIsSeq
  <2> QED BY <2>1 DEF Item, ItemType, Roles
<1> HIDE DEF it
<1>4. <<it>> \in Seq(ItemType) /\ WordsOf(<<it>>) = <<>>
  BY <1>3, WordsOfOne, NoWords
<1>5. items \in Seq(ItemType) /\ WordsOf(items) = <<>>
  BY <1>1, <1>4, WordsOfEmpty, EmptyIsSeq
<1>6. \A i \in DOMAIN items : i = 1 /\ items[i].role = "system"
  BY <1>1, <1>3
<1>7. Over = 0
  BY <1>1, <1>2 DEF Over
<1>8. ConverterTypeOK
  BY <1>1, <1>2, <1>5, EmptyIsSeq DEF ConverterTypeOK
<1>9. WordsKept
  <2>1. WordsOf(items) \o Words(pending) = <<>>
    <3>1. <<>> \o <<>> = <<>>
      OBVIOUS
    <3> QED BY <1>1, <1>5, <3>1, NoWords
  <2> QED BY <1>7, <2>1, SaidNothing DEF WordsKept
<1>10. target = "chat" => ChatInv
  <2>1. TextWaits
    BY <1>1 DEF TextWaits
  <2>2. TurnsPlain
    <3>1. \A B : PlainPairs(items, B)
      <4>1. \A i \in 1..(Len(items) - 1) : i \in DOMAIN items /\ i + 1 \in DOMAIN items
        BY <1>5
      <4> QED BY <1>6, <4>1 DEF PlainPairs
    <3>2. \A B : EndsPlain(items, B)
      <4>1. items # <<>> => Len(items) \in DOMAIN items
        BY <1>5
      <4> QED BY <1>6, <4>1 DEF EndsPlain
    <3> QED BY <3>1, <3>2 DEF TurnsPlain
  <2>3. ResultsTaken
    BY <1>1, <1>2, <1>7 DEF ResultsTaken
  <2>4. ToolsBehind(items)
    BY <1>6 DEF ToolsBehind
  <2> QED BY <2>1, <2>2, <2>3, <2>4 DEF ChatInv
<1>11. target = "responses" => ResponsesInv
  <2>1. Reasoned(items)
    BY <1>6 DEF Reasoned
  <2> QED BY <1>1, <1>7, <2>1 DEF ResponsesInv
<1> QED BY <1>8, <1>9, <1>10, <1>11 DEF ConverterInv

\* The invariant is a matter of the converter's variables.
LEMMA ConverterStuttersSound ==
    ASSUME ConverterInv, UNCHANGED converterVars
    PROVE  ConverterInv'
<1>1. target' = target /\ messages' = messages /\ turn' = turn /\ pending' = pending /\ items' = items
  BY DEF converterVars
<1>2. Over' = Over /\ Stray' = Stray /\ SystemBlocks' = SystemBlocks
  BY <1>1, SameMessages DEF Over
<1>3. ConverterTypeOK' = ConverterTypeOK
  BY <1>1 DEF ConverterTypeOK
<1>4. WordsKept' = WordsKept
  BY <1>1, <1>2 DEF WordsKept
<1>5. ChatInv => ChatInv'
  BY <1>1, <1>2 DEF ChatInv, TextWaits, TurnsPlain, ResultsTaken
<1>6. ResponsesInv => ResponsesInv'
  BY <1>1, <1>2 DEF ResponsesInv
<1> QED BY <1>1, <1>3, <1>4, <1>5, <1>6 DEF ConverterInv

\* The inductive invariant of the conversion.
THEOREM ConverterInvariance == ConverterSpec => []ConverterInv
<1>1. ConverterInit => ConverterInv
  BY ConverterStarts
<1>2. ConverterInv /\ [ConverterNext]_converterVars => ConverterInv'
  <2> SUFFICES ASSUME ConverterInv, [ConverterNext]_converterVars PROVE ConverterInv'
    OBVIOUS
  <2>1. CASE ChatUser
    BY <2>1, ChatUserKeeps
  <2>2. CASE ChatSystem
    BY <2>2, ChatSystemKeeps
  <2>3. CASE ChatAssistant
    BY <2>3, ChatAssistantKeeps
  <2>4. CASE ChatEnds
    BY <2>4, ChatEndsKeeps
  <2>5. CASE ResponsesUser
    BY <2>5, ResponsesUserKeeps
  <2>6. CASE ResponsesAssistant
    BY <2>6, ResponsesAssistantKeeps
  <2>7. CASE ResponsesSystem
    BY <2>7, ResponsesSystemKeeps
  <2>8. CASE ResponsesEnds
    BY <2>8, ResponsesEndsKeeps
  <2>9. CASE UNCHANGED converterVars
    BY <2>9, ConverterStuttersSound
  <2> QED BY <2>1, <2>2, <2>3, <2>4, <2>5, <2>6, <2>7, <2>8, <2>9 DEF ConverterNext
<1> QED BY <1>1, <1>2, PTL DEF ConverterSpec

\* Of a converted request the invariant says where every result stands.
LEMMA ChatResultsSound ==
    ASSUME ConverterTypeOK, ToolsBehind(items), ResultsTaken, Converted
    PROVE  ChatResultsFollow
<1>1. items \in Seq(ItemType) /\ Len(messages) \in Nat /\ Over = Len(messages)
  <2>1. items \in Seq(ItemType) /\ Len(messages) \in Nat
    BY ConversationTyped DEF ConverterTypeOK
  <2> QED BY <2>1 DEF Over, Converted
<1>2. ASSUME NEW i \in DOMAIN items, items[i].role = "tool"
      PROVE  \E j \in DOMAIN items : items[j].role = "assistant" /\ i \in ToolRun(j)
                                     /\ items[i].calls[1] \in ToSet(items[j].calls)
  <2>1. PICK j \in 1..(i - 1) : /\ items[j].role = "assistant" /\ items[i].calls[1] \in ToSet(items[j].calls)
                                /\ \A k \in j + 1..i : items[k].role = "tool"
    BY <1>2 DEF ToolsBehind
  <2>2. j \in DOMAIN items /\ i \in j + 1..Len(items)
    BY <1>1
  <2>3. i \in ToolRun(j)
    BY <2>1, <2>2 DEF ToolRun
  <2> QED BY <2>1, <2>2, <2>3
<1>3. \A m \in 1..(Len(messages) - 1) :
          messages[m].role = "assistant" /\ messages[m + 1].role = "user" =>
              \A r \in ToSet(Results(messages[m + 1])) :
                  \E i \in DOMAIN items : items[i].role = "tool" /\ items[i].calls = <<r.id>>
  <2>1. \A m \in 1..(Len(messages) - 1) : m + 1 <= Over
    BY <1>1
  <2> QED BY <2>1 DEF ResultsTaken, HasResult
<1> QED BY <1>2, <1>3 DEF ChatResultsFollow

\* However the messages follow each other: what a converted request says is what was
\* said, in its order; the results of calls stand where the target's protocol wants them
\* and are lost only where it has no place for them; and system text opens no turn.
THEOREM ConversionSound == ConverterSpec => []ConvertedSound
<1>1. ConverterInv => ConvertedSound
  <2> SUFFICES ASSUME ConverterInv, Converted
               PROVE  /\ WordsInOrder
                      /\ target = "chat" => SystemOpensNoTurn /\ ChatResultsFollow
                      /\ target = "responses" => ResponsesResultsFollow
    BY DEF ConvertedSound
  <2>1. ConverterTypeOK /\ WordsKept
    BY DEF ConverterInv
  <2>2. /\ items \in Seq(ItemType) /\ Len(messages) \in Nat /\ DOMAIN messages = 1..Len(messages)
        /\ turn = Len(messages) + 2 /\ Over = Len(messages)
    <3>1. items \in Seq(ItemType) /\ Len(messages) \in Nat /\ DOMAIN messages = 1..Len(messages)
      BY <2>1, ConversationTyped DEF ConverterTypeOK
    <3>2. turn = Len(messages) + 2 /\ Over = Len(messages)
      BY <3>1 DEF Over, Converted
    <3> QED BY <3>1, <3>2
  <2>3. pending = <<>>
    <3>1. ~(turn <= Len(messages) + 1)
      BY <2>2
    <3>2. target = "chat" \/ target = "responses"
      BY <2>1 DEF ConverterTypeOK
    <3> QED BY <3>1, <3>2 DEF ConverterInv, ChatInv, TextWaits, ResponsesInv
  <2>4. WordsInOrder
    <3>1. WordsOf(items) \in Seq(ContentBlock)
      BY <2>2, WordsOfTyped
    <3>2. WordsOf(items) \o Words(pending) = WordsOf(items)
      BY ONLY <2>3, <3>1, NoWords, NothingMore
    <3>3. WordsOf(items) = SaidIn(messages, Len(messages))
      BY <2>1, <2>2, <3>2 DEF WordsKept
    <3> QED BY ONLY <2>2, <3>3, Zenon DEF WordsInOrder, WordsOf, WordParts, SaidIn
  <2>5. ASSUME target = "chat" PROVE SystemOpensNoTurn /\ ChatResultsFollow
    <3>1. ChatInv
      BY <2>5 DEF ConverterInv
    <3>2. Stray = {} => PlainPairs(items, SystemBlocks)
      BY <3>1 DEF ChatInv, TurnsPlain
    <3>3. SystemOpensNoTurn
      <4> SUFFICES ASSUME Stray = {}, NEW i \in 1..(Len(items) - 1),
                          items[i].role = "user" /\ items[i + 1].role = "user", NEW k \in {i, i + 1}
                   PROVE  ~(ToSet(items[k].parts) \subseteq SystemBlocks)
        BY DEF SystemOpensNoTurn, SystemBlocks
      <4> QED BY <3>2 DEF PlainPairs, Plain
    <3> QED BY <2>1, <3>1, <3>3, ChatResultsSound DEF ChatInv
  <2>6. ASSUME target = "responses" PROVE ResponsesResultsFollow
    <3>1. ResponsesInv
      BY <2>6 DEF ConverterInv
    <3> QED BY <2>2, <3>1 DEF ResponsesInv, ResponsesResultsFollow, Reasoned, CallAnswered
  <2> QED BY <2>4, <2>5, <2>6
<1> QED BY <1>1, ConverterInvariance, PTL
=============================================================================
