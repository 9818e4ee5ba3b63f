------------------------------ MODULE Selections ------------------------------
(* List comprehensions of the router's request handling: what they keep of a *)
(* sequence, in its order.                                                   *)
EXTENDS Integers, Sequences, SequencesExt

\* The elements of s at some places.
Kept(s, places) ==
    FlattenSeq([i \in DOMAIN s |-> IF i \in places THEN <<s[i]>> ELSE <<>>])

\* The blocks of some kinds.
OfKinds(blocks, kinds) == Kept(blocks, {i \in DOMAIN blocks : blocks[i].kind \in kinds})
=============================================================================
