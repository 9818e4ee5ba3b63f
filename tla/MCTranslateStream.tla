---------------------------- MODULE MCTranslateStream ----------------------------
(* The streamed requests of both kinds of provider for TLC: one of a         *)
(* translate provider, and when nothing of it is left one of a passthrough   *)
(* provider; when both are over the system stutters.                         *)
EXTENDS TranslateStream, Passthrough

Finished ==
    /\ transport = "finished" /\ pending = "none"
    /\ gen # "abandoned" /\ keepalive \notin {"abandoned", "finalizing"}

MCInit == Init /\ RelayInit

MCNext ==
    \/ Next /\ UNCHANGED relayVars
    \/ Finished /\ RelayNext /\ UNCHANGED vars
    \/ Finished /\ relay = "over" /\ UNCHANGED <<vars, relayVars>>

MCSpec == MCInit /\ [][MCNext]_<<vars, relayVars>>

MCFairSpec == MCSpec /\ Fairness /\ RelayFairness

\* The inductive invariants of the two.
StreamsInv == StreamInv /\ RelayInv

\* Either provider's request is reported once, by whichever of wrapper, release and
\* failure comes first.
KeepPromises == KeepsPromise /\ RelayKeepsPromise

\* Either request comes to its end with everything given back.
EverythingOver == EverythingEnds /\ RelayEnds
=============================================================================
