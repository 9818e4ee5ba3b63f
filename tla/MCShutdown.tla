------------------------------ MODULE MCShutdown ------------------------------
(* Small instance of Shutdown for TLC: two connections of the proxy, one of *)
(* the ASGI listener.  A process that ended takes no more steps.            *)
EXTENDS Shutdown

CONSTANTS c1, c2, c3

Stopped == process = "ended" /\ UNCHANGED stopVars
MCSpec == StopInit /\ [][StopNext \/ Stopped]_stopVars
MCFairSpec == MCSpec /\ StopFairness
=============================================================================
