--------------------------- MODULE MCQuotaClient ---------------------------
(* Small instances of QuotaClient: a stagger, margin and poll of the same   *)
(* order, so that a window can close again between two slots.               *)
EXTENDS QuotaClient

CONSTANTS r1, r2, r3

\* TLC explores only requests that can still end: done when all are final or
\* can no longer arrive.
AllOver == \A r \in Requests : phase[r] \in Final \/ (phase[r] = "idle" /\ now >= StartBy)
Finished == AllOver /\ UNCHANGED clientVars
MCContractSpec == ClientInit /\ [][ContractNext \/ Finished]_clientVars /\ Fairness
MCWiredSpec == ClientInit /\ [][WiredNext \/ Finished]_clientVars
=============================================================================
