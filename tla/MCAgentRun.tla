----------------------------- MODULE MCAgentRun -----------------------------
(* Instances of AgentRun for TLC: requests of one profile that compete for  *)
(* two places in its limiter and one in the gateway, with channels short    *)
(* enough to fill up.                                                       *)
EXTENDS AgentRun

CONSTANTS r1, r2, r3

Three == {r1, r2, r3}
One == {r1}
=============================================================================
