---------------------------- MODULE MCAgentSession ----------------------------
(* AgentSession on small instances.  The clock is read in seconds; what    *)
(* matters is by how much it is ahead of the last counter of the agent's   *)
(* predecessor, or behind it.                                              *)
EXTENDS AgentSession

ClockRuns == {3}
===============================================================================
