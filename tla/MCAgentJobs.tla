---------------------------- MODULE MCAgentJobs ----------------------------
(* Instances of AgentJobs for TLC: one agent and the poll handlers it may   *)
(* have in progress.                                                        *)
EXTENDS AgentJobs, TLC

CONSTANTS a1, p1, p2

MCPollAgent == [p \in Polls |-> a1]

\* The poll handlers of the one agent are interchangeable.
PollSymmetry == Permutations({p1, p2})
=============================================================================
