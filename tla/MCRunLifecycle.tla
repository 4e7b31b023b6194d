---------------------------- MODULE MCRunLifecycle ----------------------------
(* Two agents, one in a worktree whose request may be replayed, one not.     *)
EXTENDS RunLifecycle

CONSTANTS a1, a2

MCAgents == {a1, a2}
MCIsolated == {a1}
MCSafe == {a1}
================================================================================
