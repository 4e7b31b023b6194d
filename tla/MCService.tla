------------------------------- MODULE MCService -------------------------------
(* Two runs and two calls: a run that is left behind beside one that begins, *)
(* and an exclusive call beside another.                                     *)
EXTENDS ServiceLifecycle

CONSTANTS r1, r2, m1, m2

MCRuns == {r1, r2}
MCMutations == {m1, m2}
================================================================================
