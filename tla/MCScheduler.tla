------------------------------ MODULE MCScheduler ------------------------------
(***************************************************************************)
(* Four callers of three runs on one permit: one run can queue a burst while *)
(* the others wait with one call each.                                      *)
(***************************************************************************)
EXTENDS WorkConservingScheduler

CONSTANTS a1, a2, b1, c1, A, B, C

MCCallers == {a1, a2, b1, c1}
MCKeys == {A, B, C}
MCKeyOf == (a1 :> A) @@ (a2 :> A) @@ (b1 :> B) @@ (c1 :> C)
================================================================================
