----------------------------- MODULE MCStoreLease -----------------------------
(***************************************************************************)
(* Three processes that start, stop and crash on one store directory, with  *)
(* up to two writes in flight each.                                         *)
(***************************************************************************)
EXTENDS StoreLease

\* "It can never unlink a generation created after its stale-owner inspection"
\* (fileWorkflowStore.ts, acquireLease): the rename of a reclaimer moves the
\* lock it judged stale, or none.
ReclaimsWhatItInspected == ~raced
================================================================================
