-------------------------- MODULE MCProviderAdmission --------------------------
(***************************************************************************)
(* Three attempts, one permit fewer, a threshold of two failures within a   *)
(* window of two ticks and a cooldown of one: reservations go stale in the  *)
(* queue while a running attempt opens, closes or reopens the circuit.      *)
(***************************************************************************)
EXTENDS ProviderAdmission
================================================================================
