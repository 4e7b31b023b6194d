------------------------------ MODULE MCHalfOpen ------------------------------
(***************************************************************************)
(* What the comments of the circuit breaker promise of a recovery, when     *)
(* attempts started before the outage keep their permits and reservations   *)
(* of probes wait in the scheduler's queue meanwhile.                       *)
(***************************************************************************)
EXTENDS ProviderAdmission

Contending(c) == stage[c] \in {"entering", "admitted", "queued", "granted"}

\* Not an attempt that is cancelled while it contends, or that arrives.
Calm(c) ==
  /\ Contending(c) => stage'[c] # "idle"
  /\ stage[c] = "idle" => stage'[c] = "idle"

\* "Let a different queued call probe immediately instead of holding the
\* circuit half-open forever" (executionReliability.ts): once nobody arrives
\* or is cancelled at the gate any more, a gate whose cooldown has passed
\* lets one of the attempts contending for it call the provider.
ProbeGetsThrough ==
  <>[][\A c \in Callers : Calm(c)]_vars =>
    ((open /\ cooling = 0 /\ \E c \in Callers : Contending(c))
       ~> (\E c \in Callers : stage[c] = "running")
            \/ ~\E c \in Callers : Contending(c))
================================================================================
