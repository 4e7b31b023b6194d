------------------------------- MODULE WriteGate -------------------------------
(***************************************************************************)
(* The write gate of src/workflowWriteCoordinator.ts, one per process that  *)
(* opened the store: every durable write is a permit that verifies the      *)
(* lease when it enters and again when its operation is done.  The lease    *)
(* itself, and what `owned` means, belong to the module that extends this.  *)
(***************************************************************************)
EXTENDS Naturals

CONSTANTS
  Owners,       \* processes that open the same store directory
  MaxPermits    \* bound on the writes one process has in flight

ASSUME GateAssumption == MaxPermits \in Nat \ {0}

VARIABLES
  gate,      \* the owners whose gate is open (#open)
  active,    \* #active: the permits each owner has issued and not got back
  acked      \* the owners whose latest write returned without an error

gateVars == <<gate, active, acked>>

GateTypeOK ==
  /\ gate \subseteq Owners
  /\ active \in [Owners -> 0..MaxPermits]
  /\ acked \subseteq Owners

GateInit ==
  /\ gate = {}
  /\ active = [o \in Owners |-> 0]
  /\ acked = {}

OpenGate(o) ==
  /\ gate' = gate \cup {o}
  /\ acked' = acked \ {o}
  /\ UNCHANGED active

\* The synchronous part of closeAndDrain(): nothing enters from here on.
CloseGate(o) == gate' = gate \ {o} /\ UNCHANGED <<active, acked>>

Drained(o) == active[o] = 0

\* #enter: admitted if the lease still verifies; if not, the gate closes.
Enter(o, owned) ==
  /\ o \in gate
  /\ \/ /\ owned /\ active[o] < MaxPermits
        /\ active' = [active EXCEPT ![o] = @ + 1]
        /\ acked' = acked \ {o}
        /\ UNCHANGED gate
     \/ ~owned /\ CloseGate(o)

\* Mutant of Finish: no verification after the operation.
Finish_Unverified(o, owned) ==
  /\ active[o] > 0
  /\ active' = [active EXCEPT ![o] = @ - 1]
  /\ acked' = acked \cup {o}
  /\ UNCHANGED gate

\* The operation is done: verified and acknowledged, or refused and the gate
\* closed; #leave in either case.
Finish(o, owned) ==
  /\ active[o] > 0
  /\ active' = [active EXCEPT ![o] = @ - 1]
  /\ IF owned
     THEN acked' = acked \cup {o} /\ UNCHANGED gate
     ELSE acked' = acked \ {o} /\ gate' = gate \ {o}

\* The operation throws: #leave without verification.
Abandon(o) ==
  /\ active[o] > 0
  /\ active' = [active EXCEPT ![o] = @ - 1]
  /\ acked' = acked \ {o}
  /\ UNCHANGED gate

\* The process dies with its gate and its permits.
LoseGate(o) ==
  /\ gate' = gate \ {o}
  /\ active' = [active EXCEPT ![o] = 0]
  /\ acked' = acked \ {o}
================================================================================
