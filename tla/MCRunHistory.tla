----------------------------- MODULE MCRunHistory -----------------------------
(***************************************************************************)
(* One run with room for a few events, and what the store says of readers   *)
(* and of startup.                                                          *)
(***************************************************************************)
EXTENDS RunHistory

\* "The manifest is the published commit boundary even though the append-only
\* file intentionally reaches disk first" (fileWorkflowStore.ts, #events): no
\* page that readEvents() returns ends beyond it.
PagesEndAtManifest ==
  [][\A r \in Readers : after'[r] # after[r] => after'[r] <= manifest.cursor]_vars

\* "One historical run is not the service's availability boundary"
\* (fileWorkflowStore.ts, #initialize): no run, only a failing file operation,
\* keeps the service from starting.
StartupAvailable == host # "refused"
================================================================================
