----------------------------- MODULE MCDataVolume -----------------------------
EXTENDS DataVolume

MCPaths == <<"approvals", "layout.json", "store">>
================================================================================
