------------------------------ MODULE MCRecovery ------------------------------
EXTENDS Recovery
CONSTANTS k1, c1, c2
MCUnsafe == {1}
MCFailing == {1}
MCPolicies == {TRUE}
MCRequests == {<<c1, k1, "original">>, <<c2, k1, "source">>, <<c2, NoKey, "args">>}
===============================================================================
