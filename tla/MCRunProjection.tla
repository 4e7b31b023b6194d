---------------------------- MODULE MCRunProjection ----------------------------
EXTENDS RunProjection

CONSTANTS Build, Review, Child
================================================================================
