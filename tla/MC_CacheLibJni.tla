---------------------------- MODULE MC_CacheLibJni ----------------------------
(* Small instances of CacheLibJni for TLC. *)
EXTENDS CacheLibJni

CONSTANTS t1, t2, k1, v1, v2

MCThreads == {t1, t2}
MCKeys == {k1}
MCVals == {v1, v2}
MCOneThread == {t1}
MCOneVal == {v1}

\* A configuration for each way the constructor can end: an in-process
\* cache, a persistent one (creates a segment, later attached), a file that
\* does not open, pools that do not fit, and no pools at all.
MCCfgs ==
  { [open |-> TRUE,  numPools |-> 1, sizes |-> 1, persist |-> FALSE, fit |-> 1],
    [open |-> TRUE,  numPools |-> 1, sizes |-> 1, persist |-> TRUE,  fit |-> 1],
    [open |-> FALSE, numPools |-> 1, sizes |-> 1, persist |-> FALSE, fit |-> 1],
    [open |-> TRUE,  numPools |-> 1, sizes |-> 1, persist |-> TRUE,  fit |-> 0],
    [open |-> TRUE,  numPools |-> 0, sizes |-> 0, persist |-> FALSE, fit |-> 0] }

\* The persistent configurations only, for the attach path.
MCPersistCfgs ==
  { [open |-> TRUE, numPools |-> 1, sizes |-> 1, persist |-> TRUE, fit |-> 1] }
=============================================================================
