---------------------------- MODULE MCEpanScopes ---------------------------
(***************************************************************************)
(* Small instances of EpanScopes and of WmemCallbacks for TLC: one per     *)
(* behaviour.  MCEpanScopes remembers whether the caller of the scopes has *)
(* kept the order of OrderlyNext so far.                                   *)
(***************************************************************************)
EXTENDS EpanScopes, WmemCallbacks

CONSTANTS e1, e2, p1, p2, p3, x1, epan, file, m1, m2

VARIABLES part,      \* "scopes" or "callbacks"
          orderly

MCInit == part \in {"scopes", "callbacks"} /\ orderly = TRUE /\ ScopesInit /\ Init

MCNext ==
    /\ UNCHANGED part
    /\ \/ /\ part = "scopes" /\ ScopesNext /\ UNCHANGED vars
          /\ orderly' = (orderly /\ OrderlyNext)
       \/ part = "callbacks" /\ Next /\ UNCHANGED <<epanVars, orderly>>

MCVars == <<part, orderly, epanVars, vars>>

MCSpec == MCInit /\ [][MCNext]_MCVars /\ WF_vars(WalkStep)

\* As long as a caller keeps the order of the repository's callers, no
\* assertion of wmem_scopes.c or wmem_core.c fails, two dissections and
\* sessions after each other included.
OrderlyCallersSafe == orderly => NeverAborts

=============================================================================
