----------------------------- MODULE EpanScopes ----------------------------
(***************************************************************************)
(* The lifetimes of a dissection: the three global wmem scopes             *)
(* (epan/wmem/wmem_scopes.c, wmem_core.c), the epan session and the        *)
(* epan_dissect_t objects with their pinfo pools (epan/epan.c,             *)
(* init_dissection and dissect_record in epan/packet.c).                   *)
(*                                                                         *)
(* The process has one thread. ScopesNext lets a caller make any call at   *)
(* any time; calls made while a dissection runs are those of dissectors and*)
(* taps. A g_assert that fails aborts the process: aborted, and nothing    *)
(* happens any more. The only rules a caller keeps are those whose breach  *)
(* is undefined behaviour: it uses an epan_dissect_t between its init and  *)
(* its cleanup, does not clean up the one that runs, frees what was        *)
(* allocated, and once.                                                    *)
(***************************************************************************)
EXTENDS Integers, FiniteSets

CONSTANTS Edt,      \* epan_dissect_t objects
          Pool,     \* pinfo pools; bounds how many exist at once
          Item,     \* names for what is allocated in an allocator
          NoEdt, NoPool

Scope == {"packet", "file", "epan"}
ScopeAllocator == Scope \cup Pool

ASSUME ScopesAssumption ==
    /\ NoEdt \notin Edt
    /\ NoPool \notin Pool
    /\ Scope \cap Pool = {}

VARIABLES initialised,       \* packet_scope, file_scope and epan_scope exist
          in_scope,          \* in_scope of packet_scope and of file_scope
          held,              \* what is allocated in each allocator
          pools,             \* the pinfo pools that exist
          edt_pool,          \* edt->pi.pool, or NoPool for an edt not in use
          pinfo_pool_cache,  \* one pool kept for reuse, or NoPool
          session,           \* an epan_t exists
          running,           \* the edt epan_dissect_run works on, or NoEdt
          aborted

epanVars == <<initialised, in_scope, held, pools, edt_pool, pinfo_pool_cache,
              session, running, aborted>>

scopeVars == <<initialised, in_scope>>
poolVars == <<pools, edt_pool, pinfo_pool_cache>>

-----------------------------------------------------------------------------
ScopesInit ==
    /\ initialised = FALSE
    /\ in_scope = [s \in {"packet", "file"} |-> FALSE]
    /\ held = [a \in ScopeAllocator |-> {}]
    /\ pools = {}
    /\ edt_pool = [e \in Edt |-> NoPool]
    /\ pinfo_pool_cache = NoPool
    /\ session = FALSE
    /\ running = NoEdt
    /\ aborted = FALSE

\* g_assert(false)
Abort ==
    /\ aborted' = TRUE
    /\ UNCHANGED <<scopeVars, held, poolVars, session, running>>

\* An allocator whose in_scope is TRUE; the epan scope and the pools are in
\* scope as long as they exist.
InScope(a) ==
    CASE a \in {"packet", "file"} -> initialised /\ in_scope[a]
      [] a = "epan" -> initialised
      [] OTHER -> a \in pools

\* wmem_free_all, for a set of allocators.
FreeAll(S) == held' = [a \in ScopeAllocator |-> IF a \in S THEN {} ELSE held[a]]

-----------------------------------------------------------------------------
\* wmem_alloc asserts that the allocator is in scope; a caller has a pinfo
\* pool only from an edt in use.
WmemAlloc(a, x) ==
    /\ x \notin held[a]
    /\ a \in Pool => \E e \in Edt : edt_pool[e] = a
    /\ IF InScope(a)
       THEN /\ held' = [held EXCEPT ![a] = @ \cup {x}]
            /\ UNCHANGED <<scopeVars, poolVars, session, running, aborted>>
       ELSE Abort

WmemFree(a, x) ==
    /\ x \in held[a]
    /\ IF InScope(a)
       THEN /\ held' = [held EXCEPT ![a] = @ \ {x}]
            /\ UNCHANGED <<scopeVars, poolVars, session, running, aborted>>
       ELSE Abort

\* epan_init: wmem_init_scopes asserts that no scope exists. That it reports a
\* DissectorError from the registration leaves the scopes initialised.
EpanInit ==
    IF ~initialised
    THEN /\ initialised' = TRUE
         /\ in_scope' = [s \in {"packet", "file"} |-> FALSE]
         /\ UNCHANGED <<held, poolVars, session, running, aborted>>
    ELSE Abort

\* epan_cleanup: the cached pool is destroyed, then wmem_cleanup_scopes asserts
\* that neither scope is entered and destroys the three.
EpanCleanup ==
    IF initialised /\ ~in_scope["packet"] /\ ~in_scope["file"]
    THEN /\ initialised' = FALSE
         /\ pinfo_pool_cache' = NoPool
         /\ pools' = pools \ {pinfo_pool_cache}
         /\ FreeAll(Scope \cup ({pinfo_pool_cache} \cap Pool))
         /\ UNCHANGED <<in_scope, edt_pool, session, running, aborted>>
    ELSE Abort

\* epan_new: init_dissection enters the file scope.
EpanNew ==
    IF initialised /\ ~in_scope["file"]
    THEN /\ in_scope' = [in_scope EXCEPT !["file"] = TRUE]
         /\ session' = TRUE
         /\ UNCHANGED <<initialised, held, poolVars, running, aborted>>
    ELSE Abort

\* Mutant: the file scope is left without being freed.
EpanFree_KeepsMemory ==
    /\ session
    /\ IF initialised /\ in_scope["file"] /\ ~in_scope["packet"]
       THEN /\ in_scope' = [in_scope EXCEPT !["file"] = FALSE]
            /\ session' = FALSE
            /\ UNCHANGED <<initialised, held, poolVars, running, aborted>>
       ELSE Abort

\* epan_free of the session: cleanup_dissection leaves the file scope, which
\* frees it and collects both scopes' garbage.
EpanFree ==
    /\ session
    /\ IF initialised /\ in_scope["file"] /\ ~in_scope["packet"]
       THEN /\ FreeAll({"file"})
            /\ in_scope' = [in_scope EXCEPT !["file"] = FALSE]
            /\ session' = FALSE
            /\ UNCHANGED <<initialised, poolVars, running, aborted>>
       ELSE Abort

\* Mutant: a pool taken from the cache stays there.
EpanDissectInit_KeepsCache(e) ==
    /\ edt_pool[e] = NoPool
    /\ IF pinfo_pool_cache # NoPool
       THEN /\ edt_pool' = [edt_pool EXCEPT ![e] = pinfo_pool_cache]
            /\ UNCHANGED <<pools, pinfo_pool_cache>>
       ELSE \E p \in Pool \ pools :
               /\ edt_pool' = [edt_pool EXCEPT ![e] = p]
               /\ pools' = pools \cup {p}
               /\ UNCHANGED pinfo_pool_cache
    /\ UNCHANGED <<scopeVars, held, session, running, aborted>>

\* epan_dissect_init: the cached pool, or a new one.
EpanDissectInit(e) ==
    /\ edt_pool[e] = NoPool
    /\ IF pinfo_pool_cache # NoPool
       THEN /\ edt_pool' = [edt_pool EXCEPT ![e] = pinfo_pool_cache]
            /\ pinfo_pool_cache' = NoPool
            /\ UNCHANGED pools
       ELSE \E p \in Pool \ pools :
               /\ edt_pool' = [edt_pool EXCEPT ![e] = p]
               /\ pools' = pools \cup {p}
               /\ UNCHANGED pinfo_pool_cache
    /\ UNCHANGED <<scopeVars, held, session, running, aborted>>

\* epan_dissect_reset
EpanDissectReset(e) ==
    /\ edt_pool[e] # NoPool /\ e # running
    /\ FreeAll({edt_pool[e]})
    /\ UNCHANGED <<scopeVars, poolVars, session, running, aborted>>

\* Mutant: a pool the cache has no place for is emptied, not destroyed.
EpanDissectCleanup_Leaks(e) ==
    /\ edt_pool[e] # NoPool /\ e # running
    /\ FreeAll({edt_pool[e]})
    /\ edt_pool' = [edt_pool EXCEPT ![e] = NoPool]
    /\ pinfo_pool_cache' = IF pinfo_pool_cache = NoPool THEN edt_pool[e] ELSE pinfo_pool_cache
    /\ UNCHANGED <<scopeVars, pools, session, running, aborted>>

\* Mutant: the pool goes to the cache as it is.
EpanDissectCleanup_NoFree(e) ==
    /\ edt_pool[e] # NoPool /\ e # running
    /\ edt_pool' = [edt_pool EXCEPT ![e] = NoPool]
    /\ IF pinfo_pool_cache = NoPool
       THEN pinfo_pool_cache' = edt_pool[e] /\ UNCHANGED <<pools, held>>
       ELSE /\ pools' = pools \ {edt_pool[e]} /\ UNCHANGED pinfo_pool_cache
            /\ FreeAll({edt_pool[e]})
    /\ UNCHANGED <<scopeVars, session, running, aborted>>

\* epan_dissect_cleanup: the pool is emptied and cached, or destroyed when the
\* cache is taken.
EpanDissectCleanup(e) ==
    /\ edt_pool[e] # NoPool /\ e # running
    /\ FreeAll({edt_pool[e]})
    /\ edt_pool' = [edt_pool EXCEPT ![e] = NoPool]
    /\ IF pinfo_pool_cache = NoPool
       THEN pinfo_pool_cache' = edt_pool[e] /\ UNCHANGED pools
       ELSE pools' = pools \ {edt_pool[e]} /\ UNCHANGED pinfo_pool_cache
    /\ UNCHANGED <<scopeVars, session, running, aborted>>

\* Mutant: wmem_enter_packet_scope does not look at the file scope.
RunBegin_AnyScope(e) ==
    /\ edt_pool[e] # NoPool
    /\ IF initialised /\ ~in_scope["packet"]
       THEN /\ in_scope' = [in_scope EXCEPT !["packet"] = TRUE]
            /\ running' = e
            /\ UNCHANGED <<initialised, held, poolVars, session, aborted>>
       ELSE Abort

\* epan_dissect_run up to dissect_record: wmem_enter_packet_scope.
RunBegin(e) ==
    /\ edt_pool[e] # NoPool
    /\ IF initialised /\ in_scope["file"] /\ ~in_scope["packet"]
       THEN /\ in_scope' = [in_scope EXCEPT !["packet"] = TRUE]
            /\ running' = e
            /\ UNCHANGED <<initialised, held, poolVars, session, aborted>>
       ELSE Abort

\* Mutant: the packet scope is freed but stays entered.
RunEnd_StaysEntered ==
    /\ running # NoEdt
    /\ IF in_scope["packet"]
       THEN /\ FreeAll({"packet"})
            /\ running' = NoEdt
            /\ UNCHANGED <<scopeVars, poolVars, session, aborted>>
       ELSE Abort

\* dissect_record has returned: wmem_leave_packet_scope.
RunEnd ==
    /\ running # NoEdt
    /\ IF in_scope["packet"]
       THEN /\ FreeAll({"packet"})
            /\ in_scope' = [in_scope EXCEPT !["packet"] = FALSE]
            /\ running' = NoEdt
            /\ UNCHANGED <<initialised, poolVars, session, aborted>>
       ELSE Abort

\* An exception dissect_record does not catch goes past epan_dissect_run, which
\* has no handler and so never leaves the packet scope: to a handler of the
\* caller, or to none at all, which is an abort.
RunEscape ==
    /\ running # NoEdt
    /\ \/ /\ running' = NoEdt
          /\ UNCHANGED <<scopeVars, held, poolVars, session, aborted>>
       \/ Abort

ScopesNext ==
    \/ \E a \in ScopeAllocator, x \in Item : ~aborted /\ WmemAlloc(a, x)
    \/ \E a \in ScopeAllocator, x \in Item : ~aborted /\ WmemFree(a, x)
    \/ ~aborted /\ EpanInit
    \/ ~aborted /\ EpanCleanup
    \/ ~aborted /\ EpanNew
    \/ ~aborted /\ EpanFree
    \/ \E e \in Edt : ~aborted /\ EpanDissectInit(e)
    \/ \E e \in Edt : ~aborted /\ EpanDissectReset(e)
    \/ \E e \in Edt : ~aborted /\ EpanDissectCleanup(e)
    \/ \E e \in Edt : ~aborted /\ RunBegin(e)
    \/ ~aborted /\ RunEnd
    \/ ~aborted /\ RunEscape

ScopesSpec == ScopesInit /\ [][ScopesNext]_epanVars

-----------------------------------------------------------------------------
ScopesTypeOK ==
    /\ initialised \in BOOLEAN
    /\ in_scope \in [{"packet", "file"} -> BOOLEAN]
    /\ held \in [ScopeAllocator -> SUBSET Item]
    /\ pools \subseteq Pool
    /\ edt_pool \in [Edt -> Pool \cup {NoPool}]
    /\ pinfo_pool_cache \in Pool \cup {NoPool}
    /\ session \in BOOLEAN
    /\ running \in Edt \cup {NoEdt}
    /\ aborted \in BOOLEAN

\* A dissection runs inside the packet scope, the packet scope inside the file
\* scope, and the file scope is entered exactly while a session exists. The
\* assertions of wmem_scopes.c enforce it whatever a caller does, an exception
\* that escapes epan_dissect_run included.
ScopesNest ==
    /\ running # NoEdt => in_scope["packet"]
    /\ in_scope["packet"] => in_scope["file"]
    /\ in_scope["file"] <=> session
    /\ session => initialised

\* Nothing stays allocated in a scope that is not entered: no packet keeps
\* memory of an earlier one, no file of an earlier one, and epan_cleanup
\* leaves nothing behind.
NothingOutlivesItsScope ==
    /\ \A s \in {"packet", "file"} : ~in_scope[s] => held[s] = {}
    /\ ~initialised => held["epan"] = {}
    /\ \A p \in Pool \ pools : held[p] = {}

\* Every pinfo pool that exists has one owner: an edt in use or the cache.
PoolsOwnedOnce ==
    /\ \A e, f \in Edt : e # f /\ edt_pool[e] # NoPool => edt_pool[e] # edt_pool[f]
    /\ pinfo_pool_cache # NoPool => \A e \in Edt : edt_pool[e] # pinfo_pool_cache

\* No pool is leaked, and none is used after it was destroyed.
NoPoolLeaks ==
    pools = ({edt_pool[e] : e \in Edt} \cup {pinfo_pool_cache}) \ {NoPool}

\* Every pool is accounted for, through init, cleanup and the one-pool cache:
\* two dissections never share one, and none is lost.
PoolsAccountedFor == PoolsOwnedOnce /\ NoPoolLeaks

\* The pool that is handed to the next edt holds nothing of an earlier one.
CachedPoolEmpty == pinfo_pool_cache # NoPool => held[pinfo_pool_cache] = {}

\* The pools between dissections, as a whole: the memory one dissection gave
\* back is handed to the next only through the cache, empty and to one.
PoolsSafe == PoolsAccountedFor /\ CachedPoolEmpty

\* While a dissection runs, its edt keeps its pool, and only wmem_free takes
\* something out of it: no call for another edt, no session and no cleanup
\* disturbs it.
DisturbsNoRun ==
    running # NoEdt /\ running' = running =>
        LET p == edt_pool[running]
        IN  /\ edt_pool'[running] = p
            /\ held[p] \subseteq held'[p] \/ \E x \in Item : WmemFree(p, x)

RunKeepsItsPool == [][DisturbsNoRun]_epanVars

-----------------------------------------------------------------------------
(***************************************************************************)
(* The order of calls the callers in the repository keep: epan_init comes  *)
(* first and once, sessions do not overlap, a dissection is run within a   *)
(* session and is not interrupted by another, everything it may throw is   *)
(* caught by dissect_record, and scoped memory is used in its scope.       *)
(***************************************************************************)
OrderlyNext ==
    \/ \E a \in ScopeAllocator, x \in Item :
          InScope(a) /\ (WmemAlloc(a, x) \/ WmemFree(a, x))
    \/ ~initialised /\ EpanInit
    \/ initialised /\ ~session /\ (EpanCleanup \/ EpanNew)
    \/ running = NoEdt /\ EpanFree
    \/ \E e \in Edt : \/ EpanDissectInit(e) \/ EpanDissectReset(e) \/ EpanDissectCleanup(e)
                      \/ session /\ running = NoEdt /\ RunBegin(e)
    \/ RunEnd

OrderlySpec == ScopesInit /\ [][OrderlyNext]_epanVars

\* No assertion of wmem_scopes.c or wmem_core.c fails for a caller that keeps
\* the order.
NeverAborts == ~aborted

=============================================================================
