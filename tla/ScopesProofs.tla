---------------------------- MODULE ScopesProofs ----------------------------
(***************************************************************************)
(* Proofs about what lives how long: the scopes, sessions and pools, and   *)
(* what is told when an allocator is freed or destroyed.                   *)
(*                                                                         *)
(* EpanScopes, for every set of edts, pools and items, and its instance    *)
(* MCEpanScopes, whose specification remembers whether the caller has kept *)
(* the order so far. No invariant of the module is inductive alone: that a *)
(* cached pool stays empty needs that no edt owns it, that no pool leaks   *)
(* needs that owners differ, and that a scope which is left is empty needs *)
(* that allocating asserts it is entered. ScopesIInv is their conjunction; *)
(* each action has its own lemma.                                          *)
(*                                                                         *)
(* WmemCallbacks, for any allocators and maps: the lists are sound, also   *)
(* while they are walked, and the autoreset maps follow the two allocators *)
(* they live in. The lists are linked newest first, so that a list is      *)
(* known from who registered what: own gives the allocator of each         *)
(* container, the head of a list is the greatest id of its allocator, and  *)
(* next is the greatest of those below. A walk goes down the ids.          *)
(***************************************************************************)
EXTENDS MCEpanScopes, WellFoundedInduction, FiniteSetTheorems, TLAPS

-----------------------------------------------------------------------------
(***************************************************************************)
(* EpanScopes.                                                             *)
(***************************************************************************)

Scoping == ScopesNest /\ NothingOutlivesItsScope
Pools == PoolsOwnedOnce /\ NoPoolLeaks /\ CachedPoolEmpty

\* The inductive invariant.
ScopesIInv == ScopesTypeOK /\ Scoping /\ Pools

\* The initial state satisfies it.
LEMMA InitInv == ScopesInit => ScopesIInv
<1> SUFFICES ASSUME ScopesInit PROVE ScopesIInv
  OBVIOUS
<1>1. ScopesTypeOK
  BY DEF ScopesInit, ScopesTypeOK
<1>2. Scoping
  BY ScopesAssumption
  DEF ScopesInit, Scoping, ScopesNest, NothingOutlivesItsScope, ScopeAllocator, Scope
<1>3. Pools
  <2>1. PoolsOwnedOnce /\ CachedPoolEmpty
    BY DEF ScopesInit, PoolsOwnedOnce, CachedPoolEmpty
  <2>2. NoPoolLeaks
    BY DEF ScopesInit, NoPoolLeaks
  <2> QED BY <2>1, <2>2 DEF Pools
<1> QED BY <1>1, <1>2, <1>3 DEF ScopesIInv

\* A failed assertion changes nothing the invariant speaks of.
LEMMA AbortInv == ScopesIInv /\ Abort => ScopesIInv'
BY DEF Abort, ScopesIInv, ScopesTypeOK, Scoping, Pools, ScopesNest, scopeVars, poolVars,
   NothingOutlivesItsScope, PoolsOwnedOnce, NoPoolLeaks, CachedPoolEmpty

\* wmem_alloc keeps it: the scope is entered, and the cached pool has no user.
LEMMA AllocInv ==
    ASSUME NEW a \in ScopeAllocator, NEW x \in Item, ScopesIInv, WmemAlloc(a, x)
    PROVE  ScopesIInv'
<1>1. CASE ~InScope(a)
  BY <1>1, AbortInv DEF WmemAlloc
<1>2. CASE InScope(a)
  <2>1. /\ held' = [held EXCEPT ![a] = @ \cup {x}]
        /\ UNCHANGED <<initialised, in_scope, pools, edt_pool, pinfo_pool_cache,
                       session, running, aborted>>
    BY <1>2 DEF WmemAlloc, scopeVars, poolVars
  <2>2. ScopesTypeOK'
    BY <2>1 DEF ScopesIInv, ScopesTypeOK
  <2>3. Scoping'
    BY <1>2, <2>1, ScopesAssumption
    DEF ScopesIInv, ScopesTypeOK, Scoping, ScopesNest, NothingOutlivesItsScope, InScope,
        ScopeAllocator, Scope
  <2>4. Pools'
    <3>1. a \in Pool => \E e \in Edt : edt_pool[e] = a
      BY DEF WmemAlloc
    <3>2. pinfo_pool_cache # NoPool => a # pinfo_pool_cache
      BY <3>1, ScopesAssumption
      DEF ScopesIInv, ScopesTypeOK, Pools, PoolsOwnedOnce, ScopeAllocator, Scope
    <3> QED
      BY <2>1, <3>2
      DEF ScopesIInv, ScopesTypeOK, Pools, PoolsOwnedOnce, NoPoolLeaks, CachedPoolEmpty
  <2> QED BY <2>2, <2>3, <2>4 DEF ScopesIInv
<1> QED BY <1>1, <1>2

\* wmem_free takes something away from one allocator.
LEMMA FreeInv ==
    ASSUME NEW a \in ScopeAllocator, NEW x \in Item, ScopesIInv, WmemFree(a, x)
    PROVE  ScopesIInv'
<1>1. CASE ~InScope(a)
  BY <1>1, AbortInv DEF WmemFree
<1>2. CASE InScope(a)
  <2>1. /\ held' = [held EXCEPT ![a] = @ \ {x}]
        /\ UNCHANGED <<initialised, in_scope, pools, edt_pool, pinfo_pool_cache,
                       session, running, aborted>>
    BY <1>2 DEF WmemFree, scopeVars, poolVars
  <2>2. ScopesTypeOK'
    BY <2>1 DEF ScopesIInv, ScopesTypeOK
  <2>3. \A b \in ScopeAllocator : held[b] = {} => held'[b] = {}
    BY <2>1 DEF ScopesIInv, ScopesTypeOK
  <2>4. Scoping'
    BY <2>1, <2>3
    DEF ScopesIInv, Scoping, ScopesNest, NothingOutlivesItsScope, ScopeAllocator, Scope
  <2>5. Pools'
    <3>1. CachedPoolEmpty'
      BY <2>1, <2>3 DEF ScopesIInv, ScopesTypeOK, Pools, CachedPoolEmpty, ScopeAllocator
    <3>2. PoolsOwnedOnce' /\ NoPoolLeaks'
      BY <2>1 DEF ScopesIInv, Pools, PoolsOwnedOnce, NoPoolLeaks
    <3> QED BY <3>1, <3>2 DEF Pools
  <2> QED BY <2>2, <2>4, <2>5 DEF ScopesIInv
<1> QED BY <1>1, <1>2

\* epan_init finds every scope empty: a previous epan_cleanup emptied it.
LEMMA EpanInitInv == ScopesIInv /\ EpanInit => ScopesIInv'
<1> SUFFICES ASSUME ScopesIInv, EpanInit PROVE ScopesIInv'
  OBVIOUS
<1>1. CASE initialised
  BY <1>1, AbortInv DEF EpanInit
<1>2. CASE ~initialised
  <2>1. /\ initialised' = TRUE
        /\ in_scope' = [s \in {"packet", "file"} |-> FALSE]
        /\ UNCHANGED <<held, pools, edt_pool, pinfo_pool_cache, session, running, aborted>>
    BY <1>2 DEF EpanInit, poolVars
  <2>2. ScopesTypeOK'
    BY <2>1 DEF ScopesIInv, ScopesTypeOK
  <2>3. Scoping'
    BY <1>2, <2>1 DEF ScopesIInv, ScopesTypeOK, Scoping, ScopesNest, NothingOutlivesItsScope
  <2>4. Pools'
    BY <2>1 DEF ScopesIInv, Pools, PoolsOwnedOnce, NoPoolLeaks, CachedPoolEmpty
  <2> QED BY <2>2, <2>3, <2>4 DEF ScopesIInv
<1> QED BY <1>1, <1>2

\* epan_cleanup empties the three scopes and destroys the cached pool, which
\* no edt owns.
LEMMA EpanCleanupInv == ScopesIInv /\ EpanCleanup => ScopesIInv'
<1> SUFFICES ASSUME ScopesIInv, EpanCleanup PROVE ScopesIInv'
  OBVIOUS
<1> DEFINE mayLeave == initialised /\ ~in_scope["packet"] /\ ~in_scope["file"]
<1>1. CASE ~mayLeave
  BY <1>1, AbortInv DEF EpanCleanup
<1>2. CASE mayLeave
  <2>1. /\ initialised' = FALSE
        /\ pinfo_pool_cache' = NoPool
        /\ pools' = pools \ {pinfo_pool_cache}
        /\ held' = [a \in ScopeAllocator |->
                      IF a \in Scope \cup ({pinfo_pool_cache} \cap Pool) THEN {} ELSE held[a]]
        /\ UNCHANGED <<in_scope, edt_pool, session, running, aborted>>
    BY <1>2 DEF EpanCleanup, FreeAll
  <2>2. ScopesTypeOK'
    BY <2>1 DEF ScopesIInv, ScopesTypeOK
  <2>3. ScopesNest'
    BY <1>2, <2>1 DEF ScopesIInv, ScopesTypeOK, Scoping, ScopesNest
  <2>4. NothingOutlivesItsScope'
    <3>1. \A s \in Scope : held'[s] = {}
      BY <2>1 DEF ScopeAllocator
    <3>2. \A p \in Pool \ pools' : held'[p] = {}
      BY <2>1 DEF ScopesIInv, Scoping, NothingOutlivesItsScope, ScopeAllocator
    <3> QED BY <3>1, <3>2 DEF NothingOutlivesItsScope, Scope
  <2>5. Pools'
    <3>1. PoolsOwnedOnce' /\ CachedPoolEmpty'
      BY <2>1 DEF ScopesIInv, Pools, PoolsOwnedOnce, CachedPoolEmpty
    <3>2. NoPoolLeaks'
      BY <2>1 DEF ScopesIInv, Pools, PoolsOwnedOnce, NoPoolLeaks
    <3> QED BY <3>1, <3>2 DEF Pools
  <2> QED BY <2>2, <2>3, <2>4, <2>5 DEF ScopesIInv, Scoping
<1> QED BY <1>1, <1>2

\* epan_new enters the file scope, epan_free leaves it empty.
LEMMA SessionInv == ScopesIInv /\ (EpanNew \/ EpanFree) => ScopesIInv'
<1> SUFFICES ASSUME ScopesIInv, EpanNew \/ EpanFree PROVE ScopesIInv'
  OBVIOUS
<1>1. CASE Abort
  BY <1>1, AbortInv
<1>2. ASSUME initialised, EpanNew, ~Abort PROVE ScopesIInv'
  <2>1. /\ in_scope' = [in_scope EXCEPT !["file"] = TRUE]
        /\ session' = TRUE
        /\ UNCHANGED <<initialised, held, pools, edt_pool, pinfo_pool_cache, running, aborted>>
    BY <1>2 DEF EpanNew, poolVars
  <2>2. ScopesTypeOK'
    BY <2>1 DEF ScopesIInv, ScopesTypeOK
  <2>3. Scoping'
    BY <1>2, <2>1 DEF ScopesIInv, ScopesTypeOK, Scoping, ScopesNest, NothingOutlivesItsScope
  <2>4. Pools'
    BY <2>1 DEF ScopesIInv, Pools, PoolsOwnedOnce, NoPoolLeaks, CachedPoolEmpty
  <2> QED BY <2>2, <2>3, <2>4 DEF ScopesIInv
<1>3. ASSUME EpanFree, ~Abort PROVE ScopesIInv'
  <2>1. /\ ~in_scope["packet"]
        /\ held' = [a \in ScopeAllocator |-> IF a \in {"file"} THEN {} ELSE held[a]]
        /\ in_scope' = [in_scope EXCEPT !["file"] = FALSE]
        /\ session' = FALSE
        /\ UNCHANGED <<initialised, pools, edt_pool, pinfo_pool_cache, running, aborted>>
    BY <1>3 DEF EpanFree, FreeAll, poolVars
  <2>2. ScopesTypeOK'
    BY <2>1 DEF ScopesIInv, ScopesTypeOK
  <2>3. ScopesNest'
    BY <2>1 DEF ScopesIInv, ScopesTypeOK, Scoping, ScopesNest
  <2>4. NothingOutlivesItsScope'
    BY <2>1 DEF ScopesIInv, ScopesTypeOK, Scoping, NothingOutlivesItsScope, ScopeAllocator, Scope
  <2>5. CachedPoolEmpty'
    BY <2>1 DEF ScopesIInv, ScopesTypeOK, Pools, CachedPoolEmpty, ScopeAllocator
  <2>6. PoolsOwnedOnce' /\ NoPoolLeaks'
    BY <2>1 DEF ScopesIInv, Pools, PoolsOwnedOnce, NoPoolLeaks
  <2> QED BY <2>2, <2>3, <2>4, <2>5, <2>6 DEF ScopesIInv, Scoping, Pools
<1> QED BY <1>1, <1>2, <1>3 DEF EpanNew

\* epan_dissect_init takes the cached pool, or one that does not exist yet;
\* either way nobody else owns it.
LEMMA DissectInitInv ==
    ASSUME NEW e \in Edt, ScopesIInv, EpanDissectInit(e)
    PROVE  ScopesIInv'
<1>1. /\ edt_pool[e] = NoPool
      /\ UNCHANGED <<initialised, in_scope, held, session, running, aborted>>
  BY DEF EpanDissectInit, scopeVars
<1>2. PICK p \in Pool :
        /\ edt_pool' = [edt_pool EXCEPT ![e] = p]
        /\ \/ p = pinfo_pool_cache /\ pinfo_pool_cache' = NoPool /\ pools' = pools
           \/ /\ p \notin pools /\ pools' = pools \cup {p}
              /\ pinfo_pool_cache = NoPool /\ pinfo_pool_cache' = NoPool
  BY DEF EpanDissectInit, ScopesIInv, ScopesTypeOK
<1>3. \A f \in Edt : edt_pool[f] # p
  BY <1>2, ScopesAssumption DEF ScopesIInv, ScopesTypeOK, Pools, PoolsOwnedOnce, NoPoolLeaks
<1>4. ScopesTypeOK'
  BY <1>1, <1>2 DEF ScopesIInv, ScopesTypeOK
<1>5. Scoping'
  BY <1>1, <1>2 DEF ScopesIInv, Scoping, ScopesNest, NothingOutlivesItsScope
<1>6. PoolsOwnedOnce' /\ CachedPoolEmpty'
  BY <1>1, <1>2, <1>3 DEF ScopesIInv, ScopesTypeOK, Pools, PoolsOwnedOnce, CachedPoolEmpty
<1>7. NoPoolLeaks'
  BY <1>1, <1>2, <1>3, ScopesAssumption DEF ScopesIInv, ScopesTypeOK, Pools, NoPoolLeaks
<1> QED BY <1>4, <1>5, <1>6, <1>7 DEF ScopesIInv, Pools

\* epan_dissect_reset empties one edt's pool.
LEMMA DissectResetInv ==
    ASSUME NEW e \in Edt, ScopesIInv, EpanDissectReset(e)
    PROVE  ScopesIInv'
<1>1. /\ held' = [a \in ScopeAllocator |-> IF a \in {edt_pool[e]} THEN {} ELSE held[a]]
      /\ UNCHANGED <<initialised, in_scope, pools, edt_pool, pinfo_pool_cache,
                     session, running, aborted>>
  BY DEF EpanDissectReset, FreeAll, scopeVars, poolVars
<1>2. ScopesTypeOK'
  BY <1>1 DEF ScopesIInv, ScopesTypeOK
<1>3. \A b \in ScopeAllocator : held[b] = {} => held'[b] = {}
  BY <1>1
<1>4. Scoping'
  BY <1>1, <1>3 DEF ScopesIInv, Scoping, ScopesNest, NothingOutlivesItsScope, ScopeAllocator, Scope
<1>5. CachedPoolEmpty'
  BY <1>1, <1>3 DEF ScopesIInv, ScopesTypeOK, Pools, CachedPoolEmpty, ScopeAllocator
<1>6. PoolsOwnedOnce' /\ NoPoolLeaks'
  BY <1>1 DEF ScopesIInv, Pools, PoolsOwnedOnce, NoPoolLeaks
<1> QED BY <1>2, <1>4, <1>5, <1>6 DEF ScopesIInv, Pools

\* epan_dissect_cleanup gives the emptied pool to the cache, or destroys it.
LEMMA DissectCleanupInv ==
    ASSUME NEW e \in Edt, ScopesIInv, EpanDissectCleanup(e)
    PROVE  ScopesIInv'
<1> DEFINE p == edt_pool[e]
<1>1. /\ p \in Pool
      /\ held' = [a \in ScopeAllocator |-> IF a \in {p} THEN {} ELSE held[a]]
      /\ edt_pool' = [edt_pool EXCEPT ![e] = NoPool]
      /\ UNCHANGED <<initialised, in_scope, session, running, aborted>>
  BY DEF EpanDissectCleanup, FreeAll, scopeVars, ScopesIInv, ScopesTypeOK
<1>2. \/ pinfo_pool_cache = NoPool /\ pinfo_pool_cache' = p /\ pools' = pools
      \/ /\ pinfo_pool_cache # NoPool /\ pinfo_pool_cache' = pinfo_pool_cache
         /\ pools' = pools \ {p}
  BY DEF EpanDissectCleanup
<1>3. /\ p # pinfo_pool_cache
      /\ \A f \in Edt \ {e} : edt_pool[f] # p
  BY <1>1, ScopesAssumption DEF ScopesIInv, Pools, PoolsOwnedOnce
<1>4. ScopesTypeOK'
  BY <1>1, <1>2 DEF ScopesIInv, ScopesTypeOK
<1>5. ScopesNest'
  BY <1>1 DEF ScopesIInv, Scoping, ScopesNest
<1>6. held'[p] = {} /\ \A b \in ScopeAllocator : held[b] = {} => held'[b] = {}
  BY <1>1 DEF ScopeAllocator
<1>7. NothingOutlivesItsScope'
  BY <1>1, <1>2, <1>6
  DEF ScopesIInv, ScopesTypeOK, Scoping, NothingOutlivesItsScope, ScopeAllocator, Scope
<1>8. PoolsOwnedOnce'
  BY <1>1, <1>2, <1>3, ScopesAssumption DEF ScopesIInv, ScopesTypeOK, Pools, PoolsOwnedOnce
<1>9. CachedPoolEmpty'
  BY <1>2, <1>6 DEF ScopesIInv, ScopesTypeOK, Pools, CachedPoolEmpty, ScopeAllocator
<1>10. NoPoolLeaks'
  BY <1>1, <1>2, <1>3, ScopesAssumption DEF ScopesIInv, ScopesTypeOK, Pools, NoPoolLeaks
<1> QED BY <1>4, <1>5, <1>7, <1>8, <1>9, <1>10 DEF ScopesIInv, Scoping, Pools

\* epan_dissect_run enters the packet scope and leaves it empty; an exception
\* that escapes leaves it entered.
LEMMA RunInv ==
    ASSUME ScopesIInv, (\E e \in Edt : RunBegin(e)) \/ RunEnd \/ RunEscape
    PROVE  ScopesIInv'
<1>1. CASE Abort
  BY <1>1, AbortInv
<1>2. ASSUME NEW e \in Edt, RunBegin(e), ~Abort PROVE ScopesIInv'
  <2>1. /\ in_scope["file"]
        /\ in_scope' = [in_scope EXCEPT !["packet"] = TRUE]
        /\ running' = e
        /\ UNCHANGED <<initialised, held, pools, edt_pool, pinfo_pool_cache, session, aborted>>
    BY <1>2 DEF RunBegin, poolVars
  <2>2. ScopesTypeOK'
    BY <2>1 DEF ScopesIInv, ScopesTypeOK
  <2>3. Scoping'
    BY <2>1 DEF ScopesIInv, ScopesTypeOK, Scoping, ScopesNest, NothingOutlivesItsScope
  <2>4. Pools'
    BY <2>1 DEF ScopesIInv, Pools, PoolsOwnedOnce, NoPoolLeaks, CachedPoolEmpty
  <2> QED BY <2>2, <2>3, <2>4 DEF ScopesIInv
<1>3. ASSUME RunEnd, ~Abort PROVE ScopesIInv'
  <2>1. /\ held' = [a \in ScopeAllocator |-> IF a \in {"packet"} THEN {} ELSE held[a]]
        /\ in_scope' = [in_scope EXCEPT !["packet"] = FALSE]
        /\ running' = NoEdt
        /\ UNCHANGED <<initialised, pools, edt_pool, pinfo_pool_cache, session, aborted>>
    BY <1>3 DEF RunEnd, FreeAll, poolVars
  <2>2. ScopesTypeOK'
    BY <2>1 DEF ScopesIInv, ScopesTypeOK
  <2>3. ScopesNest'
    BY <2>1 DEF ScopesIInv, ScopesTypeOK, Scoping, ScopesNest
  <2>4. NothingOutlivesItsScope'
    BY <2>1 DEF ScopesIInv, ScopesTypeOK, Scoping, NothingOutlivesItsScope, ScopeAllocator, Scope
  <2>5. CachedPoolEmpty'
    BY <2>1 DEF ScopesIInv, ScopesTypeOK, Pools, CachedPoolEmpty, ScopeAllocator
  <2>6. PoolsOwnedOnce' /\ NoPoolLeaks'
    BY <2>1 DEF ScopesIInv, Pools, PoolsOwnedOnce, NoPoolLeaks
  <2> QED BY <2>2, <2>3, <2>4, <2>5, <2>6 DEF ScopesIInv, Scoping, Pools
<1>4. ASSUME RunEscape, ~Abort PROVE ScopesIInv'
  BY <1>4 DEF RunEscape, scopeVars, poolVars, ScopesIInv, ScopesTypeOK, Scoping, Pools, ScopesNest,
     NothingOutlivesItsScope, PoolsOwnedOnce, NoPoolLeaks, CachedPoolEmpty
<1> QED BY <1>1, <1>2, <1>3, <1>4

\* A step that changes nothing keeps it.
LEMMA StutterInv == ScopesIInv /\ UNCHANGED epanVars => ScopesIInv'
BY DEF epanVars, ScopesIInv, ScopesTypeOK, Scoping, Pools, ScopesNest, NothingOutlivesItsScope,
   PoolsOwnedOnce, NoPoolLeaks, CachedPoolEmpty

\* Every step of any caller keeps it.
LEMMA StepInv == ScopesIInv /\ [ScopesNext]_epanVars => ScopesIInv'
<1> SUFFICES ASSUME ScopesIInv, [ScopesNext]_epanVars PROVE ScopesIInv'
  OBVIOUS
<1>1. CASE UNCHANGED epanVars
  BY <1>1, StutterInv
<1>2. CASE \E a \in ScopeAllocator, x \in Item : WmemAlloc(a, x) \/ WmemFree(a, x)
  BY <1>2, AllocInv, FreeInv
<1>3. CASE EpanInit \/ EpanCleanup \/ EpanNew \/ EpanFree
  BY <1>3, EpanInitInv, EpanCleanupInv, SessionInv
<1>4. CASE \E e \in Edt : EpanDissectInit(e) \/ EpanDissectReset(e) \/ EpanDissectCleanup(e)
  BY <1>4, DissectInitInv, DissectResetInv, DissectCleanupInv
<1>5. CASE (\E e \in Edt : RunBegin(e)) \/ RunEnd \/ RunEscape
  BY <1>5, RunInv
<1> QED BY <1>1, <1>2, <1>3, <1>4, <1>5 DEF ScopesNext

LEMMA Invariant == ScopesSpec => []ScopesIInv
BY InitInv, StepInv, PTL DEF ScopesSpec

\* A dissection runs in the packet scope, the packet scope is in the file
\* scope and the file scope in a session, for any caller of wmem_scopes.c and
\* epan.c and any number of edts.
THEOREM ScopesAlwaysNest == ScopesSpec => [](ScopesTypeOK /\ ScopesNest)
<1>1. ScopesIInv => ScopesTypeOK /\ ScopesNest
  BY DEF ScopesIInv, Scoping
<1> QED BY <1>1, Invariant, PTL

\* Nothing stays allocated in a scope that has been left.
THEOREM NothingOutlives == ScopesSpec => []NothingOutlivesItsScope
<1>1. ScopesIInv => NothingOutlivesItsScope
  BY DEF ScopesIInv, Scoping
<1> QED BY <1>1, Invariant, PTL

\* Every pinfo pool has one owner, none is lost, and the cached one is empty.
THEOREM PoolsAlwaysSafe == ScopesSpec => []PoolsSafe
<1>1. ScopesIInv => PoolsSafe
  BY DEF ScopesIInv, Pools, PoolsSafe, PoolsAccountedFor
<1> QED BY <1>1, Invariant, PTL

-----------------------------------------------------------------------------
(***************************************************************************)
(* Callers that keep the order. Without an escaping exception the packet   *)
(* scope is entered only while a dissection runs, which is what makes the  *)
(* assertions of epan_free and of the next epan_dissect_run hold.          *)
(***************************************************************************)
PacketScopeHasRun == in_scope["packet"] => running # NoEdt

OrderlyInv == ScopesIInv /\ PacketScopeHasRun /\ NeverAborts

\* An orderly step is one of the steps above.
LEMMA OrderlyStepInv == ScopesIInv /\ [OrderlyNext]_epanVars => ScopesIInv'
<1> SUFFICES ASSUME ScopesIInv, [OrderlyNext]_epanVars PROVE ScopesIInv'
  OBVIOUS
<1>1. CASE UNCHANGED epanVars
  BY <1>1, StutterInv
<1>2. CASE \E a \in ScopeAllocator, x \in Item : WmemAlloc(a, x) \/ WmemFree(a, x)
  BY <1>2, AllocInv, FreeInv
<1>3. CASE EpanInit \/ EpanCleanup \/ EpanNew \/ EpanFree
  BY <1>3, EpanInitInv, EpanCleanupInv, SessionInv
<1>4. CASE \E e \in Edt : EpanDissectInit(e) \/ EpanDissectReset(e) \/ EpanDissectCleanup(e)
  BY <1>4, DissectInitInv, DissectResetInv, DissectCleanupInv
<1>5. CASE (\E e \in Edt : RunBegin(e)) \/ RunEnd
  BY <1>5, RunInv
<1> QED BY <1>1, <1>2, <1>3, <1>4, <1>5 DEF OrderlyNext

\* No assertion fails in an orderly step, and the packet scope stays tied to
\* the dissection that runs.
LEMMA OrderlyStep == OrderlyInv /\ [OrderlyNext]_epanVars => (PacketScopeHasRun /\ NeverAborts)'
<1> SUFFICES ASSUME OrderlyInv, [OrderlyNext]_epanVars
             PROVE  PacketScopeHasRun' /\ NeverAborts'
  OBVIOUS
<1> USE DEF OrderlyInv, PacketScopeHasRun, NeverAborts
<1>1. CASE UNCHANGED epanVars
  BY <1>1 DEF epanVars
<1>2. ASSUME NEW a \in ScopeAllocator, NEW x \in Item, InScope(a), WmemAlloc(a, x) \/ WmemFree(a, x)
      PROVE  PacketScopeHasRun' /\ NeverAborts'
  BY <1>2 DEF WmemAlloc, WmemFree, scopeVars
<1>3. CASE ~initialised /\ EpanInit
  BY <1>3 DEF EpanInit
<1>4. CASE initialised /\ ~session /\ (EpanCleanup \/ EpanNew)
  <2>1. ~in_scope["file"] /\ ~in_scope["packet"]
    BY <1>4 DEF ScopesIInv, Scoping, ScopesNest
  <2> QED BY <1>4, <2>1 DEF EpanCleanup, EpanNew, ScopesIInv, ScopesTypeOK
<1>5. CASE running = NoEdt /\ EpanFree
  <2>1. initialised /\ in_scope["file"] /\ ~in_scope["packet"]
    BY <1>5 DEF EpanFree, ScopesIInv, Scoping, ScopesNest
  <2> QED BY <1>5, <2>1 DEF EpanFree, ScopesIInv, ScopesTypeOK
<1>6. ASSUME NEW e \in Edt,
             EpanDissectInit(e) \/ EpanDissectReset(e) \/ EpanDissectCleanup(e)
      PROVE  PacketScopeHasRun' /\ NeverAborts'
  BY <1>6 DEF EpanDissectInit, EpanDissectReset, EpanDissectCleanup, scopeVars
<1>7. ASSUME NEW e \in Edt, session, running = NoEdt, RunBegin(e)
      PROVE  PacketScopeHasRun' /\ NeverAborts'
  <2>1. initialised /\ in_scope["file"] /\ ~in_scope["packet"]
    BY <1>7 DEF ScopesIInv, Scoping, ScopesNest
  <2> QED BY <1>7, <2>1, ScopesAssumption DEF RunBegin
<1>8. CASE RunEnd
  <2>1. in_scope["packet"]
    BY <1>8 DEF RunEnd, ScopesIInv, Scoping, ScopesNest
  <2> QED BY <1>8, <2>1 DEF RunEnd, ScopesIInv, ScopesTypeOK
<1> QED BY <1>1, <1>2, <1>3, <1>4, <1>5, <1>6, <1>7, <1>8 DEF OrderlyNext

\* No assertion of the scopes or of wmem_alloc and wmem_free ever fails for a
\* caller that keeps the order the repository's own callers keep.
THEOREM OrderlyNeverAborts == OrderlySpec => []NeverAborts
<1>1. ScopesInit => OrderlyInv
  BY InitInv DEF ScopesInit, OrderlyInv, PacketScopeHasRun, NeverAborts
<1>2. OrderlyInv /\ [OrderlyNext]_epanVars => OrderlyInv'
  BY OrderlyStepInv, OrderlyStep DEF OrderlyInv
<1>3. OrderlyInv => NeverAborts
  BY DEF OrderlyInv
<1> QED BY <1>1, <1>2, <1>3, PTL DEF OrderlySpec

\* An arbitrary caller makes no assertion fail as long as it has kept that
\* order: the first failure needs a call out of order before it or at it.
THEOREM SafeWhileOrderly == MCSpec => []OrderlyCallersSafe
<1> DEFINE MCInv == ScopesIInv /\ (orderly => PacketScopeHasRun /\ NeverAborts)
<1>1. MCInit => MCInv
  BY InitInv DEF MCInit, ScopesInit, PacketScopeHasRun, NeverAborts
<1>2. MCInv /\ [MCNext]_MCVars => MCInv'
  <2> SUFFICES ASSUME MCInv, [MCNext]_MCVars PROVE MCInv'
    OBVIOUS
  <2>1. CASE ScopesNext /\ orderly' = (orderly /\ OrderlyNext)
    <3>1. orderly' => OrderlyInv /\ OrderlyNext
      BY <2>1 DEF OrderlyInv
    <3>2. ScopesIInv'
      BY <2>1, StepInv
    <3> QED BY <3>1, <3>2, OrderlyStep
  <2>2. CASE UNCHANGED <<epanVars, orderly>>
    <3>1. ScopesIInv'
      BY <2>2, StepInv
    <3> QED BY <2>2, <3>1 DEF epanVars, PacketScopeHasRun, NeverAborts
  <2> QED BY <2>1, <2>2 DEF MCNext, MCVars
<1>3. MCInv => OrderlyCallersSafe
  BY DEF OrderlyCallersSafe
<1> QED BY <1>1, <1>2, <1>3, PTL DEF MCSpec

-----------------------------------------------------------------------------
(***************************************************************************)
(* A running dissection is not disturbed. The pool it works in is a pool,  *)
(* and no other edt and not the cache has the same one.                    *)
(***************************************************************************)
RunHasPool == running # NoEdt => edt_pool[running] \in Pool

LEMMA RunHasPoolStep == ScopesIInv /\ RunHasPool /\ [ScopesNext]_epanVars => RunHasPool'
<1> SUFFICES ASSUME ScopesIInv, RunHasPool, [ScopesNext]_epanVars PROVE RunHasPool'
  OBVIOUS
<1> USE DEF RunHasPool, ScopesIInv, ScopesTypeOK
<1>1. CASE UNCHANGED <<edt_pool, running>>
  BY <1>1
<1>2. ASSUME NEW e \in Edt, RunBegin(e) PROVE RunHasPool'
  BY <1>2 DEF RunBegin, Abort, poolVars
<1>3. CASE RunEnd \/ RunEscape
  BY <1>3 DEF RunEnd, RunEscape, Abort, poolVars
<1>4. ASSUME NEW e \in Edt, EpanDissectInit(e) PROVE RunHasPool'
  BY <1>4 DEF EpanDissectInit
<1>5. ASSUME NEW e \in Edt, EpanDissectCleanup(e) PROVE RunHasPool'
  BY <1>5 DEF EpanDissectCleanup
<1>6. ASSUME NEW e \in Edt, EpanDissectReset(e) PROVE RunHasPool'
  BY <1>6 DEF EpanDissectReset, poolVars
<1>7. CASE EpanInit \/ EpanCleanup \/ EpanNew \/ EpanFree
  BY <1>7 DEF EpanInit, EpanCleanup, EpanNew, EpanFree, Abort, poolVars
<1>8. CASE \E a \in ScopeAllocator, x \in Item : WmemAlloc(a, x) \/ WmemFree(a, x)
  BY <1>8 DEF WmemAlloc, WmemFree, Abort, poolVars
<1> QED BY <1>1, <1>2, <1>3, <1>4, <1>5, <1>6, <1>7, <1>8 DEF ScopesNext, epanVars

LEMMA RunStep == ScopesIInv /\ RunHasPool /\ [ScopesNext]_epanVars => DisturbsNoRun
<1> SUFFICES ASSUME ScopesIInv, RunHasPool, [ScopesNext]_epanVars, running # NoEdt, running' = running
             PROVE  /\ edt_pool'[running] = edt_pool[running]
                    /\ \/ held[edt_pool[running]] \subseteq held'[edt_pool[running]]
                       \/ \E x \in Item : WmemFree(edt_pool[running], x)
  BY DEF DisturbsNoRun
<1> DEFINE p == edt_pool[running]
<1>0. running \in Edt /\ p \in Pool /\ p \in ScopeAllocator /\ p \notin Scope
  BY ScopesAssumption DEF ScopesIInv, ScopesTypeOK, RunHasPool, ScopeAllocator
<1> USE DEF ScopesIInv, ScopesTypeOK
<1>1. CASE UNCHANGED <<edt_pool, held>>
  BY <1>1
<1>2. ASSUME NEW a \in ScopeAllocator, NEW x \in Item, WmemAlloc(a, x)
      PROVE  edt_pool' = edt_pool /\ held[p] \subseteq held'[p]
  BY <1>0, <1>2 DEF WmemAlloc, Abort, poolVars
<1>3. ASSUME NEW a \in ScopeAllocator, NEW x \in Item, WmemFree(a, x)
      PROVE  /\ edt_pool' = edt_pool
             /\ a = p \/ held[p] \subseteq held'[p]
  BY <1>0, <1>3 DEF WmemFree, Abort, poolVars
<1>4. CASE EpanInit \/ EpanNew
  BY <1>4, <1>1 DEF EpanInit, EpanNew, Abort, poolVars
<1>5. CASE EpanCleanup
  <2>1. p # pinfo_pool_cache
    BY <1>0, ScopesAssumption DEF Pools, PoolsOwnedOnce
  <2> QED BY <1>0, <1>5, <2>1 DEF EpanCleanup, Abort, poolVars, FreeAll
<1>6. CASE EpanFree
  BY <1>0, <1>6 DEF EpanFree, Abort, poolVars, FreeAll, Scope
<1>7. ASSUME NEW e \in Edt, EpanDissectInit(e)
      PROVE  edt_pool'[running] = p /\ held' = held
  BY <1>0, <1>7, ScopesAssumption DEF EpanDissectInit
<1>8. ASSUME NEW e \in Edt, EpanDissectReset(e) \/ EpanDissectCleanup(e)
      PROVE  edt_pool'[running] = p /\ held'[p] = held[p]
  <2>1. e # running /\ edt_pool[e] # p
    BY <1>0, <1>8, ScopesAssumption
    DEF EpanDissectReset, EpanDissectCleanup, Pools, PoolsOwnedOnce
  <2> QED BY <1>0, <1>8, <2>1 DEF EpanDissectReset, EpanDissectCleanup, poolVars, FreeAll
<1>9. ASSUME NEW e \in Edt, RunBegin(e) PROVE UNCHANGED <<edt_pool, held>>
  BY <1>9 DEF RunBegin, Abort, poolVars
<1>10. CASE RunEnd
  BY <1>0, <1>10 DEF RunEnd, Abort, poolVars, FreeAll, Scope
<1>11. CASE RunEscape
  BY <1>1, <1>11 DEF RunEscape, Abort, poolVars
<1> QED BY <1>1, <1>2, <1>3, <1>4, <1>5, <1>6, <1>7, <1>8, <1>9, <1>10, <1>11 DEF ScopesNext, epanVars

\* Whatever dissectors, taps and the caller do while a dissection runs, its
\* pinfo pool is its own and loses nothing but what is freed one by one.
THEOREM RunUndisturbed == ScopesSpec => RunKeepsItsPool
<1>1. ScopesInit => ScopesIInv /\ RunHasPool
  BY InitInv DEF ScopesInit, RunHasPool
<1>2. ScopesIInv /\ RunHasPool /\ [ScopesNext]_epanVars => (ScopesIInv /\ RunHasPool)'
  BY StepInv, RunHasPoolStep
<1>3. ScopesIInv /\ RunHasPool /\ [ScopesNext]_epanVars => [DisturbsNoRun]_epanVars
  BY RunStep
<1> QED BY <1>1, <1>2, <1>3, PTL DEF ScopesSpec, RunKeepsItsPool

-----------------------------------------------------------------------------
(***************************************************************************)
(* WmemCallbacks.                                                          *)
(***************************************************************************)

Kinds == {"user", "reset", "destroy"}
Containers == [kind : Kinds, map : Map \cup {None}, next : Id \cup {None}]

(* The containers of an allocator.                                         *)
Of(l, own, a) == {i \in DOMAIN l.container : own[i] = a}

IsTop(n, ids) == IF n = None THEN ids = {} ELSE n \in ids /\ \A i \in ids : i <= n

Below(ids, n) == {i \in ids : i < n}

Linked(l, own) ==
  /\ l \in [callbacks : {l.callbacks}, container : {l.container}]
  /\ l.callbacks \in [Allocator -> Id \cup {None}]
  /\ DOMAIN l.container \subseteq Id
  /\ l.container \in [DOMAIN l.container -> Containers]
  /\ own \in [DOMAIN l.container -> Allocator]
  /\ \A a \in Allocator : IsTop(l.callbacks[a], Of(l, own, a))
  /\ \A i \in DOMAIN l.container : IsTop(l.container[i].next, Below(Of(l, own, own[i]), i))

(* cur is what *prev is, in the list of the allocator.                     *)
Follows(l, own, a, prev, cur) ==
  /\ prev # None => prev \in Of(l, own, a)
  /\ At(l, a, prev) = cur

---------------------------------------------------------------------------
(***************************************************************************)
(* Sets of ids.                                                            *)
(***************************************************************************)

LEMMA Least ==
  ASSUME NEW S \in SUBSET Nat, S # {}
  PROVE  \E n \in S : \A m \in S : n <= m
<1>1. IsWellFoundedOn(OpToRel(<, Nat), Nat)
  BY NatLessThanWellFounded
<1>2. PICK n \in S : \A m \in S : <<m, n>> \notin OpToRel(<, Nat)
  BY <1>1, WFMin
<1>3. ASSUME NEW m \in S PROVE n <= m
  <2>1. n \in Nat /\ m \in Nat
    OBVIOUS
  <2>2. <<m, n>> \notin OpToRel(<, Nat)
    BY <1>2
  <2>3. ~(m < n)
    BY <2>1, <2>2 DEF OpToRel
  <2> QED
    BY <2>1, <2>3
<1> QED
  BY <1>3

LEMMA Greatest ==
  ASSUME NEW S \in SUBSET Id, S # {}
  PROVE  \E n \in S : \A m \in S : m <= n
<1> DEFINE T == {d \in Nat : \E m \in S : d = MaxId - m}
<1>1. S \subseteq 1 .. MaxId /\ MaxId \in Nat
  BY CallbacksAssumption DEF Id
<1>2. T \in SUBSET Nat /\ T # {}
  <2>1. PICK m \in S : TRUE
    OBVIOUS
  <2>2. MaxId - m \in Nat
    BY <1>1, <2>1
  <2> QED
    BY <2>2
<1>3. PICK d \in T : \A e \in T : d <= e
  <2> HIDE DEF T
  <2> QED
    BY <1>2, Least
<1>4. PICK n \in S : d = MaxId - n
  BY <1>3
<1>5. ASSUME NEW m \in S PROVE m <= n
  <2>1. MaxId - m \in T
    BY <1>1
  <2>2. d <= MaxId - m
    BY <1>3, <2>1
  <2> QED
    BY <1>1, <1>4, <2>2
<1> QED
  BY <1>5

LEMMA TopUnique ==
  ASSUME NEW S \in SUBSET Id, NEW m, NEW n, IsTop(m, S), IsTop(n, S)
  PROVE  m = n
<1>1. S \subseteq Int
  BY DEF Id
<1>2. CASE m = None \/ n = None
  BY <1>2 DEF IsTop
<1>3. CASE m # None /\ n # None
  <2>1. m \in S /\ n \in S /\ m <= n /\ n <= m
    BY <1>3 DEF IsTop
  <2> QED
    BY <1>1, <2>1
<1> QED
  BY <1>2, <1>3

(* What precedes an id in its list.                                        *)
LEMMA Precedes ==
  ASSUME NEW l, NEW own, Linked(l, own), NEW a \in Allocator, NEW id \in Of(l, own, a),
         l.callbacks[a] # id
  PROVE  \E i \in Of(l, own, a) : i > id /\ l.container[i].next = id
<1> DEFINE O == Of(l, own, a)
           U == {i \in O : i > id}
<1>1. O \subseteq 1 .. MaxId /\ O \subseteq DOMAIN l.container /\ MaxId \in Nat
  BY CallbacksAssumption DEF Linked, Of, Id
<1>2. U # {}
  <2>1. IsTop(l.callbacks[a], O)
    BY DEF Linked
  <2>2. l.callbacks[a] \in O /\ l.callbacks[a] >= id
    BY <1>1, <2>1 DEF IsTop
  <2> QED
    BY <1>1, <2>2
<1>3. PICK i \in U : \A j \in U : i <= j
  <2>1. U \in SUBSET Nat
    BY <1>1
  <2> HIDE DEF U
  <2> QED
    BY <1>2, <2>1, Least
<1>4. own[i] = a
  BY <1>3 DEF Of
<1>5. IsTop(id, Below(O, i))
  <2>1. id \in Below(O, i) /\ id # None
    BY <1>1, <1>3 DEF Below, None
  <2>2. ASSUME NEW j \in Below(O, i) PROVE j <= id
    BY <1>1, <1>3, <2>2 DEF Below
  <2> QED
    BY <2>1, <2>2 DEF IsTop
<1>6. IsTop(l.container[i].next, Below(O, i))
  BY <1>1, <1>3, <1>4 DEF Linked
<1>7. Below(O, i) \in SUBSET Id
  BY <1>1 DEF Below, Id
<1>8. l.container[i].next = id
  <2> HIDE DEF O
  <2> QED
    BY <1>5, <1>6, <1>7, TopUnique
<1> QED
  BY <1>3, <1>8

(* A list has exactly the containers of its allocator.                     *)
LEMMA MembersAre ==
  ASSUME NEW l, NEW own, Linked(l, own), NEW a \in Allocator
  PROVE  Members(l, a) = Of(l, own, a)
<1> DEFINE O == Of(l, own, a)
<1>1. O \subseteq Id /\ O \subseteq DOMAIN l.container
  BY DEF Linked, Of
<1>2. Encloses(l, a, O)
  <2>1. l.callbacks[a] \in O \cup {None}
    BY DEF Linked, IsTop
  <2>2. ASSUME NEW i \in O PROVE l.container[i].next \in O \cup {None}
    <3>1. own[i] = a /\ i \in DOMAIN l.container
      BY DEF Of
    <3>2. IsTop(l.container[i].next, Below(O, i))
      BY <3>1 DEF Linked
    <3> QED
      BY <3>2 DEF IsTop, Below
  <2> QED
    BY <2>1, <2>2 DEF Encloses
<1>3. Members(l, a) \subseteq O
  BY <1>1, <1>2 DEF Members
<1>4. ASSUME NEW ids \in SUBSET Id, Encloses(l, a, ids) PROVE O \subseteq ids
  <2>1. SUFFICES ASSUME O \ ids # {} PROVE FALSE
    OBVIOUS
  <2>2. O \ ids \in SUBSET Id
    BY <1>1
  <2>3. PICK i \in O \ ids : \A m \in O \ ids : m <= i
    <3> HIDE DEF O
    <3> QED
      BY <2>1, <2>2, Greatest
  <2>4. i # None /\ i \in Id
    BY <1>1 DEF Id, None
  <2>5. CASE l.callbacks[a] = i
    BY <1>4, <2>3, <2>4, <2>5 DEF Encloses
  <2>6. CASE l.callbacks[a] # i
    <3>1. PICK j \in O : j > i /\ l.container[j].next = i
      BY <2>6, Precedes
    <3>2. i \in Nat /\ j \in Nat
      BY <1>1, CallbacksAssumption DEF Id
    <3>3. j \in ids
      BY <2>3, <3>1, <3>2
    <3>4. i \in ids \cup {None}
      BY <1>1, <1>4, <3>1, <3>3 DEF Encloses
    <3> QED
      BY <2>3, <2>4, <3>4
  <2> QED
    BY <2>5, <2>6
<1>5. O \subseteq Members(l, a)
  BY <1>1, <1>4 DEF Members
<1> QED
  BY <1>3, <1>5

---------------------------------------------------------------------------
(***************************************************************************)
(* The operations on lists.                                                *)
(***************************************************************************)

(* l2 has the containers of l but cur, and only the next of prev and the   *)
(* head of a list without prev are not what they were.                     *)
TakenOut(l, l2, a, prev, cur) ==
  LET n == l.container[cur].next
      D == DOMAIN l.container \ {cur}
  IN  /\ l2 \in [callbacks : {l2.callbacks}, container : {l2.container}]
      /\ l2.callbacks \in [Allocator -> Id \cup {None}]
      /\ DOMAIN l2.container = D
      /\ l2.container \in [D -> Containers]
      /\ \A i \in D : /\ l2.container[i].kind = l.container[i].kind
                      /\ l2.container[i].map = l.container[i].map
                      /\ l2.container[i].next = IF i = prev THEN n ELSE l.container[i].next
      /\ \A b \in Allocator : l2.callbacks[b] = IF b = a /\ prev = None THEN n ELSE l.callbacks[b]

LEMMA UnlinkIs ==
  ASSUME NEW l, NEW own, Linked(l, own), NEW a \in Allocator, NEW cur \in DOMAIN l.container,
         NEW prev, prev = None \/ prev \in DOMAIN l.container, None \notin DOMAIN l.container,
         prev # cur
  PROVE  TakenOut(l, Unlink(l, a, prev, cur), a, prev, cur)
<1> DEFINE l2 == Unlink(l, a, prev, cur)
           n == l.container[cur].next
           D == DOMAIN l.container \ {cur}
           cb == l.callbacks
           ct == l.container
<1>1. /\ l = [callbacks |-> cb, container |-> ct]
      /\ cb \in [Allocator -> Id \cup {None}] /\ ct \in [DOMAIN ct -> Containers]
      /\ n \in Id \cup {None}
  BY DEF Linked, Containers
<1> HIDE DEF cb, n
<1>2. CASE prev = None
  <2>1. l2 = [callbacks |-> [cb EXCEPT ![a] = n], container |-> Remove(ct, cur)]
    BY <1>2 DEF Unlink, n, cb
  <2>2. Remove(ct, cur) = [i \in D |-> ct[i]] /\ \A i \in D : ct[i] \in Containers
    BY <1>1 DEF Remove
  <2> HIDE DEF l2, ct
  <2>3. l2.callbacks = [cb EXCEPT ![a] = n] /\ l2.container = [i \in D |-> ct[i]]
    BY <2>1, <2>2
  <2>4. /\ l2.callbacks \in [Allocator -> Id \cup {None}]
        /\ \A b \in Allocator : l2.callbacks[b] = IF b = a THEN n ELSE cb[b]
    BY <1>1, <2>3
  <2>5. /\ DOMAIN l2.container = D /\ l2.container \in [D -> Containers]
        /\ \A i \in D : l2.container[i] = ct[i] /\ i # prev
    BY <1>2, <2>2, <2>3 DEF ct
  <2> QED
    BY <1>2, <2>1, <2>3, <2>4, <2>5 DEF TakenOut, l2, ct, n, cb
<1>3. CASE prev # None
  <2> DEFINE p == [ct[prev] EXCEPT !.next = n]
  <2>1. l2 = [callbacks |-> cb, container |-> Remove([ct EXCEPT ![prev] = p], cur)]
    BY <1>3 DEF Unlink, n, cb
  <2>2. /\ prev \in DOMAIN ct /\ ct[prev] \in Containers
        /\ p \in Containers /\ p.kind = ct[prev].kind /\ p.map = ct[prev].map /\ p.next = n
    BY <1>1, <1>3 DEF Containers
  <2> HIDE DEF p, l2
  <2>3. Remove([ct EXCEPT ![prev] = p], cur) = [i \in D |-> IF i = prev THEN p ELSE ct[i]]
    BY <1>1, <2>2 DEF Remove
  <2>4. \A i \in D : ct[i] \in Containers
    BY <1>1
  <2> HIDE DEF ct
  <2>5. l2.callbacks = cb /\ l2.container = [i \in D |-> IF i = prev THEN p ELSE ct[i]]
    BY <2>1, <2>3
  <2>6. /\ DOMAIN l2.container = D /\ l2.container \in [D -> Containers]
        /\ \A i \in D : l2.container[i] = IF i = prev THEN p ELSE ct[i]
    BY <2>2, <2>4, <2>5
  <2>7. \A i \in D : /\ l2.container[i].kind = ct[i].kind
                     /\ l2.container[i].map = ct[i].map
                     /\ l2.container[i].next = IF i = prev THEN n ELSE ct[i].next
    BY <2>2, <2>6
  <2> QED
    BY <1>1, <1>3, <2>1, <2>5, <2>6, <2>7 DEF TakenOut, l2, ct, n, cb
<1> QED
  BY <1>2, <1>3

(* A container is taken out, and the other lists are as they were.         *)
Without(l, own, l2, own2, id) ==
  /\ Linked(l2, own2)
  /\ DOMAIN l2.container = DOMAIN l.container \ {id}
  /\ \A i \in DOMAIN l2.container : /\ l2.container[i].kind = l.container[i].kind
                                    /\ l2.container[i].map = l.container[i].map
                                    /\ own2[i] = own[i]
  /\ \A b \in Allocator \ {own[id]} : \A p, c :
        Follows(l, own, b, p, c) => Follows(l2, own2, b, p, c)

(* What followed the container follows what preceded it.                   *)
LEMMA Unlinked ==
  ASSUME NEW l, NEW own, Linked(l, own), NEW a \in Allocator, NEW cur \in Of(l, own, a),
         NEW prev, Follows(l, own, a, prev, cur)
  PROVE  LET l2 == Unlink(l, a, prev, cur)
             own2 == Remove(own, cur)
         IN  /\ Without(l, own, l2, own2, cur)
             /\ Follows(l2, own2, a, prev, l.container[cur].next)
<1> DEFINE l2 == Unlink(l, a, prev, cur)
           own2 == Remove(own, cur)
           n == l.container[cur].next
           D == DOMAIN l.container \ {cur}
           O == Of(l, own, a)
<1>1. /\ DOMAIN l.container \subseteq Int /\ None \notin DOMAIN l.container /\ None = 0
      /\ O \subseteq DOMAIN l.container /\ cur \in DOMAIN l.container /\ own[cur] = a
      /\ DOMAIN l.container \subseteq Id
  BY DEF Linked, Of, Id, None
<1>2. prev # None => /\ prev \in O /\ cur = l.container[prev].next
                     /\ cur < prev /\ \A i \in O : i < prev => i <= cur
  <2> SUFFICES ASSUME prev # None
               PROVE  /\ prev \in O /\ cur = l.container[prev].next
                      /\ cur < prev /\ \A i \in O : i < prev => i <= cur
    OBVIOUS
  <2>1. prev \in O /\ cur = l.container[prev].next
    BY DEF Follows, At
  <2>2. IsTop(cur, Below(O, prev))
    BY <2>1 DEF Linked, Of
  <2> QED
    BY <1>1, <2>1, <2>2 DEF IsTop, Below
<1>3. prev = None => cur = l.callbacks[a] /\ \A i \in O : i <= cur
  <2> SUFFICES ASSUME prev = None PROVE cur = l.callbacks[a] /\ \A i \in O : i <= cur
    OBVIOUS
  <2>1. cur = l.callbacks[a] /\ IsTop(cur, O)
    BY DEF Follows, At, Linked
  <2> QED
    BY <1>1, <2>1 DEF IsTop
<1>4. /\ l2 \in [callbacks : {l2.callbacks}, container : {l2.container}]
      /\ l2.callbacks \in [Allocator -> Id \cup {None}]
      /\ DOMAIN l2.container = D
      /\ l2.container \in [D -> Containers]
      /\ \A i \in D : /\ l2.container[i].kind = l.container[i].kind
                      /\ l2.container[i].map = l.container[i].map
                      /\ l2.container[i].next = IF i = prev THEN n ELSE l.container[i].next
      /\ \A b \in Allocator : l2.callbacks[b] = IF b = a /\ prev = None THEN n ELSE l.callbacks[b]
  <2>1. prev = None \/ prev \in DOMAIN l.container
    BY <1>1, <1>2
  <2>2. prev # cur
    BY <1>1, <1>2
  <2>3. TakenOut(l, l2, a, prev, cur)
    <3> HIDE DEF O
    <3> QED
      BY <1>1, <2>1, <2>2, UnlinkIs
  <2> HIDE DEF l2
  <2> QED
    BY <2>3 DEF TakenOut
<1> HIDE DEF l2
<1>5. own2 \in [D -> Allocator] /\ \A i \in D : own2[i] = own[i]
  BY DEF Linked, Remove
<1> HIDE DEF own2
<1>6. Of(l2, own2, a) = O \ {cur} /\ \A b \in Allocator \ {a} : Of(l2, own2, b) = Of(l, own, b)
  BY <1>1, <1>4, <1>5 DEF Of
<1>7. IsTop(n, Below(O, cur))
  BY <1>1 DEF Linked
<1>8. IsTop(l2.callbacks[a], O \ {cur})
  <2>1. CASE prev = None
    <3>1. O \ {cur} = Below(O, cur) /\ l2.callbacks[a] = n
      BY <1>1, <1>3, <1>4, <2>1 DEF Below
    <3> QED
      BY <1>7, <3>1
  <2>2. CASE prev # None
    <3>1. IsTop(l.callbacks[a], O) /\ l2.callbacks[a] = l.callbacks[a]
      BY <1>4, <2>2 DEF Linked
    <3>2. l.callbacks[a] \in O /\ prev <= l.callbacks[a] /\ l.callbacks[a] # None
      BY <1>2, <2>2, <3>1 DEF IsTop
    <3>3. l.callbacks[a] # cur
      BY <1>1, <1>2, <2>2, <3>2
    <3> QED
      BY <3>1, <3>2, <3>3 DEF IsTop
  <2> QED
    BY <2>1, <2>2
<1>9. ASSUME NEW b \in Allocator PROVE IsTop(l2.callbacks[b], Of(l2, own2, b))
  <2>1. CASE b = a
    BY <1>6, <1>8, <2>1
  <2>2. CASE b # a
    <3>1. l2.callbacks[b] = l.callbacks[b] /\ IsTop(l.callbacks[b], Of(l, own, b))
      BY <1>4, <2>2 DEF Linked
    <3> QED
      BY <1>6, <2>2, <3>1
  <2> QED
    BY <2>1, <2>2
<1>10. ASSUME NEW i \in D PROVE IsTop(l2.container[i].next, Below(Of(l2, own2, own2[i]), i))
  <2>1. IsTop(l.container[i].next, Below(Of(l, own, own[i]), i)) /\ own[i] \in Allocator
    BY DEF Linked
  <2>2. CASE own[i] # a
    <3>1. i # prev
      BY <1>1, <1>2, <2>2 DEF Of
    <3>2. l2.container[i].next = l.container[i].next /\ Of(l2, own2, own2[i]) = Of(l, own, own[i])
      BY <1>4, <1>5, <1>6, <2>1, <2>2, <3>1
    <3> QED
      BY <2>1, <3>2
  <2>3. CASE own[i] = a /\ i = prev
    <3>1. Below(O \ {cur}, prev) = Below(O, cur)
      BY <1>1, <1>2, <2>3 DEF Below
    <3> QED
      BY <1>4, <1>5, <1>6, <1>7, <2>3, <3>1
  <2>4. CASE own[i] = a /\ i # prev
    <3>1. i \in O /\ i \in Int /\ i # cur /\ cur \in Int /\ cur \in O
      BY <1>1, <2>4 DEF Of
    <3>2. IsTop(l.container[i].next, Below(O, i)) /\ l2.container[i].next = l.container[i].next
      BY <1>4, <2>1, <2>4
    <3>3. l.container[i].next # cur
      <4> SUFFICES ASSUME l.container[i].next = cur PROVE FALSE
        OBVIOUS
      <4>1. cur < i /\ \A j \in O : j < i => j <= cur
        BY <1>1, <3>1, <3>2 DEF IsTop, Below
      <4>2. CASE prev = None
        BY <1>3, <3>1, <4>1, <4>2
      <4>3. CASE prev # None
        <5>1. prev \in Int /\ (prev < i \/ i < prev)
          BY <1>1, <1>2, <2>4, <3>1, <4>3
        <5> QED
          BY <1>2, <3>1, <4>1, <4>3, <5>1
      <4> QED
        BY <4>2, <4>3
    <3>4. IsTop(l.container[i].next, Below(O \ {cur}, i))
      BY <3>2, <3>3 DEF IsTop, Below
    <3> QED
      BY <1>5, <1>6, <2>4, <3>2, <3>4
  <2> QED
    BY <2>2, <2>3, <2>4
<1>11. Linked(l2, own2)
  BY <1>1, <1>4, <1>5, <1>9, <1>10 DEF Linked
<1>12. Follows(l2, own2, a, prev, n)
  <2>1. CASE prev = None
    BY <1>4, <2>1 DEF Follows, At
  <2>2. CASE prev # None
    <3>1. prev \in O \ {cur} /\ prev \in D
      BY <1>1, <1>2, <2>2
    <3> QED
      BY <1>4, <1>6, <2>2, <3>1 DEF Follows, At
  <2> QED
    BY <2>1, <2>2
<1>13. ASSUME NEW b \in Allocator \ {a}, NEW p, NEW c, Follows(l, own, b, p, c)
       PROVE  Follows(l2, own2, b, p, c)
  <2>1. CASE p = None
    BY <1>4, <1>13, <2>1 DEF Follows, At
  <2>2. CASE p # None
    <3>1. p \in Of(l, own, b) /\ l.container[p].next = c
      BY <1>13, <2>2 DEF Follows, At
    <3>2. p \in D /\ p # prev
      BY <1>1, <1>2, <3>1 DEF Of
    <3> QED
      BY <1>4, <1>6, <2>2, <3>1, <3>2 DEF Follows, At
  <2> QED
    BY <2>1, <2>2
<1> QED
  BY <1>1, <1>4, <1>5, <1>11, <1>12, <1>13 DEF Without, l2, own2

LEMMA Unregistered ==
  ASSUME NEW l, NEW own, Linked(l, own), NEW a \in Allocator, NEW id \in Of(l, own, a)
  PROVE  Without(l, own, Unregister(l, a, id), Remove(own, id), id)
<1> DEFINE before == IF l.callbacks[a] = id THEN None
                     ELSE CHOOSE i \in Members(l, a) : l.container[i].next = id
<1>1. Members(l, a) = Of(l, own, a)
  BY MembersAre
<1>2. Unregister(l, a, id) = Unlink(l, a, before, id)
  BY <1>1 DEF Unregister
<1>3. Follows(l, own, a, before, id)
  <2>1. CASE l.callbacks[a] = id
    BY <2>1 DEF Follows, At
  <2>2. CASE l.callbacks[a] # id
    <3>1. before = CHOOSE i \in Of(l, own, a) : l.container[i].next = id
      BY <1>1, <2>2
    <3>2. \E i \in Of(l, own, a) : l.container[i].next = id
      BY <2>2, Precedes
    <3>3. before \in Of(l, own, a) /\ l.container[before].next = id
      <4> HIDE DEF before
      <4> QED
        BY <3>1, <3>2
    <3> HIDE DEF before
    <3>4. before # None
      BY <3>3 DEF Of, Linked, Id, None
    <3> QED
      BY <3>3, <3>4 DEF Follows, At
  <2> QED
    BY <2>1, <2>2
<1> HIDE DEF before
<1> QED
  BY <1>2, <1>3, Unlinked

(* The new container is the head of its list.                              *)
With(l, own, l2, own2, a, id, kind, m) ==
  /\ Linked(l2, own2)
  /\ DOMAIN l2.container = DOMAIN l.container \cup {id}
  /\ l2.container[id].kind = kind /\ l2.container[id].map = m /\ own2[id] = a
  /\ \A i \in DOMAIN l.container : /\ l2.container[i].kind = l.container[i].kind
                                   /\ l2.container[i].map = l.container[i].map
                                   /\ own2[i] = own[i]
  /\ \A b \in Allocator \ {a} : \A p, c : Follows(l, own, b, p, c) => Follows(l2, own2, b, p, c)

LEMMA Registered ==
  ASSUME NEW l, NEW own, Linked(l, own), NEW a \in Allocator, NEW id \in Id,
         \A i \in DOMAIN l.container : i < id,
         NEW kind \in Kinds, NEW m \in Map \cup {None}
  PROVE  \E own2 : With(l, own, Register(l, a, id, kind, m), own2, a, id, kind, m)
<1> DEFINE D == DOMAIN l.container
           c == [kind |-> kind, map |-> m, next |-> l.callbacks[a]]
           l2 == Register(l, a, id, kind, m)
           own2 == [i \in D \cup {id} |-> IF i = id THEN a ELSE own[i]]
<1>1. l2 = [callbacks |-> [l.callbacks EXCEPT ![a] = id],
            container |-> [i \in D \cup {id} |-> IF i = id THEN c ELSE l.container[i]]]
  BY DEF Register
<1>2. c \in Containers /\ c.kind = kind /\ c.map = m /\ c.next = l.callbacks[a]
  BY DEF Containers, Linked
<1>3. D \subseteq Int /\ id \in Int /\ id \notin D /\ id # None /\ D \subseteq Id
  BY DEF Linked, Id, None
<1>4. own2[id] = a /\ own2 \in [D \cup {id} -> Allocator] /\ \A i \in D : own2[i] = own[i]
  BY <1>3 DEF Linked
<1> HIDE DEF c, l2, own2
<1>5. /\ l2 \in [callbacks : {l2.callbacks}, container : {l2.container}]
      /\ l2.callbacks = [l.callbacks EXCEPT ![a] = id]
      /\ l2.container = [i \in D \cup {id} |-> IF i = id THEN c ELSE l.container[i]]
  BY <1>1
<1>6. /\ l2.callbacks \in [Allocator -> Id \cup {None}]
      /\ \A b \in Allocator : l2.callbacks[b] = IF b = a THEN id ELSE l.callbacks[b]
  BY <1>5 DEF Linked
<1>7. /\ DOMAIN l2.container = D \cup {id} /\ l2.container[id] = c
      /\ \A i \in D : l2.container[i] = l.container[i]
  BY <1>3, <1>5
<1>8. l2.container \in [D \cup {id} -> Containers]
  BY <1>2, <1>5 DEF Linked
<1>9. /\ Of(l2, own2, a) = Of(l, own, a) \cup {id}
      /\ \A b \in Allocator \ {a} : Of(l2, own2, b) = Of(l, own, b)
  BY <1>3, <1>4, <1>7 DEF Of
<1>10. ASSUME NEW b \in Allocator PROVE IsTop(l2.callbacks[b], Of(l2, own2, b))
  <2>1. CASE b = a
    BY <1>3, <1>6, <1>9, <2>1 DEF IsTop, Of
  <2>2. CASE b # a
    <3>1. l2.callbacks[b] = l.callbacks[b] /\ Of(l2, own2, b) = Of(l, own, b)
      BY <1>6, <1>9, <2>2
    <3> QED
      BY <3>1 DEF Linked
  <2> QED
    BY <2>1, <2>2
<1>11. ASSUME NEW i \in D \cup {id} PROVE IsTop(l2.container[i].next, Below(Of(l2, own2, own2[i]), i))
  <2>1. CASE i = id
    <3>1. Below(Of(l2, own2, a), id) = Of(l, own, a)
      BY <1>3, <1>9 DEF Below, Of
    <3>2. l2.container[i].next = l.callbacks[a] /\ own2[i] = a
      BY <1>2, <1>4, <1>7, <2>1
    <3>3. IsTop(l.callbacks[a], Of(l, own, a))
      BY DEF Linked
    <3> QED
      BY <2>1, <3>1, <3>2, <3>3
  <2>2. CASE i \in D
    <3>1. IsTop(l.container[i].next, Below(Of(l, own, own[i]), i)) /\ own[i] \in Allocator
      BY <2>2 DEF Linked
    <3>2. l2.container[i].next = l.container[i].next /\ own2[i] = own[i]
      BY <1>4, <1>7, <2>2
    <3>3. Below(Of(l2, own2, own[i]), i) = Below(Of(l, own, own[i]), i)
      <4>1. ~(id < i)
        BY <1>3, <2>2
      <4> QED
        BY <1>9, <3>1, <4>1 DEF Below
    <3> QED
      BY <3>1, <3>2, <3>3
  <2> QED
    BY <2>1, <2>2
<1>12. Linked(l2, own2)
  <2>1. D \cup {id} \subseteq Id
    BY <1>3
  <2> QED
    BY <1>4, <1>5, <1>6, <1>7, <1>8, <1>10, <1>11, <2>1 DEF Linked
<1>13. ASSUME NEW b \in Allocator \ {a}, NEW p, NEW n, Follows(l, own, b, p, n)
       PROVE  Follows(l2, own2, b, p, n)
  <2>1. CASE p = None
    BY <1>6, <1>13, <2>1 DEF Follows, At
  <2>2. CASE p # None
    <3>1. p \in Of(l, own, b) /\ l.container[p].next = n /\ p \in D
      BY <1>13, <2>2 DEF Follows, At, Of
    <3> QED
      BY <1>7, <1>9, <2>2, <3>1 DEF Follows, At
  <2> QED
    BY <2>1, <2>2
<1>14. With(l, own, l2, own2, a, id, kind, m)
  BY <1>2, <1>4, <1>7, <1>12, <1>13 DEF With
<1> QED
  BY <1>14 DEF l2, own2

---------------------------------------------------------------------------
(***************************************************************************)
(* The invariant.                                                          *)
(***************************************************************************)

Maps ==
  [master : Allocator, slave : Allocator, table : BOOLEAN, master_cb_id : Int, slave_cb_id : Int]

Walks ==
  [event : {"free", "destroy"}, alloc : Allocator, prev : Id \cup {None}, cur : Id \cup {None}]

Typed ==
  /\ alive \subseteq Allocator
  /\ next_id \in 1 .. MaxId + 1
  /\ DOMAIN map \subseteq Map /\ map \in [DOMAIN map -> Maps]
  /\ tables \subseteq Map
  /\ walk = Idle \/ walk \in Walks

(* The containers were given to allocators that exist, and have old ids.   *)
OwnersSound(own) ==
  /\ Linked(Lists, own)
  /\ \A i \in DOMAIN container : i < next_id /\ own[i] \in alive

(* A callback of a map is known to the map.                                *)
CallbackKnown(own, i) ==
  LET m == container[i].map
  IN  /\ container[i].kind = "reset" =>
            m \in DOMAIN map /\ map[m].slave_cb_id = i /\ map[m].slave = own[i]
      /\ container[i].kind = "destroy" =>
            m \in DOMAIN map /\ map[m].master_cb_id = i /\ map[m].master = own[i]

Has(own, i, a, kind, m) ==
  i \in DOMAIN container /\ own[i] = a /\ container[i].kind = kind /\ container[i].map = m

(* Both callbacks of a map are registered; while its master is freed both  *)
(* may be gone.                                                            *)
MapRegistered(own, m) ==
  /\ map[m].master # map[m].slave
  /\ map[m].master_cb_id < next_id /\ map[m].slave_cb_id < next_id
  /\ \/ /\ Has(own, map[m].master_cb_id, map[m].master, "destroy", m)
        /\ Has(own, map[m].slave_cb_id, map[m].slave, "reset", m)
     \/ /\ Walked(map[m].master)
        /\ map[m].master_cb_id \notin DOMAIN container
        /\ map[m].slave_cb_id \notin DOMAIN container

Passed(i) == walk.cur = None \/ i > walk.cur

(* A callback that was called and stays has emptied its map, and no walk   *)
(* leaves a destroy callback behind.                                       *)
WalkSound(own) ==
  walk # Idle =>
    /\ walk.alloc \in alive
    /\ Follows(Lists, own, walk.alloc, walk.prev, walk.cur)
    /\ walk.event = "destroy" => walk.prev = None
    /\ \A i \in Of(Lists, own, walk.alloc) : Passed(i) =>
          /\ container[i].kind # "destroy"
          /\ container[i].kind = "reset" => ~map[container[i].map].table

Sound(own) ==
  /\ OwnersSound(own)
  /\ \A i \in DOMAIN container : CallbackKnown(own, i)
  /\ \A m \in DOMAIN map : MapRegistered(own, m)
  /\ WalkSound(own)

IInv == Typed /\ NoDanglingTable /\ \E own : Sound(own)

(* l is a state of the lists.                                              *)
LEMMA ListsSet ==
  ASSUME NEW l, NEW own, Linked(l, own), SetLists(l)
  PROVE  Lists' = l /\ container' = l.container /\ callbacks' = l.callbacks
<1>1. l = [callbacks |-> l.callbacks, container |-> l.container]
  BY DEF Linked
<1> QED
  BY <1>1 DEF Lists, SetLists

LEMMA Begins == Init => IInv
<1> SUFFICES ASSUME Init PROVE IInv
  OBVIOUS
<1> DEFINE own == [i \in {} |-> CHOOSE a \in Allocator : TRUE]
<1>1. DOMAIN container = {} /\ DOMAIN map = {} /\ map \in [DOMAIN map -> Maps]
      /\ container \in [DOMAIN container -> Containers]
  BY DEF Init
<1>2. Typed /\ NoDanglingTable
  BY <1>1, CallbacksAssumption DEF Init, Typed, NoDanglingTable
<1>3. Linked(Lists, own)
  BY <1>1 DEF Init, Linked, Lists, Of, IsTop
<1>4. Sound(own)
  BY <1>1, <1>3 DEF Sound, OwnersSound, WalkSound, Init
<1> QED
  BY <1>2, <1>4 DEF IInv

---------------------------------------------------------------------------
(***************************************************************************)
(* The calls that register and unregister.                                 *)
(***************************************************************************)

LEMMA ContainersAre ==
  ASSUME NEW own, Sound(own)
  PROVE  /\ Lists.container = container /\ Lists.callbacks = callbacks /\ Linked(Lists, own)
         /\ DOMAIN container \subseteq Int /\ DOMAIN container \subseteq Id
         /\ \A i \in DOMAIN container : /\ container[i] \in Containers /\ i < next_id
                                        /\ own[i] \in alive /\ own[i] \in Allocator
<1>1. Lists.container = container /\ Lists.callbacks = callbacks /\ Linked(Lists, own)
  BY DEF Sound, OwnersSound, Lists
<1>2. /\ DOMAIN container \subseteq Id /\ container \in [DOMAIN container -> Containers]
      /\ own \in [DOMAIN container -> Allocator]
  BY <1>1 DEF Linked
<1> QED
  BY <1>1, <1>2 DEF Sound, OwnersSound, Id

(* A user's callback comes.                                                *)
LEMMA RegisterUserKeeps ==
  ASSUME IInv, NEW a \in Allocator, RegisterUser(a)
  PROVE  IInv'
<1>1. PICK own : Sound(own)
  BY DEF IInv
<1> DEFINE l2 == Register(Lists, a, next_id, "user", None)
<1>2. /\ a \in alive /\ ~Walked(a) /\ next_id \in Id /\ next_id \in Int /\ next_id' = next_id + 1
      /\ UNCHANGED <<alive, map, tables, walk>> /\ SetLists(l2)
  BY CallbacksAssumption DEF RegisterUser, IInv, Typed, Id
<1>3. PICK own2 : With(Lists, own, l2, own2, a, next_id, "user", None)
  BY <1>1, <1>2, ContainersAre, Registered DEF Kinds
<1> HIDE DEF l2
<1>4. Lists' = l2 /\ container' = l2.container /\ Linked(Lists', own2)
  BY <1>2, <1>3, ListsSet DEF With
<1>5. /\ DOMAIN container' = DOMAIN container \cup {next_id} /\ next_id \notin DOMAIN container
      /\ container'[next_id].kind = "user" /\ own2[next_id] = a
      /\ \A i \in DOMAIN container : /\ container'[i].kind = container[i].kind
                                     /\ container'[i].map = container[i].map
                                     /\ own2[i] = own[i]
  BY <1>1, <1>2, <1>3, <1>4, ContainersAre DEF With
<1>6. OwnersSound(own2)'
  BY <1>1, <1>2, <1>4, <1>5, ContainersAre DEF OwnersSound
<1>7. ASSUME NEW i \in DOMAIN container' PROVE CallbackKnown(own2, i)'
  <2>1. CASE i = next_id
    BY <1>5, <2>1 DEF CallbackKnown
  <2>2. CASE i \in DOMAIN container
    BY <1>1, <1>2, <1>5, <2>2 DEF CallbackKnown, Sound
  <2> QED
    BY <1>5, <2>1, <2>2
<1>8. ASSUME NEW m \in DOMAIN map PROVE MapRegistered(own2, m)'
  <2>1. MapRegistered(own, m) /\ map[m] \in Maps
    BY <1>1 DEF Sound, IInv, Typed
  <2>2. map[m].master_cb_id \in Int /\ map[m].slave_cb_id \in Int
    BY <2>1 DEF Maps
  <2> QED
    BY <1>2, <1>5, <2>1, <2>2 DEF MapRegistered, Has, Walked
<1>9. WalkSound(own2)'
  <2> SUFFICES ASSUME walk # Idle PROVE WalkSound(own2)'
    BY <1>2 DEF WalkSound
  <2>1. walk.alloc # a /\ walk.alloc \in Allocator
    BY <1>2 DEF Walked, IInv, Typed, Walks
  <2>2. Follows(Lists', own2, walk.alloc, walk.prev, walk.cur)
    BY <1>1, <1>3, <1>4, <2>1 DEF Sound, WalkSound, With
  <2>3. Of(Lists', own2, walk.alloc) = Of(Lists, own, walk.alloc)
    BY <1>1, <1>4, <1>5, <2>1, ContainersAre DEF Of
  <2>4. Of(Lists, own, walk.alloc) \subseteq DOMAIN container
    BY <1>1, ContainersAre DEF Of
  <2> QED
    BY <1>1, <1>2, <1>5, <2>2, <2>3, <2>4 DEF Sound, WalkSound, Passed
<1>10. Sound(own2)'
  BY <1>2, <1>6, <1>7, <1>8, <1>9 DEF Sound
<1>11. Typed' /\ NoDanglingTable'
  BY <1>2, CallbacksAssumption DEF IInv, Typed, NoDanglingTable, Id
<1> QED
  BY <1>10, <1>11 DEF IInv

(* A user's callback goes.                                                 *)
LEMMA UnregisterUserKeeps ==
  ASSUME IInv, NEW a \in Allocator, NEW id \in Id, UnregisterUser(a, id)
  PROVE  IInv'
<1>1. PICK own : Sound(own)
  BY DEF IInv
<1> DEFINE l2 == Unregister(Lists, a, id)
           own2 == Remove(own, id)
<1>2. /\ ~Walked(a) /\ container[id].kind = "user" /\ id \in Members(Lists, a)
      /\ UNCHANGED <<alive, next_id, map, tables, walk>> /\ SetLists(l2)
  BY DEF UnregisterUser
<1>3. id \in Of(Lists, own, a) /\ id \in DOMAIN container /\ own[id] = a
  BY <1>1, <1>2, MembersAre, ContainersAre DEF Of
<1>4. Without(Lists, own, l2, own2, id)
  BY <1>1, <1>3, ContainersAre, Unregistered
<1> HIDE DEF l2, own2
<1>5. Lists' = l2 /\ container' = l2.container /\ Linked(Lists', own2)
  BY <1>2, <1>4, ListsSet DEF Without
<1>6. /\ DOMAIN container' = DOMAIN container \ {id}
      /\ \A i \in DOMAIN container' : /\ container'[i].kind = container[i].kind
                                      /\ container'[i].map = container[i].map
                                      /\ own2[i] = own[i]
  BY <1>1, <1>4, <1>5, ContainersAre DEF Without
<1>7. OwnersSound(own2)'
  BY <1>1, <1>2, <1>5, <1>6, ContainersAre DEF OwnersSound
<1>8. ASSUME NEW i \in DOMAIN container' PROVE CallbackKnown(own2, i)'
  BY <1>1, <1>2, <1>6 DEF CallbackKnown, Sound
<1>9. ASSUME NEW m \in DOMAIN map PROVE MapRegistered(own2, m)'
  BY <1>1, <1>2, <1>6 DEF Sound, MapRegistered, Has, Walked
<1>10. WalkSound(own2)'
  <2> SUFFICES ASSUME walk # Idle PROVE WalkSound(own2)'
    BY <1>2 DEF WalkSound
  <2>1. walk.alloc # a /\ walk.alloc \in Allocator
    BY <1>2 DEF Walked, IInv, Typed, Walks
  <2>2. Follows(Lists', own2, walk.alloc, walk.prev, walk.cur)
    BY <1>1, <1>3, <1>4, <1>5, <2>1 DEF Sound, WalkSound, Without
  <2>3. Of(Lists', own2, walk.alloc) = Of(Lists, own, walk.alloc)
    BY <1>1, <1>3, <1>4, <1>5, <1>6, <2>1, ContainersAre DEF Of
  <2>4. Of(Lists', own2, walk.alloc) \subseteq DOMAIN container'
    BY <1>5 DEF Of
  <2> QED
    BY <1>1, <1>2, <1>6, <2>2, <2>3, <2>4 DEF Sound, WalkSound, Passed
<1>11. Sound(own2)'
  BY <1>2, <1>7, <1>8, <1>9, <1>10 DEF Sound
<1>12. Typed' /\ NoDanglingTable'
  BY <1>2 DEF IInv, Typed, NoDanglingTable
<1> QED
  BY <1>11, <1>12 DEF IInv

(* An autoreset map comes with a callback in each of its allocators.       *)
LEMMA NewAutoresetKeeps ==
  ASSUME IInv, NEW m \in Map, NEW a \in Allocator, NEW b \in Allocator, NewAutoreset(m, a, b)
  PROVE  IInv'
<1>1. PICK own : Sound(own)
  BY DEF IInv
<1> DEFINE i1 == next_id
           i2 == next_id + 1
           l1 == Register(Lists, a, i1, "destroy", m)
           l2 == Register(l1, b, i2, "reset", m)
           r == [master |-> a, slave |-> b, table |-> FALSE, master_cb_id |-> i1, slave_cb_id |-> i2]
<1>2. /\ walk = Idle /\ walk' = Idle /\ a \in alive /\ b \in alive /\ a # b /\ m \notin DOMAIN map
      /\ next_id' = next_id + 2 /\ UNCHANGED <<alive, tables>> /\ SetLists(l2)
  BY DEF NewAutoreset
<1>3. map' = [n \in DOMAIN map \cup {m} |-> IF n = m THEN r ELSE map[n]]
  BY DEF NewAutoreset
<1>4. /\ i1 \in Id /\ i2 \in Id /\ i1 \in Int /\ i2 = i1 + 1 /\ next_id' = i1 + 2
      /\ next_id' \in 1 .. MaxId + 1
  BY <1>2, CallbacksAssumption DEF NewAutoreset, IInv, Typed, Id
<1>5. r \in Maps
  BY <1>4 DEF Maps
<1>6. /\ r.master = a /\ r.slave = b /\ r.table = FALSE /\ r.master_cb_id = i1
      /\ r.slave_cb_id = i2
  OBVIOUS
<1> HIDE DEF r
<1>7. PICK own1 : With(Lists, own, l1, own1, a, i1, "destroy", m)
  BY <1>1, <1>4, ContainersAre, Registered DEF Kinds
<1> HIDE DEF l1
<1>8. \A i \in DOMAIN l1.container : i < i2
  BY <1>1, <1>4, <1>7, ContainersAre DEF With
<1>9. PICK own2 : With(l1, own1, l2, own2, b, i2, "reset", m)
  <2>1. Linked(l1, own1)
    BY <1>7 DEF With
  <2> HIDE DEF i1, i2
  <2>2. "reset" \in Kinds /\ m \in Map \cup {None}
    BY DEF Kinds
  <2> QED
    BY <1>4, <1>8, <2>1, <2>2, Registered
<1> HIDE DEF l2, i1, i2
<1>10. Lists' = l2 /\ container' = l2.container /\ Linked(Lists', own2)
  BY <1>2, <1>9, ListsSet DEF With
<1>11. /\ DOMAIN container' = DOMAIN container \cup {i1, i2} /\ i1 # i2
       /\ i1 \notin DOMAIN container /\ i2 \notin DOMAIN container
       /\ container'[i1].kind = "destroy" /\ container'[i1].map = m /\ own2[i1] = a
       /\ container'[i2].kind = "reset" /\ container'[i2].map = m /\ own2[i2] = b
       /\ \A i \in DOMAIN container : /\ container'[i].kind = container[i].kind
                                      /\ container'[i].map = container[i].map
                                      /\ own2[i] = own[i]
  BY <1>1, <1>4, <1>7, <1>9, <1>10, ContainersAre DEF With, i1
<1>12. /\ DOMAIN map' = DOMAIN map \cup {m} /\ map'[m] = r
       /\ \A n \in DOMAIN map : map'[n] = map[n] /\ n # m
       /\ map' \in [DOMAIN map' -> Maps]
  BY <1>2, <1>3, <1>5 DEF IInv, Typed
<1>13. OwnersSound(own2)'
  BY <1>1, <1>2, <1>4, <1>10, <1>11, ContainersAre DEF OwnersSound, i1
<1>14. ASSUME NEW i \in DOMAIN container' PROVE CallbackKnown(own2, i)'
  <2>1. CASE i \in {i1, i2}
    BY <1>6, <1>11, <1>12, <2>1 DEF CallbackKnown
  <2>2. CASE i \in DOMAIN container
    BY <1>1, <1>11, <1>12, <2>2 DEF CallbackKnown, Sound
  <2> QED
    BY <1>11, <2>1, <2>2
<1>15. ASSUME NEW n \in DOMAIN map' PROVE MapRegistered(own2, n)'
  <2>1. CASE n = m
    BY <1>2, <1>4, <1>6, <1>11, <1>12, <2>1 DEF MapRegistered, Has
  <2>2. CASE n # m
    <3>1. MapRegistered(own, n) /\ map'[n] = map[n] /\ map[n] \in Maps
      BY <1>1, <1>12, <2>2 DEF Sound, IInv, Typed
    <3>2. map[n].master_cb_id \in Int /\ map[n].slave_cb_id \in Int
      BY <3>1 DEF Maps
    <3>3. ~Walked(map[n].master)
      BY <1>2 DEF Walked
    <3> QED
      BY <1>4, <1>11, <3>1, <3>2, <3>3 DEF MapRegistered, Has, i1
  <2> QED
    BY <2>1, <2>2
<1>16. Sound(own2)'
  BY <1>2, <1>13, <1>14, <1>15 DEF Sound, WalkSound
<1>17. Typed' /\ NoDanglingTable'
  BY <1>2, <1>4, <1>6, <1>12 DEF IInv, Typed, NoDanglingTable
<1> QED
  BY <1>16, <1>17 DEF IInv

LEMMA InsertKeeps ==
  ASSUME IInv, NEW m \in Map, Insert(m)
  PROVE  IInv'
<1>1. PICK own : Sound(own)
  BY DEF IInv
<1>2. /\ walk = Idle /\ m \in DOMAIN map /\ map' = [map EXCEPT ![m].table = TRUE]
      /\ tables' = tables \cup {m}
      /\ UNCHANGED <<alive, callbacks, container, next_id, walk>>
  BY DEF Insert
<1>3. /\ DOMAIN map' = DOMAIN map /\ map' \in [DOMAIN map -> Maps]
      /\ \A n \in DOMAIN map : /\ map'[n].master = map[n].master /\ map'[n].slave = map[n].slave
                               /\ map'[n].master_cb_id = map[n].master_cb_id
                               /\ map'[n].slave_cb_id = map[n].slave_cb_id
                               /\ n # m => map'[n].table = map[n].table
  BY <1>2 DEF IInv, Typed, Maps
<1>4. Typed' /\ NoDanglingTable'
  BY <1>2, <1>3 DEF IInv, Typed, NoDanglingTable
<1>5. OwnersSound(own)'
  BY <1>1, <1>2 DEF Sound, OwnersSound, Lists
<1>6. ASSUME NEW i \in DOMAIN container PROVE CallbackKnown(own, i)'
  BY <1>1, <1>2, <1>3 DEF Sound, CallbackKnown
<1>7. ASSUME NEW n \in DOMAIN map PROVE MapRegistered(own, n)'
  BY <1>1, <1>2, <1>3 DEF Sound, MapRegistered, Has, Walked
<1>8. WalkSound(own)'
  BY <1>2 DEF WalkSound
<1> QED
  BY <1>2, <1>3, <1>4, <1>5, <1>6, <1>7, <1>8 DEF IInv, Sound

LEMMA WalkBeginKeeps ==
  ASSUME IInv, NEW a \in Allocator, NEW event \in {"free", "destroy"}, WalkBegin(a, event)
  PROVE  IInv'
<1>1. PICK own : Sound(own)
  BY DEF IInv
<1>2. /\ a \in alive /\ walk = Idle
      /\ walk' = [event |-> event, alloc |-> a, prev |-> None, cur |-> callbacks[a]]
      /\ UNCHANGED <<alive, callbacks, container, next_id, map, tables>>
  BY DEF WalkBegin
<1>3. callbacks[a] \in Id \cup {None} /\ IsTop(callbacks[a], Of(Lists, own, a))
      /\ Of(Lists, own, a) \subseteq DOMAIN container
  BY <1>1, ContainersAre DEF Linked, Of
<1>4. /\ walk' \in Walks /\ walk'.event = event /\ walk'.alloc = a /\ walk'.prev = None
      /\ walk'.cur = callbacks[a]
  BY <1>2, <1>3 DEF Walks
<1>5. Typed' /\ NoDanglingTable'
  BY <1>2, <1>4 DEF IInv, Typed, NoDanglingTable
<1>6. OwnersSound(own)' /\ \A i \in DOMAIN container : CallbackKnown(own, i)'
  BY <1>1, <1>2 DEF Sound, OwnersSound, Lists, CallbackKnown
<1>7. ASSUME NEW n \in DOMAIN map PROVE MapRegistered(own, n)'
  BY <1>1, <1>2 DEF Sound, MapRegistered, Has, Walked
<1>8. ASSUME NEW i \in Of(Lists, own, a) PROVE ~Passed(i)'
  <2>1. i <= callbacks[a] /\ callbacks[a] # None /\ i \in Int /\ callbacks[a] \in Int
    BY <1>1, <1>3, ContainersAre DEF IsTop, Of
  <2> QED
    BY <1>4, <2>1 DEF Passed
<1>9. Follows(Lists, own, a, None, callbacks[a])
  BY DEF Follows, At, Lists
<1>10. WalkSound(own)'
  BY <1>2, <1>4, <1>8, <1>9 DEF WalkSound, Lists
<1> QED
  BY <1>2, <1>5, <1>6, <1>7, <1>10 DEF IInv, Sound

---------------------------------------------------------------------------
(***************************************************************************)
(* The walk.                                                               *)
(***************************************************************************)

(* Of the containers of the lists those in gone are not there any more,    *)
(* and the walk is at the container that followed.                         *)
Moved(l, own, own2, gone) ==
  /\ Linked(Lists', own2) /\ DOMAIN container' = DOMAIN l.container \ gone
  /\ \A i \in DOMAIN container' : /\ container'[i].kind = l.container[i].kind
                                  /\ container'[i].map = l.container[i].map
                                  /\ own2[i] = own[i]
  /\ walk' \in Walks /\ walk'.event = walk.event /\ walk'.alloc = walk.alloc
  /\ walk'.cur = l.container[walk.cur].next
  /\ Follows(Lists', own2, walk.alloc, walk'.prev, walk'.cur)
  /\ walk.event = "destroy" => walk'.prev = None

LEMMA Advanced ==
  ASSUME walk \in Walks, NEW l, NEW own, Linked(l, own), walk.cur \in Of(l, own, walk.alloc),
         Follows(l, own, walk.alloc, walk.prev, walk.cur),
         walk.event = "destroy" => walk.prev = None,
         NEW again \in BOOLEAN, Advance(l, again)
  PROVE  \E own2 : Moved(l, own, own2, IF ~again \/ walk.event = "destroy" THEN {walk.cur} ELSE {})
<1> DEFINE a == walk.alloc
           cur == walk.cur
           n == l.container[cur].next
<1>1. /\ a \in Allocator /\ cur \in DOMAIN l.container /\ cur # None /\ cur \in Id
      /\ walk.prev \in Id \cup {None} /\ n \in Id \cup {None}
  BY DEF Walks, Linked, Of, Id, None, Containers
<1>2. CASE ~again \/ walk.event = "destroy"
  <2> DEFINE l2 == Unlink(l, a, walk.prev, cur)
  <2>1. SetLists(l2) /\ walk' = [walk EXCEPT !.prev = walk.prev, !.cur = At(l2, a, walk.prev)]
    BY <1>2 DEF Advance
  <2> HIDE DEF a, cur, n
  <2>2. PICK own2 : Without(l, own, l2, own2, cur) /\ Follows(l2, own2, a, walk.prev, n)
    <3> HIDE DEF l2
    <3>1. LET own2 == Remove(own, cur)
          IN  Without(l, own, l2, own2, cur) /\ Follows(l2, own2, a, walk.prev, n)
      BY <1>1, Unlinked DEF a, cur, n, l2
    <3> QED
      BY <3>1
  <2> HIDE DEF l2
  <2>3. Lists' = l2 /\ container' = l2.container /\ Linked(Lists', own2)
    BY <2>1, <2>2, ListsSet DEF Without
  <2>4. At(l2, a, walk.prev) = n
    BY <2>2 DEF Follows
  <2>5. walk' \in Walks /\ walk'.event = walk.event /\ walk'.alloc = a /\ walk'.prev = walk.prev
        /\ walk'.cur = n
    BY <1>1, <2>1, <2>4 DEF Walks, a
  <2>6. Moved(l, own, own2, {cur})
    BY <2>2, <2>3, <2>5 DEF Moved, Without, a, cur, n
  <2> QED
    BY <1>2, <2>6 DEF cur
<1>3. CASE ~(~again \/ walk.event = "destroy")
  <2>1. SetLists(l) /\ walk' = [walk EXCEPT !.prev = cur, !.cur = At(l, a, cur)]
    BY <1>3 DEF Advance
  <2> HIDE DEF a, cur, n
  <2>2. Lists' = l /\ container' = l.container /\ Linked(Lists', own)
    BY <2>1, ListsSet
  <2>3. At(l, a, cur) = n
    BY <1>1 DEF At, n
  <2>4. walk' \in Walks /\ walk'.event = walk.event /\ walk'.alloc = a /\ walk'.prev = cur
        /\ walk'.cur = n
    BY <1>1, <2>1, <2>3 DEF Walks, a
  <2>5. Follows(l, own, a, cur, n)
    BY <2>3 DEF Follows, a, cur
  <2>6. Moved(l, own, own, {})
    BY <1>3, <2>2, <2>4, <2>5 DEF Moved, a, cur, n
  <2> QED
    BY <1>3, <2>6
<1> QED
  BY <1>2, <1>3

(* What the walk stands on.                                                *)
LEMMA Standing ==
  ASSUME IInv, NEW own, Sound(own), walk # Idle, walk.cur # None
  PROVE  /\ walk \in Walks /\ walk.alloc \in Allocator /\ walk.alloc \in alive
         /\ walk.cur \in Of(Lists, own, walk.alloc)
         /\ walk.cur \in DOMAIN container /\ own[walk.cur] = walk.alloc
         /\ Follows(Lists, own, walk.alloc, walk.prev, walk.cur)
         /\ walk.event = "destroy" => walk.prev = None
<1>1. /\ walk \in Walks /\ walk.alloc \in Allocator /\ walk.alloc \in alive
      /\ Follows(Lists, own, walk.alloc, walk.prev, walk.cur)
      /\ walk.event = "destroy" => walk.prev = None
  BY DEF IInv, Typed, Sound, WalkSound, Walks
<1>2. Linked(Lists, own) /\ Lists.container = container
  BY ContainersAre
<1>3. CASE walk.prev = None
  <2>1. IsTop(walk.cur, Of(Lists, own, walk.alloc))
    BY <1>1, <1>2, <1>3 DEF Follows, At, Linked
  <2> QED
    BY <1>1, <1>2, <2>1 DEF IsTop, Of
<1>4. CASE walk.prev # None
  <2>1. /\ walk.prev \in DOMAIN Lists.container /\ own[walk.prev] = walk.alloc
        /\ walk.cur = Lists.container[walk.prev].next
    BY <1>1, <1>4 DEF Follows, At, Of
  <2>2. IsTop(walk.cur, Below(Of(Lists, own, walk.alloc), walk.prev))
    BY <1>2, <2>1 DEF Linked
  <2> QED
    BY <1>1, <1>2, <2>2 DEF IsTop, Below, Of
<1> QED
  BY <1>3, <1>4

(* A map after a callback: as it was, but its data may be gone.            *)
SameMap(m) ==
  /\ m \in DOMAIN map
  /\ map'[m].master = map[m].master /\ map'[m].slave = map[m].slave
  /\ map'[m].master_cb_id = map[m].master_cb_id /\ map'[m].slave_cb_id = map[m].slave_cb_id
  /\ map'[m].table => map[m].table

(* A callback took the containers in gone out of the lists, and the maps   *)
(* it leaves lost both of theirs or none.                                  *)
LEMMA CallKeeps ==
  ASSUME IInv, NEW own, Sound(own), walk # Idle, walk.cur # None,
         NEW own2, NEW gone, Moved(Lists, own, own2, gone),
         UNCHANGED <<alive, next_id, tables>>,
         map' \in [DOMAIN map' -> Maps],
         \A m \in DOMAIN map' :
            /\ SameMap(m)
            /\ \/ map[m].master_cb_id \notin gone /\ map[m].slave_cb_id \notin gone
               \/ /\ map[m].master = walk.alloc
                  /\ map[m].master_cb_id \in gone /\ map[m].slave_cb_id \in gone,
         \A i \in DOMAIN container \ gone :
            container[i].kind # "user" => container[i].map \in DOMAIN map',
         \/ walk.cur \in gone
         \/ /\ container[walk.cur].kind # "destroy"
            /\ container[walk.cur].kind = "reset" => ~map'[container[walk.cur].map].table
  PROVE  IInv'
<1>1. /\ Lists.container = container /\ DOMAIN container \subseteq Int
      /\ \A i \in DOMAIN container : /\ container[i] \in Containers /\ i < next_id
                                     /\ own[i] \in alive
  BY ContainersAre
<1>2. /\ walk' \in Walks /\ walk'.event = walk.event /\ walk'.alloc = walk.alloc
      /\ Linked(Lists', own2) /\ DOMAIN container' = DOMAIN container \ gone
      /\ \A i \in DOMAIN container' : /\ container'[i].kind = container[i].kind
                                      /\ container'[i].map = container[i].map
                                      /\ own2[i] = own[i]
  BY <1>1 DEF Moved
<1>3. Typed' /\ NoDanglingTable'
  <2>1. DOMAIN map' \subseteq DOMAIN map
    BY DEF SameMap
  <2> QED
    BY <1>2, <2>1 DEF IInv, Typed, NoDanglingTable, SameMap
<1>4. OwnersSound(own2)'
  BY <1>1, <1>2 DEF OwnersSound
<1>5. ASSUME NEW i \in DOMAIN container' PROVE CallbackKnown(own2, i)'
  <2>1. CallbackKnown(own, i)
    BY <1>2 DEF Sound
  <2>2. container[i].kind # "user" => SameMap(container[i].map) /\ container[i].map \in DOMAIN map'
    BY <1>2
  <2> QED
    BY <1>2, <2>1, <2>2 DEF CallbackKnown, SameMap
<1>6. ASSUME NEW m \in DOMAIN map' PROVE MapRegistered(own2, m)'
  <2>1. SameMap(m) /\ MapRegistered(own, m)
    BY DEF Sound, SameMap
  <2>2. walk' # Idle
    BY <1>2 DEF Walks, Idle
  <2>3. Walked(map[m].master)' <=> map'[m].master = walk.alloc
    BY <1>2, <2>1, <2>2 DEF Walked, SameMap
  <2>4. Walked(map[m].master) <=> map[m].master = walk.alloc
    BY DEF Walked
  <2> QED
    BY <1>2, <2>1, <2>3, <2>4 DEF MapRegistered, Has, SameMap
<1>7. ASSUME NEW i \in DOMAIN container', own2[i] = walk.alloc, Passed(i)'
      PROVE  /\ container[i].kind # "destroy"
             /\ container[i].kind = "reset" => ~map'[container[i].map].table
  <2>1. i \in DOMAIN container /\ own[i] = walk.alloc /\ i \in Int /\ i \notin gone
    BY <1>1, <1>2, <1>7
  <2>2. walk.cur \in DOMAIN container /\ own[walk.cur] = walk.alloc /\ walk.cur \in Int
    BY <1>1, Standing
  <2>3. IsTop(walk'.cur, Below(Of(Lists, own, walk.alloc), walk.cur))
    BY <1>1, <2>2, ContainersAre DEF Linked, Moved
  <2>4. i >= walk.cur
    <3> SUFFICES ASSUME i < walk.cur PROVE FALSE
      BY <2>1, <2>2
    <3>1. i \in Below(Of(Lists, own, walk.alloc), walk.cur)
      BY <1>1, <2>1 DEF Below, Of
    <3>2. walk'.cur # None /\ i <= walk'.cur /\ walk'.cur \in DOMAIN container
      BY <1>1, <2>3, <3>1 DEF IsTop, Below, Of
    <3> QED
      BY <1>1, <1>7, <2>1, <3>2 DEF Passed
  <2>5. CASE i = walk.cur
    BY <2>1, <2>5
  <2>6. CASE i # walk.cur
    <3>1. Passed(i) /\ i \in Of(Lists, own, walk.alloc)
      BY <1>1, <2>1, <2>2, <2>4, <2>6 DEF Passed, Of
    <3>2. container[i].kind # "destroy" /\ (container[i].kind = "reset" => ~map[container[i].map].table)
      BY <3>1 DEF Sound, WalkSound
    <3> QED
      BY <2>1, <3>2 DEF SameMap
  <2> QED
    BY <2>5, <2>6
<1>8. WalkSound(own2)'
  <2>1. walk'.alloc \in alive
    BY <1>2, Standing
  <2>2. \A i \in Of(Lists', own2, walk.alloc) : i \in DOMAIN container' /\ own2[i] = walk.alloc
    BY DEF Of, Lists
  <2>3. \A i \in Of(Lists', own2, walk.alloc) : Passed(i)' =>
           /\ container'[i].kind # "destroy"
           /\ container'[i].kind = "reset" => ~map'[container'[i].map].table
    BY <1>2, <1>7, <2>2
  <2>4. Follows(Lists', own2, walk.alloc, walk'.prev, walk'.cur)
        /\ (walk.event = "destroy" => walk'.prev = None)
    BY DEF Moved
  <2> QED
    BY <1>2, <2>1, <2>3, <2>4 DEF WalkSound
<1> QED
  BY <1>3, <1>4, <1>5, <1>6, <1>8 DEF IInv, Sound

LEMMA CallUserKeeps ==
  ASSUME IInv, CallUser
  PROVE  IInv'
<1>1. PICK own : Sound(own)
  BY DEF IInv
<1>2. PICK again \in BOOLEAN : Advance(Lists, again)
  BY DEF CallUser
<1>3. /\ walk # Idle /\ walk.cur # None /\ container[walk.cur].kind = "user"
      /\ UNCHANGED <<alive, next_id, map, tables>>
  BY DEF CallUser, Calling
<1> DEFINE gone == IF ~again \/ walk.event = "destroy" THEN {walk.cur} ELSE {}
<1>4. \E own2 : Moved(Lists, own, own2, gone)
  BY <1>1, <1>2, <1>3, Standing, ContainersAre, Advanced
<1>5. PICK own2 : Moved(Lists, own, own2, gone)
  BY <1>4
<1>6. gone \subseteq {walk.cur}
  OBVIOUS
<1> HIDE DEF gone
<1>7. map' \in [DOMAIN map' -> Maps]
  BY <1>3 DEF IInv, Typed
<1>8. ASSUME NEW m \in DOMAIN map'
      PROVE  SameMap(m) /\ map[m].master_cb_id \notin gone /\ map[m].slave_cb_id \notin gone
  <2>1. m \in DOMAIN map /\ MapRegistered(own, m) /\ SameMap(m)
    BY <1>1, <1>3 DEF Sound, SameMap
  <2>2. walk.cur \in DOMAIN container
    BY <1>1, <1>3, Standing
  <2> QED
    BY <1>3, <1>6, <2>1, <2>2 DEF MapRegistered, Has
<1>9. \A i \in DOMAIN container \ gone : container[i].kind # "user" => container[i].map \in DOMAIN map'
  BY <1>1, <1>3, ContainersAre DEF Sound, CallbackKnown, Containers, Kinds
<1> QED
  BY <1>1, <1>3, <1>5, <1>7, <1>8, <1>9, CallKeeps

(* A callback takes another one out of another list, and goes itself.      *)
LEMMA BothGone ==
  ASSUME IInv, NEW own, Sound(own), walk # Idle, walk.cur # None,
         NEW b \in Allocator, b # walk.alloc, NEW j \in Of(Lists, own, b),
         NEW again \in BOOLEAN, ~again \/ walk.event = "destroy",
         Advance(Unregister(Lists, b, j), again)
  PROVE  \E own2 : Moved(Lists, own, own2, {j, walk.cur})
<1> DEFINE l1 == Unregister(Lists, b, j)
           own1 == Remove(own, j)
           a == walk.alloc
           cur == walk.cur
<1>1. /\ walk \in Walks /\ a \in Allocator /\ cur \in Of(Lists, own, a)
      /\ Follows(Lists, own, a, walk.prev, cur)
      /\ walk.event = "destroy" => walk.prev = None
  BY Standing
<1>2. Linked(Lists, own) /\ own[j] = b /\ j # cur
  BY <1>1, ContainersAre DEF Of
<1>3. Without(Lists, own, l1, own1, j)
  BY <1>2, Unregistered
<1> HIDE DEF l1, own1
<1>4. Linked(l1, own1) /\ Follows(l1, own1, a, walk.prev, cur) /\ a \in Allocator \ {own[j]}
  BY <1>1, <1>2, <1>3 DEF Without
<1>5. cur \in Of(l1, own1, a)
  BY <1>1, <1>2, <1>3 DEF Without, Of
<1>6. l1.container[cur].next = Lists.container[cur].next
  <2>1. cur # None
    OBVIOUS
  <2>2. Follows(Lists, own, a, cur, Lists.container[cur].next)
    BY <1>1, <2>1 DEF Follows, At
  <2>3. Follows(l1, own1, a, cur, Lists.container[cur].next)
    BY <1>3, <1>4, <2>2 DEF Without
  <2> QED
    BY <2>1, <2>3 DEF Follows, At
<1>7. PICK own2 : Moved(l1, own1, own2, {cur})
  <2>1. \E own2 : Moved(l1, own1, own2, IF ~again \/ walk.event = "destroy" THEN {walk.cur} ELSE {})
    BY <1>1, <1>4, <1>5, Advanced DEF l1
  <2> QED
    BY <2>1
<1>8. Moved(Lists, own, own2, {j, cur})
  <2>1. DOMAIN l1.container \ {cur} = DOMAIN Lists.container \ {j, cur}
    BY <1>3 DEF Without
  <2>2. \A i \in DOMAIN l1.container : /\ l1.container[i].kind = Lists.container[i].kind
                                       /\ l1.container[i].map = Lists.container[i].map
                                       /\ own1[i] = own[i]
    BY <1>3 DEF Without
  <2> QED
    BY <1>6, <1>7, <2>1, <2>2 DEF Moved
<1> QED
  BY <1>8

LEMMA CallResetKeeps ==
  ASSUME IInv, CallReset
  PROVE  IInv'
<1>1. PICK own : Sound(own)
  BY DEF IInv
<1> DEFINE cur == walk.cur
           m == container[cur].map
           j == map[m].master_cb_id
<1>2. /\ walk # Idle /\ cur # None /\ container[cur].kind = "reset"
      /\ UNCHANGED <<alive, next_id, tables>>
  BY DEF CallReset, Calling
<1>3. /\ cur \in DOMAIN container /\ own[cur] = walk.alloc /\ walk \in Walks
      /\ walk.event \in {"free", "destroy"} /\ cur \in Of(Lists, own, walk.alloc)
      /\ Follows(Lists, own, walk.alloc, walk.prev, cur)
      /\ walk.event = "destroy" => walk.prev = None
  BY <1>1, <1>2, Standing DEF Walks
<1>4. /\ m \in DOMAIN map /\ map[m].slave_cb_id = cur /\ map[m].slave = walk.alloc
      /\ MapRegistered(own, m)
  BY <1>1, <1>2, <1>3 DEF Sound, CallbackKnown
<1>5. map[m].master # walk.alloc /\ Has(own, j, map[m].master, "destroy", m)
  BY <1>3, <1>4 DEF MapRegistered
<1>6. map \in [DOMAIN map -> Maps]
  BY DEF IInv, Typed
<1>7. \A i \in DOMAIN container : container[i].kind # "user" => container[i].map \in DOMAIN map
  BY <1>1, ContainersAre DEF Sound, CallbackKnown, Containers, Kinds
<1>8. CASE walk.event = "destroy"
  <2>1. map' = Remove(map, m) /\ Advance(Unregister(Lists, map[m].master, j), TRUE)
    BY <1>8 DEF CallReset
  <2>2. /\ map[m].master \in Allocator /\ j \in Of(Lists, own, map[m].master)
    BY <1>1, <1>4, <1>5, <1>6, ContainersAre DEF Has, Of, Maps
  <2>3. PICK own2 : Moved(Lists, own, own2, {j, cur})
    BY <1>1, <1>2, <1>5, <1>8, <2>1, <2>2, BothGone
  <2>4. DOMAIN map' = DOMAIN map \ {m} /\ \A n \in DOMAIN map' : map'[n] = map[n]
    BY <2>1 DEF Remove
  <2>5. map' \in [DOMAIN map' -> Maps]
    BY <1>6, <2>1 DEF Remove
  <2> DEFINE gone == {j, cur}
  <2>6. ASSUME NEW n \in DOMAIN map'
        PROVE  SameMap(n) /\ map[n].master_cb_id \notin gone /\ map[n].slave_cb_id \notin gone
    <3>1. n \in DOMAIN map /\ n # m /\ MapRegistered(own, n) /\ map'[n] = map[n]
      BY <1>1, <2>4 DEF Sound
    <3>2. SameMap(n)
      BY <3>1 DEF SameMap
    <3> QED
      BY <1>3, <1>5, <3>1, <3>2 DEF MapRegistered, Has
  <2>7. ASSUME NEW i \in DOMAIN container \ gone, container[i].kind # "user"
        PROVE  container[i].map \in DOMAIN map'
    <3>1. container[i].map \in DOMAIN map /\ container[i].kind \in Kinds
      BY <1>1, <1>7, <2>7, ContainersAre DEF Containers
    <3>2. container[i].map # m
      BY <1>1, <1>4, <2>7, <3>1 DEF Sound, CallbackKnown, Kinds
    <3> QED
      BY <2>4, <3>1, <3>2
  <2>8. cur \in gone
    OBVIOUS
  <2> HIDE DEF gone
  <2>9. Moved(Lists, own, own2, gone)
    BY <2>3 DEF gone
  <2> QED
    BY <1>1, <1>2, <2>5, <2>6, <2>7, <2>8, <2>9, CallKeeps
<1>9. CASE walk.event = "free"
  <2>1. map' = [map EXCEPT ![m].table = FALSE] /\ Advance(Lists, TRUE)
    BY <1>9 DEF CallReset
  <2>2. PICK own2 : Moved(Lists, own, own2, {})
    <3>1. \E own2 : Moved(Lists, own, own2, IF ~TRUE \/ walk.event = "destroy" THEN {walk.cur} ELSE {})
      BY <1>1, <1>3, <2>1, ContainersAre, Advanced
    <3> QED
      BY <1>9, <3>1
  <2> HIDE DEF m
  <2>3. map' \in [DOMAIN map -> Maps] /\ DOMAIN map' = DOMAIN map /\ ~map'[m].table
    BY <1>4, <1>6, <2>1 DEF Maps
  <2>4. ASSUME NEW n \in DOMAIN map PROVE SameMap(n)
    BY <1>4, <1>6, <2>1 DEF SameMap, Maps
  <2> QED
    BY <1>1, <1>2, <1>7, <2>2, <2>3, <2>4, CallKeeps DEF m
<1> QED
  BY <1>3, <1>8, <1>9

LEMMA CallDestroyKeeps ==
  ASSUME IInv, CallDestroy
  PROVE  IInv'
<1>1. PICK own : Sound(own)
  BY DEF IInv
<1> DEFINE cur == walk.cur
           m == container[cur].map
           j == map[m].slave_cb_id
           gone == {j, cur}
<1>2. /\ walk # Idle /\ cur # None /\ container[cur].kind = "destroy"
      /\ Advance(Unregister(Lists, map[m].slave, j), FALSE)
      /\ UNCHANGED <<alive, next_id, map, tables>>
  BY DEF CallDestroy, Calling
<1>3. cur \in DOMAIN container /\ own[cur] = walk.alloc
  BY <1>1, <1>2, Standing
<1>4. /\ m \in DOMAIN map /\ map[m].master_cb_id = cur /\ map[m].master = walk.alloc
      /\ MapRegistered(own, m)
  BY <1>1, <1>2, <1>3 DEF Sound, CallbackKnown
<1>5. map[m].slave # walk.alloc /\ Has(own, j, map[m].slave, "reset", m)
  BY <1>3, <1>4 DEF MapRegistered
<1>6. map \in [DOMAIN map -> Maps]
  BY DEF IInv, Typed
<1>7. map[m].slave \in Allocator /\ j \in Of(Lists, own, map[m].slave)
  BY <1>1, <1>4, <1>5, <1>6, ContainersAre DEF Has, Of, Maps
<1>8. PICK own2 : Moved(Lists, own, own2, gone)
  BY <1>1, <1>2, <1>5, <1>7, BothGone
<1>9. ASSUME NEW n \in DOMAIN map'
      PROVE  /\ SameMap(n)
             /\ \/ map[n].master_cb_id \notin gone /\ map[n].slave_cb_id \notin gone
                \/ /\ map[n].master = walk.alloc
                   /\ map[n].master_cb_id \in gone /\ map[n].slave_cb_id \in gone
  <2>1. n \in DOMAIN map /\ MapRegistered(own, n) /\ SameMap(n)
    BY <1>1, <1>2 DEF Sound, SameMap
  <2>2. CASE n = m
    BY <1>4, <2>1, <2>2
  <2>3. CASE n # m
    BY <1>3, <1>5, <2>1, <2>3 DEF MapRegistered, Has
  <2> QED
    BY <2>2, <2>3
<1>10. \A i \in DOMAIN container \ gone : container[i].kind # "user" => container[i].map \in DOMAIN map'
  BY <1>1, <1>2, ContainersAre DEF Sound, CallbackKnown, Containers, Kinds
<1>11. cur \in gone
  OBVIOUS
<1> HIDE DEF gone
<1> QED
  BY <1>1, <1>2, <1>6, <1>8, <1>9, <1>10, <1>11, CallKeeps

(* The memory of the allocator goes, when none of its maps has a callback  *)
(* any more, and none that it is the slave of has data.                    *)
LEMMA WalkEndKeeps ==
  ASSUME IInv, WalkEnd
  PROVE  IInv'
<1>1. PICK own : Sound(own)
  BY DEF IInv
<1> DEFINE a == walk.alloc
           bases == {m \in DOMAIN map : map[m].master # a}
<1>2. /\ walk # Idle /\ walk.cur = None /\ walk' = Idle
      /\ map' = [m \in bases |-> map[m]]
      /\ tables' = {m \in tables \cap bases : map[m].slave # a}
      /\ alive' = IF walk.event = "destroy" THEN alive \ {a} ELSE alive
      /\ UNCHANGED <<callbacks, container, next_id>>
  BY DEF WalkEnd
<1>3. /\ DOMAIN map' = bases /\ bases \subseteq DOMAIN map /\ map' \in [bases -> Maps]
      /\ \A m \in bases : map'[m] = map[m]
  BY <1>2 DEF IInv, Typed
<1>4. a \in Allocator /\ walk \in Walks
  BY <1>2 DEF IInv, Typed, Walks
<1>5. ASSUME NEW i \in DOMAIN container, own[i] = a
      PROVE  /\ container[i].kind # "destroy"
             /\ container[i].kind = "reset" => ~map[container[i].map].table
  <2>1. i \in Of(Lists, own, a) /\ Passed(i)
    BY <1>1, <1>2, <1>5, ContainersAre DEF Of, Passed
  <2> QED
    BY <1>1, <1>2, <2>1 DEF Sound, WalkSound
<1>6. \A m \in bases : MapRegistered(own, m) /\ ~Walked(map[m].master)
  BY <1>1 DEF Sound, Walked
<1>7. \A m \in DOMAIN map \ bases : map[m].master_cb_id \notin DOMAIN container
                                    /\ map[m].slave_cb_id \notin DOMAIN container
  <2> SUFFICES ASSUME NEW m \in DOMAIN map \ bases
               PROVE  map[m].master_cb_id \notin DOMAIN container
                      /\ map[m].slave_cb_id \notin DOMAIN container
    OBVIOUS
  <2>1. MapRegistered(own, m) /\ map[m].master = a
    BY <1>1 DEF Sound
  <2> QED
    BY <1>5, <2>1 DEF MapRegistered, Has
<1>8. ASSUME NEW m \in bases, map[m].slave = a PROVE ~map[m].table
  <2>1. Has(own, map[m].slave_cb_id, a, "reset", m)
    BY <1>6, <1>8 DEF MapRegistered
  <2> QED
    BY <1>5, <2>1 DEF Has
<1> HIDE DEF bases
<1>9. NoDanglingTable'
  BY <1>2, <1>3, <1>8 DEF IInv, NoDanglingTable
<1>10. Typed'
  BY <1>2, <1>3 DEF IInv, Typed
<1>11. ASSUME NEW i \in DOMAIN container PROVE own[i] \in alive'
  <2>1. CASE walk.event = "destroy"
    <3>1. IsTop(None, Of(Lists, own, a))
      <4>1. walk.prev = None /\ Follows(Lists, own, a, walk.prev, walk.cur)
        BY <1>1, <1>2, <2>1 DEF Sound, WalkSound
      <4> QED
        BY <1>1, <1>2, <1>4, <4>1, ContainersAre DEF Follows, At, Linked
    <3>2. own[i] # a
      BY <1>1, <3>1, ContainersAre DEF IsTop, Of
    <3> QED
      BY <1>1, <1>2, <2>1, <3>2, ContainersAre
  <2>2. CASE walk.event # "destroy"
    BY <1>1, <1>2, <2>2, ContainersAre
  <2> QED
    BY <2>1, <2>2
<1>12. OwnersSound(own)'
  BY <1>1, <1>2, <1>11 DEF Sound, OwnersSound, Lists
<1>13. ASSUME NEW i \in DOMAIN container PROVE CallbackKnown(own, i)'
  <2>1. CallbackKnown(own, i)
    BY <1>1 DEF Sound
  <2>2. container[i].kind \in {"reset", "destroy"} => container[i].map \in bases
    BY <1>7, <2>1 DEF CallbackKnown
  <2> QED
    BY <1>2, <1>3, <2>1, <2>2 DEF CallbackKnown
<1>14. ASSUME NEW m \in bases PROVE MapRegistered(own, m)'
  BY <1>2, <1>3, <1>6 DEF MapRegistered, Has
<1>15. WalkSound(own)'
  BY <1>2 DEF WalkSound
<1> QED
  BY <1>2, <1>3, <1>9, <1>10, <1>12, <1>13, <1>14, <1>15 DEF IInv, Sound

---------------------------------------------------------------------------
(***************************************************************************)
(* What the invariant gives.                                               *)
(***************************************************************************)

LEMMA StepKeeps == IInv /\ [Next]_vars => IInv'
<1> SUFFICES ASSUME IInv, [Next]_vars PROVE IInv'
  OBVIOUS
<1>1. CASE \E a \in Allocator : RegisterUser(a)
  BY <1>1, RegisterUserKeeps
<1>2. CASE \E a \in Allocator, id \in Id : UnregisterUser(a, id)
  BY <1>2, UnregisterUserKeeps
<1>3. CASE \E m \in Map, a, b \in Allocator : NewAutoreset(m, a, b)
  BY <1>3, NewAutoresetKeeps
<1>4. CASE \E m \in Map : Insert(m)
  BY <1>4, InsertKeeps
<1>5. CASE \E a \in Allocator, event \in {"free", "destroy"} : WalkBegin(a, event)
  BY <1>5, WalkBeginKeeps
<1>6. CASE WalkStep
  BY <1>6, CallUserKeeps, CallResetKeeps, CallDestroyKeeps, WalkEndKeeps DEF WalkStep
<1>7. CASE UNCHANGED vars
  <2>1. UNCHANGED <<alive, callbacks, container, next_id, map, tables, walk>>
    BY <1>7 DEF vars
  <2>2. PICK own : Sound(own)
    BY DEF IInv
  <2>3. Sound(own)'
    BY <2>1, <2>2 DEF Sound, OwnersSound, CallbackKnown, MapRegistered, Has, WalkSound, Walked,
                      Passed, Lists
  <2> QED
    BY <2>1, <2>3 DEF IInv, Typed, NoDanglingTable
<1> QED
  BY <1>1, <1>2, <1>3, <1>4, <1>5, <1>6, <1>7 DEF Next

LEMMA Inductive == Spec => []IInv
<1> QED
  BY Begins, StepKeeps, PTL DEF Spec

(* Every container is in exactly one list, and a walk stands in the list   *)
(* it walks, whatever the callbacks register and unregister meanwhile.     *)
THEOREM ListsStaySound == Spec => []CallbackListsSound
<1>1. IInv => CallbackListsSound
  <2> SUFFICES ASSUME IInv PROVE CallbackListsSound
    OBVIOUS
  <2>1. PICK own : Sound(own)
    BY DEF IInv
  <2>2. \A a \in Allocator : Members(Lists, a) = Of(Lists, own, a)
    BY <2>1, ContainersAre, MembersAre
  <2>3. \A a \in Allocator : \A i : i \in Members(Lists, a) <=> i \in DOMAIN container /\ own[i] = a
    BY <2>1, <2>2, ContainersAre DEF Of
  <2>4. TypeOK
    <3>1. callbacks \in [Allocator -> Id \cup {None}]
      BY <2>1, ContainersAre DEF Linked
    <3>2. \A i \in DOMAIN container : ContainerOK(container[i])
      BY <2>1, ContainersAre DEF Containers, Kinds, ContainerOK
    <3>3. walk = Idle \/ /\ walk.alloc \in alive
                         /\ walk.prev \in Id \cup {None} /\ walk.cur \in Id \cup {None}
      BY <2>1 DEF IInv, Typed, Sound, WalkSound, Walks
    <3> QED
      BY <2>1, <3>1, <3>2, <3>3, ContainersAre DEF IInv, Typed, TypeOK
  <2>5. ListsExact
    <3>1. ASSUME NEW i \in DOMAIN container
          PROVE  Cardinality({a \in Allocator : i \in Members(Lists, a)}) = 1
      <4>1. own[i] \in Allocator
        BY <2>1, ContainersAre
      <4>2. {a \in Allocator : i \in Members(Lists, a)} = {own[i]}
        BY <2>3, <4>1
      <4> QED
        BY <4>2, FS_Singleton
    <3>2. ASSUME NEW a \in Allocator \ alive PROVE callbacks[a] = None
      <4>1. IsTop(callbacks[a], Of(Lists, own, a))
        BY <2>1, ContainersAre DEF Linked
      <4> QED
        BY <2>1, <4>1, ContainersAre DEF IsTop, Of
    <3> QED
      BY <2>3, <3>1, <3>2 DEF ListsExact
  <2>6. WalkInList
    BY <2>1, <2>2 DEF Sound, WalkSound, WalkInList, Follows, IInv, Typed, Walks
  <2> QED
    BY <2>4, <2>5, <2>6 DEF CallbackListsSound
<1> QED
  BY <1>1, Inductive, PTL

(* An autoreset map and its callbacks agree, in whatever order its two     *)
(* allocators are freed and destroyed, and the map never keeps a table     *)
(* that its slave has freed.                                               *)
THEOREM MapsStaySound == Spec => []MapsFollowAllocators
<1>1. IInv => MapsFollowAllocators
  <2> SUFFICES ASSUME IInv PROVE MapsFollowAllocators
    OBVIOUS
  <2>1. PICK own : Sound(own)
    BY DEF IInv
  <2>2. \A a \in Allocator : \A i : i \in Members(Lists, a) <=> i \in DOMAIN container /\ own[i] = a
    BY <2>1, ContainersAre, MembersAre DEF Of
  <2>3. CallbacksHaveMaps
    BY <2>1, <2>2 DEF Sound, CallbackKnown, CallbacksHaveMaps
  <2>4. MapsHaveCallbacks
    <3> SUFFICES ASSUME NEW m \in DOMAIN map, ~Walked(map[m].master)
                 PROVE  /\ map[m].master_cb_id \in Members(Lists, map[m].master)
                        /\ map[m].slave_cb_id \in Members(Lists, map[m].slave)
      BY DEF MapsHaveCallbacks
    <3>1. map[m].master \in Allocator /\ map[m].slave \in Allocator /\ MapRegistered(own, m)
      BY <2>1 DEF IInv, Typed, Maps, Sound
    <3> QED
      BY <2>2, <3>1 DEF MapRegistered, Has
  <2> QED
    BY <2>3, <2>4 DEF IInv, MapsFollowAllocators, MapsAndCallbacksAgree
<1> QED
  BY <1>1, Inductive, PTL

=============================================================================
