--------------------------- MODULE SmartProxyPool ---------------------------
(***************************************************************************)
(* The pool of SmartProxyManager, app/core/proxy_manager.py, as those who  *)
(* take proxies from it share it: ApiRequest and ProxySwitch.  While one   *)
(* of them waits, others ban proxies, bans run out, and the settings page  *)
(* swaps the pool for that of a new list.                                  *)
(*                                                                         *)
(* Nothing sets verified_pool_provider, so the verified pool is left out.  *)
(***************************************************************************)
EXTENDS Integers, FiniteSets

CONSTANTS
    Proxy,
    None,           \* model value: no proxy
    MaxRefreshes    \* bound: refreshes of the pool

ASSUME PoolAssumption ==
    /\ IsFiniteSet(Proxy) /\ None \notin Proxy
    /\ MaxRefreshes \in Nat

VARIABLES
    pool,           \* proxy -> "absent", "usable" or "banned"
    ban_time_zero,  \* ban_time = 0: a blocked proxy is dropped
    refreshing,     \* the lists of the refreshes that still fetch their sources
    refreshes

poolVars == <<pool, ban_time_zero, refreshing, refreshes>>

PoolOf(list) == [p \in Proxy |-> IF p \in list THEN "usable" ELSE "absent"]

PoolInit ==
    /\ \E list \in SUBSET Proxy : pool = PoolOf(list)
    /\ ban_time_zero \in BOOLEAN /\ refreshing = {} /\ refreshes = 0

\* block_proxy and pick_proxy.
Blocked(p) ==
    IF p = None \/ pool[p] = "absent" THEN pool
    ELSE [pool EXCEPT ![p] = IF ban_time_zero THEN "absent" ELSE "banned"]
Usable(in, excluded) == {p \in Proxy \ excluded : in[p] = "usable"}

\* Somebody else's request failed through the proxy.
BlockedElsewhere(p) ==
    /\ pool[p] = "usable" /\ pool' = Blocked(p)
    /\ UNCHANGED <<ban_time_zero, refreshing, refreshes>>

\* ban_time seconds have passed.
BanExpires(p) ==
    /\ pool[p] = "banned" /\ pool' = [pool EXCEPT ![p] = "usable"]
    /\ UNCHANGED <<ban_time_zero, refreshing, refreshes>>

\* New settings, or a refresh alone: refresh_from_text up to the fetch of its
\* sources, and the swap after it.
StartRefresh ==
    /\ refreshes < MaxRefreshes /\ refreshes' = refreshes + 1
    /\ ban_time_zero' \in BOOLEAN
    /\ \E list \in SUBSET Proxy : refreshing' = refreshing \cup {list}
    /\ UNCHANGED pool

SwapPool ==
    \E list \in refreshing :
      /\ refreshing' = refreshing \ {list}
      /\ pool' = IF list = {} THEN pool ELSE PoolOf(list)
      /\ UNCHANGED <<ban_time_zero, refreshes>>
=============================================================================
