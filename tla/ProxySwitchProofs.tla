-------------------------- MODULE ProxySwitchProofs --------------------------
(***************************************************************************)
(* Theorems about ProxySwitch, for every set of proxies and workers and    *)
(* every number of retries, refreshes and bans that run out.               *)
(***************************************************************************)
EXTENDS ProxySwitch, TLAPS

Standing == {"absent", "usable", "banned"}

PoolTyped == pool \in [Proxy -> Standing]

RouteTyped ==
    /\ made \in Nat /\ proxy_client \in 0..made
    /\ proxy_address \in Proxy \cup {None}
    /\ at \in [Worker -> Place] /\ via \in [Worker -> Nat \cup {None}]
    /\ phase \in {"running", "unwinding", "ended"}

\* Until the run closes it, the shared client is the only open one.
OnlyRouteOpen == phase # "ended" => open = {proxy_client} \ {Direct}

LeftStandsBanned == \A p \in left : p \in Proxy /\ pool[p] # "usable"

Inv ==
    /\ PoolTyped /\ RouteTyped /\ OnlyRouteOpen /\ ClientsClosed
    /\ LeftStandsBanned /\ NotBackToLeft

-----------------------------------------------------------------------------
(* Lemmas on the pool.                                                      *)

\* A list makes a pool.
LEMMA PoolOfTyped ==
    ASSUME NEW list
    PROVE  PoolOf(list) \in [Proxy -> Standing]
BY DEF PoolOf, Standing

\* Blocking a proxy makes it, and nothing else, unusable.
LEMMA BlockedPool ==
    ASSUME PoolTyped, NEW p \in Proxy \cup {None}
    PROVE  /\ Blocked(p) \in [Proxy -> Standing]
           /\ p \in Proxy => Blocked(p)[p] # "usable"
           /\ \A q \in Proxy : pool[q] # "usable" => Blocked(p)[q] # "usable"
BY PoolAssumption DEF PoolTyped, Standing, Blocked

\* What is left stays banned while others use the pool.
LEMMA ElsewhereKeepsLeft ==
    ASSUME Inv, Elsewhere
    PROVE  Inv'
<1>1. PoolTyped' /\ \A q \in Proxy : pool[q] # "usable" => pool'[q] # "usable"
  <2>1. CASE StartRefresh
    BY <2>1 DEF StartRefresh, Inv, PoolTyped
  <2>2. CASE \E p \in Proxy : BlockedElsewhere(p)
    BY <2>2, BlockedPool DEF BlockedElsewhere, Inv, PoolTyped
  <2> QED
    BY <2>1, <2>2 DEF Elsewhere
<1>2. UNCHANGED <<workerVars, routeVars, phase, lifts, left>>
  BY DEF Elsewhere
<1> QED
  BY <1>1, <1>2 DEF Inv, RouteTyped, OnlyRouteOpen, ClientsClosed, LeftStandsBanned,
     NotBackToLeft, workerVars, routeVars

\* A ban that runs out takes its proxy out of what is left.
LEMMA LiftKeepsInv ==
    ASSUME Inv, Lift
    PROVE  Inv'
<1>1. PICK p \in Proxy : BanExpires(p) /\ left' = left \ {p}
  BY DEF Lift
<1>2. PoolTyped' /\ \A q \in Proxy : q # p => pool'[q] = pool[q]
  BY <1>1 DEF BanExpires, Inv, PoolTyped, Standing
<1>3. UNCHANGED <<workerVars, routeVars, phase>>
  BY DEF Lift
<1> QED
  BY <1>1, <1>2, <1>3 DEF Inv, RouteTyped, OnlyRouteOpen, ClientsClosed, LeftStandsBanned,
     NotBackToLeft, workerVars, routeVars

\* A swap forgets the bans and with them what is left, or changes nothing.
LEMMA SwapKeepsInv ==
    ASSUME Inv, Swap
    PROVE  Inv'
<1>1. PoolTyped'
  BY PoolOfTyped DEF Swap, SwapPool, Inv, PoolTyped
<1>2. (pool' = pool /\ left' = left) \/ left' = {}
  BY DEF Swap
<1>3. UNCHANGED <<workerVars, routeVars, phase>>
  BY DEF Swap
<1> QED
  BY <1>1, <1>2, <1>3 DEF Inv, RouteTyped, OnlyRouteOpen, ClientsClosed, LeftStandsBanned,
     NotBackToLeft, workerVars, routeVars

-----------------------------------------------------------------------------
(* The steps of a worker.                                                   *)

\* An attempt leaves the route alone.
LEMMA AttemptKeepsInv ==
    ASSUME Inv, NEW w \in Worker,
           Start(w) \/ Fetched(w) \/ AttemptFails(w) \/ Answered509(w)
    PROVE  Inv'
<1>1. UNCHANGED <<poolVars, routeVars, phase, left>>
  BY DEF Start, Fetched, AttemptFails, Answered509
<1>2. at' \in [Worker -> Place] /\ via' \in [Worker -> Nat \cup {None}]
  BY DEF Inv, RouteTyped, Place, Start, Fetched, AttemptFails, Answered509, Move, Opens, Closes
<1> QED
  BY <1>1, <1>2 DEF Inv, PoolTyped, RouteTyped, OnlyRouteOpen, ClientsClosed, LeftStandsBanned,
     NotBackToLeft, poolVars, routeVars

\* Neither does the end of aclose().
LEMMA LockReleaseKeepsInv ==
    ASSUME Inv, NEW w \in Worker, Rerouted(w) \/ NoProxyLeft(w)
    PROVE  Inv'
<1>1. UNCHANGED <<poolVars, proxy_client, proxy_address, made, open, phase, left>>
  BY DEF Rerouted, NoProxyLeft
<1>2. at' \in [Worker -> Place] /\ via' \in [Worker -> Nat \cup {None}]
  BY DEF Inv, RouteTyped, Place, Rerouted, NoProxyLeft, Move, Opens
<1> QED
  BY <1>1, <1>2 DEF Inv, PoolTyped, RouteTyped, OnlyRouteOpen, ClientsClosed, LeftStandsBanned,
     NotBackToLeft, poolVars

\* A switch bans what it leaves, picks what is not banned, and closes the old
\* client as it installs the new one.
LEMMA SwitchKeepsInv ==
    ASSUME Inv, phase = "running", NEW w \in Worker, Switch(w)
    PROVE  Inv'
<1> DEFINE usable == Usable(Leave(proxy_address), {proxy_address})
<1>1. /\ Blocked(proxy_address) \in [Proxy -> Standing]
      /\ proxy_address \in Proxy => Blocked(proxy_address)[proxy_address] # "usable"
      /\ \A q \in Proxy : pool[q] # "usable" => Blocked(proxy_address)[q] # "usable"
  BY BlockedPool DEF Inv, RouteTyped
<1>2. pool' = Blocked(proxy_address) /\ left' = left \cup ({proxy_address} \ {None})
  BY DEF Switch, Leave
<1>3. PoolTyped' /\ LeftStandsBanned'
  BY <1>1, <1>2 DEF Inv, PoolTyped, RouteTyped, LeftStandsBanned
<1>4. phase' = phase /\ open = {proxy_client} \ {Direct}
  BY DEF Switch, Inv, OnlyRouteOpen
<1>5. CASE usable = {}
  <2>1. /\ proxy_address' = None /\ proxy_client' = Direct /\ made' = made
        /\ open' = (open \ {proxy_client}) \cup {}
        /\ at' = [at EXCEPT ![w] = GivesUp(proxy_client)] /\ via' = via
    BY <1>5 DEF Switch, OldClosed
  <2>2. open' = {}
    BY <1>4, <2>1
  <2>3. RouteTyped'
    BY <1>4, <2>1 DEF Inv, RouteTyped, Place, GivesUp, Direct
  <2>4. NotBackToLeft'
    BY <1>3, <2>1, PoolAssumption DEF LeftStandsBanned, NotBackToLeft
  <2> QED
    BY <1>3, <1>4, <2>1, <2>2, <2>3, <2>4 DEF Inv, OnlyRouteOpen, ClientsClosed
<1>6. CASE usable # {}
  <2>1. /\ proxy_address' \in usable /\ made' = made + 1 /\ proxy_client' = made'
        /\ open' = (open \ {proxy_client}) \cup {made'}
        /\ at' = [at EXCEPT ![w] = IF proxy_client = Direct THEN "streaming" ELSE "closing"]
        /\ via' = [via EXCEPT ![w] = IF proxy_client = Direct THEN proxy_client' ELSE @]
    BY <1>6 DEF Switch, OldClosed, ClientAfter
  <2>2. made \in Nat /\ made' # Direct
    BY <2>1 DEF Inv, RouteTyped, Direct
  <2>3. open' = {proxy_client'} \ {Direct}
    BY <1>4, <2>1, <2>2
  <2>4. proxy_address' \in Proxy /\ pool'[proxy_address'] = "usable"
    BY <1>2, <2>1 DEF Usable, Leave
  <2>5. RouteTyped'
    <3>1. at' \in [Worker -> Place]
      BY <2>1 DEF Inv, RouteTyped, Place
    <3>2. via' \in [Worker -> Nat \cup {None}]
      BY <2>1, <2>2 DEF Inv, RouteTyped
    <3> QED
      BY <1>4, <2>1, <2>2, <2>4, <3>1, <3>2 DEF Inv, RouteTyped
  <2>6. NotBackToLeft'
    BY <1>3, <2>4 DEF LeftStandsBanned, NotBackToLeft
  <2> QED
    BY <1>3, <1>4, <2>3, <2>5, <2>6 DEF Inv, OnlyRouteOpen, ClientsClosed
<1> QED
  BY <1>5, <1>6

-----------------------------------------------------------------------------
(* The steps of the run, and the invariant.                                 *)

\* Cancelling the workers leaves the shared client as it is.
LEMMA UnwindKeepsInv ==
    ASSUME Inv, Unwind
    PROVE  Inv'
<1>1. /\ UNCHANGED <<poolVars, proxy_client, proxy_address, made, open, left>>
      /\ phase = "running" /\ phase' = "unwinding"
  BY DEF Unwind
<1>2. at' \in [Worker -> Place] /\ via' \in [Worker -> Nat \cup {None}]
  BY DEF Inv, RouteTyped, Place, Unwind
<1> QED
  BY <1>1, <1>2 DEF Inv, PoolTyped, RouteTyped, OnlyRouteOpen, ClientsClosed, LeftStandsBanned,
     NotBackToLeft, poolVars

\* It is the one that is open, so closing it closes all.
LEMMA CloseKeepsInv ==
    ASSUME Inv, CloseClients
    PROVE  Inv'
<1>1. /\ UNCHANGED <<poolVars, workerVars, proxy_client, proxy_address, made, left>>
      /\ phase = "unwinding" /\ phase' = "ended" /\ open' = open \ {proxy_client}
  BY DEF CloseClients
<1>2. open' = {}
  BY <1>1 DEF Inv, OnlyRouteOpen
<1> QED
  BY <1>1, <1>2 DEF Inv, PoolTyped, RouteTyped, OnlyRouteOpen, ClientsClosed, LeftStandsBanned,
     NotBackToLeft, poolVars, workerVars

\* The invariant is inductive.
LEMMA InvInductive ==
    ASSUME Inv, [Next]_vars
    PROVE  Inv'
<1>1. CASE phase = "running" /\ \E w \in Worker : WorkerStep(w)
  <2>1. PICK w \in Worker : WorkerStep(w)
    BY <1>1
  <2>2. CASE Start(w) \/ Fetched(w) \/ AttemptFails(w) \/ Answered509(w)
    BY <2>2, AttemptKeepsInv
  <2>3. CASE Switch(w)
    BY <1>1, <2>3, SwitchKeepsInv
  <2>4. CASE Rerouted(w) \/ NoProxyLeft(w)
    BY <2>4, LockReleaseKeepsInv
  <2> QED
    BY <2>1, <2>2, <2>3, <2>4 DEF WorkerStep
<1>2. CASE RunEnds \/ Cancel
  BY <1>2, UnwindKeepsInv DEF RunEnds, Cancel
<1>3. CASE CloseClients
  BY <1>3, CloseKeepsInv
<1>4. CASE Lift
  BY <1>4, LiftKeepsInv
<1>5. CASE Swap
  BY <1>5, SwapKeepsInv
<1>6. CASE Elsewhere
  BY <1>6, ElsewhereKeepsLeft
<1>7. CASE UNCHANGED vars
  BY <1>7 DEF vars, Inv, PoolTyped, RouteTyped, OnlyRouteOpen, ClientsClosed, LeftStandsBanned,
     NotBackToLeft, poolVars, workerVars, routeVars
<1> QED
  BY <1>1, <1>2, <1>3, <1>4, <1>5, <1>6, <1>7 DEF Next

\* It holds at first.
LEMMA InitInv ==
    ASSUME Init
    PROVE  Inv
<1>1. PoolTyped
  BY PoolOfTyped DEF Init, PoolInit, PoolTyped
<1>2. RouteTyped
  BY DEF Init, RouteTyped, Place, Direct
<1> QED
  BY <1>1, <1>2 DEF Init, Inv, OnlyRouteOpen, ClientsClosed, LeftStandsBanned, NotBackToLeft

\* It always holds.
LEMMA InvAlways == Spec => []Inv
BY InitInv, InvInductive, PTL DEF Spec

-----------------------------------------------------------------------------
(* The theorems.                                                            *)

\* No client outlives its transfer, however many workers replaced it
\* (ClientsClosed).
THEOREM ClientsNeverLeak == Spec => []ClientsClosed
BY InvAlways, PTL DEF Inv

\* A transfer does not return to a proxy while it is banned (NotBackToLeft).
THEOREM BannedNeverReturnedTo == Spec => []NotBackToLeft
BY InvAlways, PTL DEF Inv

\* Attempts start over an open client only (StartsOnOpen).
THEOREM NeverStartsOnClosed == Spec => StartsOnOpen
<1>1. ASSUME Inv, [Next]_vars
      PROVE  [\A w \in Worker :
                 at[w] # "streaming" /\ at'[w] = "streaming" => via'[w] \in open' \cup {Direct}]_vars
  <2>1. CASE phase = "running" /\ \E w \in Worker : WorkerStep(w)
    <3>1. PICK v \in Worker : WorkerStep(v)
      BY <2>1
    <3>2. open = {proxy_client} \ {Direct} /\ at \in [Worker -> Place] /\ via \in [Worker -> Nat \cup {None}]
      BY <1>1, <2>1 DEF Inv, OnlyRouteOpen, RouteTyped
    <3>3. CASE Switch(v)
      <4>1. Inv'
        BY <1>1, <2>1, <3>3, SwitchKeepsInv
      <4>2. phase' = "running"
        BY <2>1, <3>3 DEF Switch
      <4>3. open' = {proxy_client'} \ {Direct}
        BY <4>1, <4>2 DEF Inv, OnlyRouteOpen
      <4>4. \A w \in Worker : w # v => at'[w] = at[w]
        BY <3>2, <3>3 DEF Switch
      <4>5. at'[v] = "streaming" => via'[v] = proxy_client'
        BY <3>2, <3>3 DEF Switch, GivesUp
      <4> QED
        BY <4>3, <4>4, <4>5
    <3>4. CASE Start(v) \/ Rerouted(v)
      BY <3>2, <3>4 DEF Start, Rerouted, Move, Opens, routeVars
    <3>5. CASE Fetched(v) \/ AttemptFails(v) \/ Answered509(v) \/ NoProxyLeft(v)
      BY <3>2, <3>5 DEF Fetched, AttemptFails, Answered509, NoProxyLeft, Move
    <3> QED
      BY <3>1, <3>3, <3>4, <3>5 DEF WorkerStep
  <2>2. CASE RunEnds \/ Cancel
    BY <2>2 DEF RunEnds, Cancel, Unwind, Over
  <2>3. CASE CloseClients \/ Lift \/ Swap \/ Elsewhere \/ UNCHANGED vars
    BY <2>3 DEF CloseClients, Lift, Swap, Elsewhere, workerVars, vars
  <2> QED
    BY <1>1, <2>1, <2>2, <2>3 DEF Next
<1> QED
  BY <1>1, InvAlways, PTL DEF Spec, StartsOnOpen
=============================================================================
