-------------------------- MODULE ApiRequestProofs --------------------------
(***************************************************************************)
(* Theorems about ApiRequest, for every set of proxies and every number of *)
(* retries and refreshes.                                                  *)
(***************************************************************************)
EXTENDS ApiRequest, TLAPS

\* A proxy that has answered 509 is the one in use, or excluded: a ban would
\* not do, it may be lifted at any time.
AnsweredIsLeft == answered509 \subseteq excluded_proxies \cup {request_proxy}

RouteKnown == request_proxy \in Proxy \cup {None} /\ answered509 \subseteq Proxy

Inv == AnsweredIsLeft /\ RouteKnown

-----------------------------------------------------------------------------

\* A switch excludes the proxy it leaves and takes one that is not excluded, if
\* it finds one.
LEMMA SwitchLeaves ==
    ASSUME AnsweredIsLeft, RouteKnown, SwitchProxy,
           answered509' \subseteq answered509 \cup ({request_proxy} \ {None})
    PROVE  /\ AnsweredIsLeft' /\ RouteKnown'
           /\ request_proxy' # request_proxy => request_proxy' \notin answered509'
<1>1. excluded_proxies' = excluded_proxies \cup ({request_proxy} \ {None})
  BY DEF SwitchProxy, Excluded
<1>2. answered509' \subseteq excluded_proxies'
  <2>1. answered509 \subseteq (excluded_proxies \cup {request_proxy}) /\ None \notin answered509
    BY PoolAssumption DEF AnsweredIsLeft, RouteKnown
  <2> QED
    BY <2>1, <1>1
<1>3. \/ request_proxy' = request_proxy
      \/ request_proxy' \in Proxy \ excluded_proxies'
  BY <1>1 DEF SwitchProxy, Usable, Excluded
<1>4. RouteKnown'
  BY <1>3 DEF RouteKnown
<1> QED
  BY <1>2, <1>3, <1>4 DEF AnsweredIsLeft

\* An attempt that does not switch stays on its proxy.
LEMMA AttemptLeaves ==
    ASSUME AnsweredIsLeft, RouteKnown, NEW reply \in Reply, Attempt(reply)
    PROVE  /\ AnsweredIsLeft' /\ RouteKnown'
           /\ request_proxy' # request_proxy => request_proxy' \notin answered509'
<1>1. answered509' \subseteq answered509 \cup ({request_proxy} \ {None})
  BY DEF Attempt
<1>2. CASE SwitchProxy
  BY <1>1, <1>2, SwitchLeaves
<1>3. CASE Stay(reply)
  <2>1. UNCHANGED <<request_proxy, excluded_proxies>>
    BY <1>3 DEF Stay
  <2> QED
    BY <1>1, <2>1 DEF AnsweredIsLeft, RouteKnown
<1> QED
  BY <1>2, <1>3 DEF Attempt

LEMMA InvInductive ==
    ASSUME Inv, [RequestNext]_apiVars
    PROVE  /\ Inv'
           /\ request_proxy' # request_proxy => request_proxy' \notin answered509'
<1>1. CASE Request
  BY <1>1, AttemptLeaves DEF Inv, Request
<1>2. CASE UNCHANGED requestVars
  BY <1>2 DEF Inv, requestVars, AnsweredIsLeft, RouteKnown
<1> QED
  BY <1>1, <1>2 DEF RequestNext, Meanwhile, apiVars

LEMMA InitInv == RequestInit => Inv
BY DEF RequestInit, Inv, AnsweredIsLeft, RouteKnown

\* No request returns to a proxy that has answered it 509, whatever happens to
\* the pool during its backoffs.
THEOREM RequestsNeverReturn == RequestSpec => NeverBackTo509
<1>1. Inv /\ [RequestNext]_apiVars => Inv'
  BY InvInductive
<1>2. Inv /\ [RequestNext]_apiVars =>
        [request_proxy' # request_proxy => request_proxy' \notin answered509']_apiVars
  BY InvInductive
<1> QED
  BY <1>1, <1>2, InitInv, PTL DEF RequestSpec, NeverBackTo509
=============================================================================
