------------------------------ MODULE MCProxies ------------------------------
(* ProxySwitch and ApiRequest for TLC: the two that take proxies from the    *)
(* pool.  A behaviour is that of one transfer or of one request to the API,  *)
(* the part it takes; what the other does to the pool is BlockedElsewhere.   *)
EXTENDS ProxySwitch, ApiRequest

CONSTANT MaxTransferRefreshes   \* bound: refreshes of the pool during a transfer

VARIABLE part

transferVars == <<workerVars, routeVars, phase, lifts, left>>
eachVars == <<part, poolVars, transferVars, requestVars>>

\* The part not taken is over.
NoTransfer ==
    /\ at = [w \in Worker |-> "ready"] /\ via = [w \in Worker |-> None]
    /\ attempt = [w \in Worker |-> 0]
    /\ proxy_client = Direct /\ proxy_address = None /\ proxy_lock = None
    /\ made = 0 /\ open = {}
    /\ phase = "ended" /\ lifts = 0 /\ left = {}
NoRequest ==
    /\ smart_proxy = FALSE /\ request_phase = "ended" /\ conta_error = 0
    /\ response_text = None /\ header = FALSE
    /\ request_proxy = None /\ excluded_proxies = {}
    /\ result = "none" /\ last = "none" /\ answered509 = {}

EachInit ==
    /\ part \in {"transfer", "request"}
    /\ PoolInit
    /\ IF part = "transfer" THEN Init ELSE NoTransfer
    /\ IF part = "request" THEN RequestInit ELSE NoRequest

EachNext ==
    /\ \/ /\ part = "transfer" /\ Next /\ refreshes' <= MaxTransferRefreshes
          /\ UNCHANGED requestVars
       \/ part = "request" /\ RequestNext /\ UNCHANGED transferVars
    /\ UNCHANGED part

FairEachSpec ==
    /\ EachInit /\ [][EachNext]_eachVars
    /\ SwitchFairness /\ RequestFairness
=============================================================================
