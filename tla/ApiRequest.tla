----------------------------- MODULE ApiRequest -----------------------------
(***************************************************************************)
(* One request to MEGA's API, MegaAPI._raw_request of app/core/mega_api.py, *)
(* with the SmartProxy pool it shares with everybody else.                 *)
(*                                                                         *)
(* An attempt is one action: its answer arrives, and the code goes on to   *)
(* the next POST or out of the loop.                                       *)
(***************************************************************************)
EXTENDS SmartProxyPool

CONSTANT MaxRequestRetries     \* MAX_RAW_REQUEST_RETRIES

ASSUME RequestAssumption == MaxRequestRetries \in Nat

VARIABLES
    smart_proxy,    \* the client has a proxy_manager
    request_phase,  \* "posting" or "ended"
    conta_error,    \* attempts that were backed off from
    response_text,  \* None, "empty", "code" (retry me) or "answer"
    header,         \* the next POST carries a solved challenge
    request_proxy, excluded_proxies,
    result,         \* what the request came to
    last,           \* history: how the last attempt was answered
    answered509     \* history: proxies through which a 509 came

requestVars == <<smart_proxy, request_phase, conta_error, response_text, header, request_proxy,
                 excluded_proxies, result, last, answered509>>
apiVars == <<poolVars, requestVars>>

-----------------------------------------------------------------------------
(* The request.                                                             *)

\* A 200 with a body, "code" being one of MEGA_ERROR_NO_EXCEPTION_CODES and
\* "error" any other; a status, "challenge" being a 402 that was solved and
\* "transient" another 402, a 500 or a 503; or an httpx.HTTPError.
Body == {"empty", "code", "answer"}
Reply == Body \cup {"error", "challenge", "transient", "509", "status", "transport"}

RequestInit ==
    /\ PoolInit
    /\ smart_proxy \in BOOLEAN
    /\ request_phase = "posting" /\ conta_error = 0 /\ response_text = None /\ header = FALSE
    /\ request_proxy = None /\ excluded_proxies = {}
    /\ result = "none" /\ last = "none" /\ answered509 = {}

Retryable(reply) ==
    \/ reply \in {"empty", "code", "challenge", "transient", "transport"}
    \/ reply = "509" /\ smart_proxy

\* The text of an earlier attempt stays when this one brings none.
TextAfter(reply) == IF reply \in Body THEN reply ELSE response_text

\* json.loads of the text, if there is one.
Parsed(text) ==
    CASE text = None     -> "raised"
      [] text = "empty"  -> "not json"
      [] text = "code"   -> "error code"
      [] text = "answer" -> "answer"

HeaderAfter(reply) == reply = "challenge"

\* Faulty variant: a new route is worth a fresh try.
CountsUnlessRerouted(reply) == reply \notin {"challenge", "509"}
Counts(reply) == reply # "challenge"

\* After a backoff, which is what counts, the next POST.
Again(reply) ==
    /\ conta_error' = IF Counts(reply) THEN conta_error + 1 ELSE conta_error
    /\ header' = HeaderAfter(reply)
    /\ UNCHANGED <<request_phase, result>>
End(how) == request_phase' = "ended" /\ result' = how /\ header' = FALSE /\ UNCHANGED conta_error

\* Faulty variant: the proxy is banned but not remembered.
ExcludedOnlyByBan == excluded_proxies
Excluded == excluded_proxies \cup ({request_proxy} \ {None})

\* Ban the proxy that answered 509 and pick another; with none left, stay.
SwitchProxy ==
    LET usable == Usable(Blocked(request_proxy), Excluded) IN
    /\ pool' = Blocked(request_proxy) /\ excluded_proxies' = Excluded
    /\ request_proxy' \in IF usable = {} THEN {request_proxy} ELSE usable

\* A proxy that fails is banned, and still used for the next attempt.
Stay(reply) ==
    /\ pool' = IF reply = "transport" THEN Blocked(request_proxy) ELSE pool
    /\ UNCHANGED <<request_proxy, excluded_proxies>>

Attempt(reply) ==
    LET again == Retryable(reply) /\ conta_error < MaxRequestRetries IN
    /\ request_phase = "posting"
    /\ response_text' = TextAfter(reply)
    /\ IF again THEN Again(reply)
       ELSE End(IF reply = "error" THEN "raised" ELSE Parsed(TextAfter(reply)))
    /\ IF again /\ reply = "509" THEN SwitchProxy ELSE Stay(reply)
    /\ last' = reply
    /\ answered509' = answered509 \cup (IF reply = "509" THEN {request_proxy} \ {None} ELSE {})
    /\ UNCHANGED <<ban_time_zero, refreshing, refreshes, smart_proxy>>

Request == \E reply \in Reply : Attempt(reply)

\* What others and time do to the pool meanwhile.
Meanwhile ==
    /\ \/ \E p \in Proxy : BlockedElsewhere(p) \/ BanExpires(p)
       \/ StartRefresh \/ SwapPool
    /\ UNCHANGED requestVars

RequestNext == Request \/ Meanwhile

RequestSpec == RequestInit /\ [][RequestNext]_apiVars

\* Every POST is answered or fails in the end.
RequestFairness == WF_apiVars(Request)

-----------------------------------------------------------------------------
(* Properties.                                                              *)

\* A request that looks for a new route never takes one that has answered it
\* 509 before, even if the ban was lifted or the pool swapped during a backoff
\* (mega_api.py:218-223).
NeverBackTo509 ==
    [][request_proxy' # request_proxy => request_proxy' \notin answered509']_apiVars

\* A request ends, unless MEGA answers every proof with a new challenge: that
\* loop has no backoff and no count (mega_api.py:231-235).
RequestEnds == <>[](last # "challenge") => <>(request_phase = "ended")
=============================================================================
