----------------------------- MODULE ProxySwitch -----------------------------
(***************************************************************************)
(* The proxy that the chunk workers of one transfer share: _proxy_client,  *)
(* _proxy_address and _switch_proxy of Downloader (transfers/download.py)  *)
(* and, with a POST for a stream, of Uploader (transfers/upload.py).       *)
(*                                                                         *)
(* A worker that is answered 509 replaces the client under _proxy_lock and *)
(* closes the old one, over which others may be streaming.  What the       *)
(* worker's chunk is and what becomes of it is ChunkPipeline's.  The lock  *)
(* serves its waiters in order; here any of them may be next.              *)
(***************************************************************************)
EXTENDS SmartProxyPool

CONSTANTS
    Worker,
    MaxRetries,     \* MAX_CHUNK_RETRIES
    MaxLifts        \* bound: bans that run out

ASSUME SwitchAssumption ==
    /\ IsFiniteSet(Worker) /\ None \notin Worker
    /\ MaxRetries \in Nat \ {0} /\ MaxLifts \in Nat

VARIABLES
    at,             \* where each worker is
    via,            \* the client its attempt goes over, or None between attempts
    attempt,        \* attempts that failed
    proxy_client,   \* a client is a number; Direct is self._client
    proxy_address,
    proxy_lock,     \* the worker that holds it, or None
    made,           \* proxied clients made so far
    open,           \* those that are not closed
    phase,          \* of run: "running", "unwinding" or "ended"
    lifts,
    left            \* history: proxies the transfer has banned, whose ban stands

workerVars == <<at, via, attempt>>
routeVars == <<proxy_client, proxy_address, proxy_lock, made, open>>
vars == <<poolVars, workerVars, routeVars, phase, lifts, left>>

Direct == 0

\* "ready" is before an attempt, in a backoff, too; in "closing" and "raising"
\* the worker holds the lock and awaits old_client.aclose().
Place == {"ready", "streaming", "rerouting", "closing", "raising", "fetched", "failed", "cancelled"}
Over == {"fetched", "failed", "cancelled"}

Init ==
    /\ PoolInit
    /\ at = [w \in Worker |-> "ready"]
    /\ via = [w \in Worker |-> None]
    /\ attempt = [w \in Worker |-> 0]
    /\ proxy_client = Direct /\ proxy_address = None /\ proxy_lock = None
    /\ made = 0 /\ open = {}
    /\ phase = "running" /\ lifts = 0 /\ left = {}

-----------------------------------------------------------------------------
(* An attempt, over the client that is there when it starts.                *)

Move(w, from, to) == at[w] = from /\ at' = [at EXCEPT ![w] = to]

Opens(w) == via' = [via EXCEPT ![w] = proxy_client]
Closes(w) == via' = [via EXCEPT ![w] = None]

Start(w) ==
    /\ Move(w, "ready", "streaming") /\ Opens(w)
    /\ UNCHANGED <<poolVars, attempt, routeVars, phase, lifts, left>>

\* All of the bytes came.  A stream whose client was closed can still end so.
Fetched(w) ==
    /\ Move(w, "streaming", "fetched") /\ Closes(w)
    /\ UNCHANGED <<poolVars, attempt, routeVars, phase, lifts, left>>

\* A bad status, an httpx.HTTPError, among them what the stream of a closed
\* client ends in, or too few bytes.
AttemptFails(w) ==
    /\ Move(w, "streaming", IF attempt[w] + 1 >= MaxRetries THEN "failed" ELSE "ready")
    /\ attempt' = [attempt EXCEPT ![w] = @ + 1] /\ Closes(w)
    /\ UNCHANGED <<poolVars, routeVars, phase, lifts, left>>

Answered509(w) ==
    /\ Move(w, "streaming", "rerouting") /\ Closes(w)
    /\ UNCHANGED <<poolVars, attempt, routeVars, phase, lifts, left>>

-----------------------------------------------------------------------------
(* _switch_proxy.                                                           *)

\* Faulty variant: the old proxy is excluded from this pick only.
LeaveUnbanned(p) == pool
Leave(p) == Blocked(p)

\* Faulty variant: an old client is dropped without closing it.
OldDropped(old, client) == open \cup client
OldClosed(old, client) == (open \ {old}) \cup client

\* Faulty variant: the address changes, and a client that is there does not.
ClientKept(client) == IF proxy_client = Direct THEN client ELSE proxy_client
ClientAfter(client) == client

\* Faulty variant: with no proxy left it goes on without one.
TriesDirect(old) == IF old = Direct THEN "ready" ELSE "raising"
GivesUp(old) == IF old = Direct THEN "failed" ELSE "raising"

\* One step up to the aclose() of the old client, which closes it at once and
\* may suspend; without an old client there is nothing to await.
Switch(w) ==
    LET old == proxy_client
        usable == Usable(Leave(proxy_address), {proxy_address}) IN
    /\ at[w] = "rerouting" /\ proxy_lock = None
    /\ pool' = Leave(proxy_address)
    /\ left' = left \cup ({proxy_address} \ {None})
    /\ IF usable = {}
       THEN /\ proxy_address' = None /\ proxy_client' = Direct
            /\ open' = OldClosed(old, {}) /\ UNCHANGED <<made, via>>
            /\ at' = [at EXCEPT ![w] = GivesUp(old)]
       ELSE /\ proxy_address' \in usable
            /\ made' = made + 1 /\ proxy_client' = ClientAfter(made')
            /\ open' = OldClosed(old, {made'})
            /\ at' = [at EXCEPT ![w] = IF old = Direct THEN "streaming" ELSE "closing"]
            /\ via' = [via EXCEPT ![w] = IF old = Direct THEN proxy_client' ELSE @]
    /\ proxy_lock' = IF old = Direct THEN None ELSE w
    /\ UNCHANGED <<ban_time_zero, refreshing, refreshes, attempt, phase, lifts>>

\* aclose() returns, and the lock is released: the next attempt starts without
\* a backoff, or RuntimeError is raised, which no attempt is made again for.
Rerouted(w) ==
    /\ Move(w, "closing", "streaming") /\ Opens(w)
    /\ proxy_lock' = None
    /\ UNCHANGED <<poolVars, attempt, proxy_client, proxy_address, made, open, phase, lifts, left>>

NoProxyLeft(w) ==
    /\ Move(w, "raising", "failed")
    /\ proxy_lock' = None
    /\ UNCHANGED <<poolVars, via, attempt, proxy_client, proxy_address, made, open, phase, lifts, left>>

-----------------------------------------------------------------------------
(* The run: it leaves its loop with every chunk or the first error, or a    *)
(* cancel takes it out of it; then it cancels the workers and closes the    *)
(* client that is left.                                                     *)

Unwind ==
    /\ phase = "running" /\ phase' = "unwinding"
    /\ at' = [w \in Worker |-> IF at[w] \in Over THEN at[w] ELSE "cancelled"]
    /\ via' = [w \in Worker |-> None] /\ proxy_lock' = None
    /\ UNCHANGED <<poolVars, attempt, proxy_client, proxy_address, made, open, lifts, left>>

RunEnds ==
    /\ \/ \E w \in Worker : at[w] = "failed"
       \/ \A w \in Worker : at[w] = "fetched"
    /\ Unwind

Cancel == Unwind

CloseClients ==
    /\ phase = "unwinding" /\ phase' = "ended"
    /\ open' = open \ {proxy_client}
    /\ UNCHANGED <<poolVars, workerVars, proxy_client, proxy_address, proxy_lock, made, lifts, left>>

-----------------------------------------------------------------------------
(* What others and time do to the pool meanwhile.                           *)

Lift ==
    /\ lifts < MaxLifts /\ lifts' = lifts + 1
    /\ \E p \in Proxy : BanExpires(p) /\ left' = left \ {p}
    /\ UNCHANGED <<workerVars, routeVars, phase>>

\* A new pool has no bans.
Swap ==
    /\ SwapPool /\ left' = IF pool' = pool THEN left ELSE {}
    /\ UNCHANGED <<workerVars, routeVars, phase, lifts>>

Elsewhere ==
    /\ StartRefresh \/ \E p \in Proxy : BlockedElsewhere(p)
    /\ UNCHANGED <<workerVars, routeVars, phase, lifts, left>>

WorkerStep(w) ==
    \/ Start(w) \/ Fetched(w) \/ AttemptFails(w) \/ Answered509(w)
    \/ Switch(w) \/ Rerouted(w) \/ NoProxyLeft(w)

Next ==
    \/ /\ phase = "running"
       /\ (\E w \in Worker : WorkerStep(w)) \/ Lift \/ Swap \/ Elsewhere
    \/ RunEnds \/ Cancel \/ CloseClients

Spec == Init /\ [][Next]_vars

\* The event loop runs whatever is ready, and an attempt ends: httpx has a
\* timeout.
SwitchFairness ==
    /\ \A w \in Worker : WF_vars(phase = "running" /\ WorkerStep(w))
    /\ WF_vars(RunEnds) /\ WF_vars(CloseClients)

-----------------------------------------------------------------------------
(* Properties.                                                              *)

\* Every client made is closed in the end, whichever worker replaced it and
\* wherever a cancel or an error came in between (download.py:153, 470-472).
ClientsClosed == phase = "ended" => open = {}

\* No attempt starts over a client that is closed, which would be a
\* RuntimeError that is not retried: the lock and the await in aclose() leave
\* no gap in which the old client is still the shared one (download.py:151-154).
StartsOnOpen ==
    [][\A w \in Worker :
         at[w] # "streaming" /\ at'[w] = "streaming" => via'[w] \in open' \cup {Direct}]_vars

\* A transfer is not routed through a proxy it has left for a 509 while the ban
\* stands, though the next pick excludes only the current one and workers that
\* were answered 509 by an earlier proxy switch again (download.py:142-143).
NotBackToLeft == proxy_address \notin left

\* The run ends: 509s, for which an attempt is not counted, use up the pool, as
\* long as bans run out and lists are refreshed only finitely often.
Terminates == phase = "running" ~> phase = "ended"
=============================================================================
