----------------------------- MODULE Subscribers -----------------------------
(***************************************************************************)
(* broadcast of app/state.py and the /ws endpoint of app/api/ws.py, as one *)
(* transfer's progress goes out through them.                              *)
(*                                                                         *)
(* broadcast walks the live list of sockets by position and may suspend in *)
(* every send; meanwhile tabs come and go, the transfer goes on, and other *)
(* broadcasts of it walk the same list.  Each send carries the dict as it  *)
(* is then.  An action is one turn of the loop.                            *)
(***************************************************************************)
EXTENDS Integers, Sequences

CONSTANTS
    Tab,            \* connections; a tab that reconnects is another one
    Caller,         \* broadcasts of the transfer that may be under way together
    MaxVersions     \* bound: changes of the progress dict

ASSUME SubscribersAssumption == MaxVersions \in Nat

VARIABLES
    subscribers,
    socket,         \* of each tab: "new", "open", "gone" (closed) or "over"
    version,        \* changes of the progress dict so far
    call,           \* of each caller: "idle", "changed" or the send its loop is in
    told,           \* history: tabs that were sent its last change, or came after it
    skipped,        \* history: tabs that moved up past a broadcast when another was removed
    dropped         \* history: a change was never broadcast, nor was anything after it

tabVars == <<subscribers, socket, version, call, told, skipped, dropped>>

\* A caller has "changed" the dict and has yet to broadcast it.
In(kind) == [state |-> kind, at |-> 0, dead |-> {}]
Quiet == \A c \in Caller : call[c] = In("idle")

TabInit ==
    /\ subscribers = <<>>
    /\ socket = [t \in Tab |-> "new"]
    /\ version = 0
    /\ call = [c \in Caller |-> In("idle")]
    /\ told = {} /\ skipped = {} /\ dropped = FALSE

-----------------------------------------------------------------------------
(* ws_endpoint.                                                             *)

\* What is left of the list when some tabs are taken off.
Without(list, tabs) ==
    LET kept[n \in 0..Len(list)] ==
          IF n = 0 THEN <<>>
          ELSE IF list[n] \in tabs THEN kept[n - 1] ELSE Append(kept[n - 1], list[n])
    IN  kept[Len(list)]

\* The tabs that a loop at a position has yet to come to.
Behind(list, at) == {list[i] : i \in (at + 1)..Len(list)}
\* Those that a removal takes from where some broadcasts have yet to come.
Overtaken(callers) ==
    UNION {Behind(subscribers, call[c].at) \ Behind(subscribers', call[c].at) :
             c \in {d \in callers : call[d].state = "sending"}}

Connect(t) ==
    /\ socket[t] = "new" /\ socket' = [socket EXCEPT ![t] = "open"]
    /\ subscribers' = Append(subscribers, t)
    /\ told' = told \cup {t}
    /\ UNCHANGED <<version, call, skipped, dropped>>

CloseTab(t) ==
    /\ socket[t] = "open" /\ socket' = [socket EXCEPT ![t] = "gone"]
    /\ UNCHANGED <<subscribers, version, call, told, skipped, dropped>>

\* receive_text raises, and the finally block takes the tab off the list.
Disconnected(t) ==
    /\ socket[t] = "gone" /\ socket' = [socket EXCEPT ![t] = "over"]
    /\ subscribers' = Without(subscribers, {t})
    /\ skipped' = skipped \cup Overtaken(Caller)
    /\ UNCHANGED <<version, call, told, dropped>>

-----------------------------------------------------------------------------
(* broadcast.                                                               *)

\* Faulty variant: a failed send takes its tab off the list that is iterated.
RemovedInLoop(t) == Without(subscribers, {t})
AfterFailure(t) == subscribers

\* The send to the tab at a position carries the dict as it is now.  It fails
\* on a tab that is gone, unless that has not been noticed yet.
SendTo(c, at, dead) ==
    LET t == subscribers[at] IN
    /\ told' = IF socket[t] = "open" THEN told \cup {t} ELSE told
    /\ \/ /\ call' = [call EXCEPT ![c] = [state |-> "sending", at |-> at, dead |-> dead]]
          /\ UNCHANGED subscribers
       \/ /\ socket[t] # "open"
          /\ call' = [call EXCEPT ![c] = [state |-> "sending", at |-> at, dead |-> dead \cup {t}]]
          /\ subscribers' = AfterFailure(t)

\* Past the last tab, those whose send failed are dropped.
Return(c, dead) ==
    /\ subscribers' = Without(subscribers, dead)
    /\ call' = [call EXCEPT ![c] = In("idle")]
    /\ UNCHANGED told

Loop(c, at, dead) ==
    /\ IF at <= Len(subscribers) THEN SendTo(c, at, dead) ELSE Return(c, dead)
    /\ UNCHANGED <<socket, version>>

\* The transfer's progress or status changes.
Change(c) ==
    /\ call[c] = In("idle") /\ version < MaxVersions /\ version' = version + 1
    /\ call' = [call EXCEPT ![c] = In("changed")]
    /\ told' = {}
    /\ UNCHANGED <<subscribers, socket, skipped, dropped>>

Broadcast(c) ==
    /\ call[c] = In("changed")
    /\ Loop(c, 1, {})
    /\ skipped' = {} /\ dropped' = FALSE

\* A send returns, or raised: on to the next position.
Sent(c) ==
    /\ call[c].state = "sending"
    /\ Loop(c, call[c].at + 1, call[c].dead)
    /\ skipped' = skipped \cup Overtaken(Caller \ {c})
    /\ UNCHANGED dropped

\* The transfer is cancelled while it awaits its own broadcast: its status
\* changes, and its finally block broadcasts that.
Cancelled(c) ==
    /\ call[c].state = "sending" /\ version < MaxVersions /\ version' = version + 1
    /\ call' = [call EXCEPT ![c] = In("changed")]
    /\ told' = {}
    /\ UNCHANGED <<subscribers, socket, skipped, dropped>>

\* A cancel that lands between the change and its broadcast, in aclose() or in the
\* write of the row, leaves the finally block without it.
CutShort(c) ==
    /\ call[c] = In("changed")
    /\ call' = [call EXCEPT ![c] = In("idle")]
    /\ dropped' = TRUE
    /\ UNCHANGED <<subscribers, socket, version, told, skipped>>

TabStep == \E t \in Tab : Connect(t) \/ CloseTab(t) \/ Disconnected(t)
CallStep == \E c \in Caller : 
    Change(c) \/ Broadcast(c) \/ Sent(c) \/ Cancelled(c) \/ CutShort(c)
TabNext == TabStep \/ CallStep
TabSpec == TabInit /\ [][TabNext]_tabVars

-----------------------------------------------------------------------------
(* Properties.                                                              *)

\* When no broadcast is left, every open tab shows the transfer as it is now,
\* whatever broadcasts, cancels, failed sends and new tabs overlapped
\* (state.py:111-118), but for two losses of the code: the tabs that a removal
\* moved up past the loop of the last broadcasts, and a last change whose
\* broadcast a second cancel cut off (routes_transfers.py:456-470).
TabsTold ==
    Quiet /\ ~dropped => \A t \in Tab : socket[t] = "open" => t \in told \cup skipped

\* What broadcast says of itself: "Push a transfer's current progress dict to every
\* connected WebSocket" (state.py:107).  No tab is passed over; the code breaks this.
TabsAlwaysTold ==
    Quiet /\ ~dropped => \A t \in Tab : socket[t] = "open" => t \in told
=============================================================================
