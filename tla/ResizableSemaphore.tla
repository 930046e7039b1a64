------------------------- MODULE ResizableSemaphore -------------------------
(***************************************************************************)
(* app/transfers/concurrency.py: the semaphore behind "max concurrent      *)
(* downloads/uploads", whose limit changes while permits are out.          *)
(*                                                                         *)
(* Its tasks are transfers (`async with slots` in _run_download and        *)
(* _run_upload): each acquires once, and may be cancelled by stop-all or a *)
(* DELETE while it waits.  The condition's lock is never held across a     *)
(* suspension, so each method runs atomically up to cond.wait().           *)
(***************************************************************************)
EXTENDS Integers, Sequences, FiniteSets

CONSTANTS
    Task,       \* the transfers
    Limits,     \* values a settings update passes to set_limit
    PassOn      \* asyncio.Condition: TRUE of Python >= 3.13, where a waiter cancelled
                \* after its notification passes it on; FALSE of 3.11 and of the 3.12
                \* the Dockerfile installs, where the wakeup is lost with it

ASSUME LimitsAssumption == Limits \subseteq Int /\ IsFiniteSet(Task)
ASSUME PassOnAssumption == PassOn \in BOOLEAN

VARIABLES
    limit,      \* self.limit
    in_use,     \* self._in_use
    state,      \* "new", "waiting", "notified" (woken, not yet run), "holding", "done"
    waiters,    \* the condition's waiters not yet notified, oldest first
    lost        \* history: the wakeups lost since the queue was last empty

slotVars == <<limit, in_use, state, waiters, lost>>

AtLeastOne(n) == IF n < 1 THEN 1 ELSE n

SlotInit ==
    /\ limit \in {AtLeastOne(n) : n \in Limits}
    /\ in_use = 0
    /\ state = [t \in Task |-> "new"]
    /\ waiters = <<>>
    /\ lost = 0

\* n more wakeups are lost; an empty queue owes nobody one.
Lose(n) == lost' = IF waiters' = <<>> THEN 0 ELSE lost + n

locked == in_use >= limit

\* The loop of acquire(): take a permit, or (back) to the end of the queue.
TryTake(t) ==
    \/ /\ ~locked
       /\ in_use' = in_use + 1
       /\ state' = [state EXCEPT ![t] = "holding"]
       /\ UNCHANGED waiters
    \/ /\ locked
       /\ state' = [state EXCEPT ![t] = "waiting"]
       /\ waiters' = Append(waiters, t)
       /\ UNCHANGED in_use

Acquire(t) == state[t] = "new" /\ TryTake(t) /\ Lose(0) /\ UNCHANGED limit

\* A notified waiter runs and tests the condition again.
Recheck(t) == state[t] = "notified" /\ TryTake(t) /\ Lose(0) /\ UNCHANGED limit

\* Faulty variant: nobody is woken.
NotifyNobody(leaving) ==
    state' = [state EXCEPT ![leaving] = "done"] /\ UNCHANGED waiters
\* cond.notify(): the oldest waiter becomes runnable.
Notify(leaving) ==
    IF waiters = <<>>
    THEN /\ state' = [state EXCEPT ![leaving] = "done"]
         /\ UNCHANGED waiters
    ELSE /\ state' = [state EXCEPT ![leaving] = "done", ![Head(waiters)] = "notified"]
         /\ waiters' = Tail(waiters)

\* Faulty variant: a permit is lost when it is the last one out.
FreeUnlessLast == IF in_use <= 1 THEN in_use ELSE in_use - 1
FreePermit == IF in_use = 0 THEN 0 ELSE in_use - 1

\* The transfer ends, one way or another, and leaves the `async with`.
Release(t) ==
    /\ state[t] = "holding"
    /\ in_use' = FreePermit
    /\ Notify(t)
    /\ Lose(0)
    /\ UNCHANGED limit

\* Faulty variant: a raised limit wakes one waiter, not all.
SetLimitNotifyOne(n) ==
    /\ limit' = AtLeastOne(n)
    /\ IF waiters = <<>>
       THEN UNCHANGED <<state, waiters>>
       ELSE state' = [state EXCEPT ![Head(waiters)] = "notified"] /\ waiters' = Tail(waiters)
    /\ Lose(0)
    /\ UNCHANGED in_use
\* A new "max concurrent" setting: every waiter is notified.
SetLimit(n) ==
    /\ limit' = AtLeastOne(n)
    /\ state' = [t \in Task |-> IF state[t] = "waiting" THEN "notified" ELSE state[t]]
    /\ waiters' = <<>>
    /\ Lose(0)
    /\ UNCHANGED in_use

CancelWaiting(t) ==
    /\ state[t] = "waiting"
    /\ state' = [state EXCEPT ![t] = "done"]
    /\ \E i \in 1..Len(waiters) :
         /\ waiters[i] = t
         /\ waiters' = SubSeq(waiters, 1, i - 1) \o SubSeq(waiters, i + 1, Len(waiters))
    /\ Lose(0)
    /\ UNCHANGED <<limit, in_use>>

\* task.cancel() lands between the notification and the waiter's next step.
CancelNotified(t) ==
    /\ state[t] = "notified"
    /\ IF PassOn
       THEN Notify(t) /\ Lose(0)
       ELSE state' = [state EXCEPT ![t] = "done"] /\ UNCHANGED waiters /\ Lose(1)
    /\ UNCHANGED <<limit, in_use>>

SlotNext ==
    \/ \E t \in Task :
         \/ Acquire(t) \/ Recheck(t) \/ Release(t)
         \/ CancelWaiting(t) \/ CancelNotified(t)
    \/ \E n \in Limits : SetLimit(n)

SlotSpec == SlotInit /\ [][SlotNext]_slotVars

\* The event loop runs a notified waiter; every transfer ends sooner or later.
SlotFairness == \A t \in Task : WF_slotVars(Recheck(t)) /\ WF_slotVars(Release(t))

-----------------------------------------------------------------------------
Holding == {t \in Task : state[t] = "holding"}
Notified == {t \in Task : state[t] = "notified"}
Least(a, b) == IF a < b THEN a ELSE b

\* Every variable keeps its kind.
TypeOK ==
    /\ limit \in Nat \ {0}
    /\ in_use \in Nat
    /\ state \in [Task -> {"new", "waiting", "notified", "holding", "done"}]
    /\ waiters \in Seq(Task)
    /\ lost \in Nat

\* The permits counted out are exactly the transfers inside `async with slots`,
\* through every cancel and resize: max(0, ...) in release never hides a
\* double release, and no permit leaks.
PermitsAccounted == in_use = Cardinality(Holding)

\* The queue holds each waiting task once and no other.
QueueIsWaiting ==
    /\ {waiters[i] : i \in 1..Len(waiters)} = {t \in Task : state[t] = "waiting"}
    /\ \A i, j \in 1..Len(waiters) : i # j => waiters[i] # waiters[j]

\* As long as permits are free and tasks wait, as many wakeups are on their way
\* as can be served, but for those that cancelled waiters took with them: each
\* cancel costs the queue one wakeup at most, nothing else ever costs one, and a
\* new limit makes all of them good (concurrency.py:24-47).
WakeupsAccounted == Least(limit - in_use, Len(waiters)) <= Cardinality(Notified) + lost

\* A waiting transfer gets its turn, unless it is cancelled or a cancelled
\* waiter takes a wakeup with it while it sleeps.
WaiterServed ==
    \A t \in Task : state[t] = "waiting" ~> state[t] \in {"holding", "done"} \/ lost > 0

\* What acquire says of itself: "Take a permit, waiting until one is free"
\* (concurrency.py:32).  Nobody sleeps next to a free permit that no woken
\* task is about to take.  With PassOn = FALSE the code breaks this.
NoStrandedWaiter == Least(limit - in_use, Len(waiters)) <= Cardinality(Notified)
=============================================================================
