--------------------------- MODULE UploadPipeline ---------------------------
(***************************************************************************)
(* One upload: _run_upload of app/api/routes_transfers.py and Uploader.run *)
(* of app/transfers/upload.py.                                             *)
(*                                                                         *)
(* A task per chunk claims a permit, waits for the pause event, encrypts   *)
(* and POSTs its chunk; the MAC loop folds the chunks in order and only    *)
(* then gives their permits back.  The POST that completes the file is     *)
(* answered with the completion handle, with which the node is registered  *)
(* once the MAC is known.  Nothing of this is persisted.                   *)
(*                                                                         *)
(* A storage node keeps a chunk before its answer arrives; answers arrive  *)
(* in any order or not at all.  The MAC loop never suspends between two    *)
(* chunks that are there.                                                  *)
(***************************************************************************)
EXTENDS Integers, Sequences, FiniteSets

CONSTANTS
    MaxChunks,     \* bound: chunks of the file
    Slots,         \* self.slots
    MaxRetries,    \* MAX_CHUNK_RETRIES
    MaxPauses,     \* bound: pauses
    MaxCancels     \* bound: cancels

ASSUME UploadAssumption ==
    /\ MaxChunks \in Nat /\ Slots \in Nat \ {0} /\ MaxRetries \in Nat \ {0}
    /\ MaxPauses \in Nat /\ MaxCancels \in Nat

VARIABLES
    total_chunks,
    phase,          \* "queued", "reserving", "transfer", "unwinding", "finishing" or "ended"
    result,         \* how the run ended, or is about to
    task,           \* where each chunk's upload_one is
    attempt,        \* its failed attempts
    answer,         \* what the storage node answers it: a handle or nothing
    claims,         \* free permits of claim_sem
    first_error, completion_handle, next_id, mac,
    loop,           \* the MAC loop: "check", "asleep" on cond, or "off"
    pause_event, pauses, cancels,
    stored,         \* chunks the storage node has
    finish_sent,    \* finish_upload_file is on its way to MEGA, or was
    node,           \* the chunks under the registered node's MAC, or NoNode
    lost            \* history: an answer of the storage node did not arrive

runVars == <<total_chunks, phase, result, next_id, mac, loop, cancels>>
taskVars == <<task, attempt, answer, claims, first_error, completion_handle>>
pauseVars == <<pause_event, pauses>>
remoteVars == <<stored, finish_sent, node>>
vars == <<runVars, taskVars, pauseVars, remoteVars, lost>>

Chunk == 1..MaxChunks
InFile == 1..total_chunks
NoNode == <<0>>
InTask(states) == {c \in Chunk : task[c] \in states}

\* A claimed chunk, from its permit until the MAC loop has folded it.
Posting == {"posting", "stored"}
Holding == Posting \cup {"granted", "paused", "woken", "reading", "rerouting", "pending"}
Pending == InTask({"pending"})

Init ==
    /\ total_chunks \in 0..MaxChunks
    /\ phase = "queued" /\ result = "none"
    /\ task = [c \in Chunk |-> "absent"] /\ attempt = [c \in Chunk |-> 0]
    /\ answer = [c \in Chunk |-> FALSE]
    /\ claims = Slots /\ first_error = FALSE /\ completion_handle = FALSE
    /\ next_id = 1 /\ mac = <<>> /\ loop = "off"
    /\ pause_event = TRUE /\ pauses = 0 /\ cancels = 0
    /\ stored = {} /\ finish_sent = FALSE /\ node = NoNode /\ lost = FALSE

-----------------------------------------------------------------------------
(* Up to the tasks.                                                         *)

\* upload_slots grants a permit.
GetSlot ==
    /\ phase = "queued" /\ phase' = "reserving"
    /\ UNCHANGED <<total_chunks, result, next_id, mac, loop, cancels>>
    /\ UNCHANGED <<taskVars, pauseVars, remoteVars, lost>>

\* init_upload_file answers: the tasks are created and the MAC loop begins.
Reserved ==
    /\ phase = "reserving" /\ phase' = "transfer"
    /\ task' = [c \in Chunk |-> IF c \in InFile THEN "new" ELSE "absent"]
    /\ loop' = "check"
    /\ UNCHANGED <<total_chunks, result, next_id, mac, cancels>>
    /\ UNCHANGED <<attempt, answer, claims, first_error, completion_handle>>
    /\ UNCHANGED <<pauseVars, remoteVars, lost>>

\* It fails, or the file is gone.
ReserveFails ==
    /\ phase = "reserving" /\ phase' = "ended" /\ result' = "error"
    /\ UNCHANGED <<total_chunks, next_id, mac, loop, cancels>>
    /\ UNCHANGED <<taskVars, pauseVars, remoteVars, lost>>

-----------------------------------------------------------------------------
(* upload_one.                                                              *)

Goes == IF pause_event THEN "reading" ELSE "paused"

\* One pass of the event loop: the first Slots tasks claim, the rest queue up.
StartTasks ==
    LET New == InTask({"new"})
        Claimed == {c \in New : c <= Slots} IN
    /\ New # {} /\ loop = "asleep"
    /\ task' = [c \in Chunk |-> IF c \in Claimed THEN Goes
                                ELSE IF c \in New THEN "waiting" ELSE task[c]]
    /\ claims' = Slots - Cardinality(Claimed)
    /\ UNCHANGED <<attempt, answer, first_error, completion_handle>>
    /\ UNCHANGED <<runVars, pauseVars, remoteVars, lost>>

\* The pause event after acquire(); Event.wait() returns once it was woken.
Proceed(c) ==
    /\ task[c] \in {"granted", "woken"}
    /\ task' = [task EXCEPT ![c] = IF @ = "woken" THEN "reading" ELSE Goes]
    /\ UNCHANGED <<attempt, answer, claims, first_error, completion_handle>>
    /\ UNCHANGED <<runVars, pauseVars, remoteVars, lost>>

\* The storage node has the chunk.  It hands out the handle when the file is
\* complete, and may leave it out when it sees a chunk again.
StoreChunk(c) ==
    /\ task[c] = "posting"
    /\ task' = [task EXCEPT ![c] = "stored"]
    /\ stored' = stored \cup {c}
    /\ \E handle \in BOOLEAN :
         /\ c \notin stored => handle = (stored' = InFile)
         /\ handle => stored' = InFile
         /\ answer' = [answer EXCEPT ![c] = handle]
    /\ UNCHANGED <<attempt, claims, first_error, completion_handle>>
    /\ UNCHANGED <<runVars, pauseVars, finish_sent, node, lost>>

\* Faulty variant: a POST without a notification.
NotifyNobody == UNCHANGED loop
NotifyLoop == loop' = IF loop = "asleep" THEN "check" ELSE loop

\* claim_sem.release(), n times: the longest waiting tasks, which are the
\* lowest chunks, get the permits.
Waiting == InTask({"waiting"})
LongestWaiting(n) == {c \in Waiting : Cardinality({w \in Waiting : w < c}) < n}
Release(n) == claims' = claims + n - Cardinality(LongestWaiting(n))
Moved(chunks, state, n) ==
    [c \in Chunk |-> IF c \in chunks THEN state
                     ELSE IF c \in LongestWaiting(n) THEN "granted" ELSE task[c]]

\* Faulty variant: the last answer decides.
HandleOverwritten(c) == answer[c]
HandleAfter(c) == completion_handle \/ answer[c]

\* Faulty variant: the permit is given back with the answer.
AnsweredReleases(c) == task' = Moved({c}, "pending", 1) /\ Release(1)
KeepsClaim(c) == task' = Moved({c}, "pending", 0) /\ UNCHANGED claims

Answered(c) ==
    /\ task[c] = "stored"
    /\ KeepsClaim(c)
    /\ completion_handle' = HandleAfter(c)
    /\ NotifyLoop
    /\ UNCHANGED <<attempt, answer, first_error>>
    /\ UNCHANGED <<total_chunks, phase, result, next_id, mac, cancels>>
    /\ UNCHANGED <<pauseVars, remoteVars, lost>>

\* upload_one's except branch.
UploadFails(c) ==
    /\ task' = Moved({c}, "failed", 1) /\ Release(1)
    /\ first_error' = TRUE
    /\ NotifyLoop
    /\ UNCHANGED <<attempt, answer, completion_handle, remoteVars, pauseVars>>
    /\ UNCHANGED <<total_chunks, phase, result, next_id, mac, cancels>>

\* A status or transport error: again, up to MaxRetries; the chunk may have arrived.
AttemptFails(c) ==
    /\ task[c] \in Posting
    /\ lost' = (lost \/ task[c] = "stored")
    /\ \/ /\ attempt[c] + 1 < MaxRetries
          /\ attempt' = [attempt EXCEPT ![c] = @ + 1]
          /\ task' = [task EXCEPT ![c] = "posting"]
          /\ UNCHANGED <<answer, claims, first_error, completion_handle>>
          /\ UNCHANGED <<runVars, pauseVars, remoteVars>>
       \/ /\ attempt[c] + 1 >= MaxRetries
          /\ UploadFails(c)

\* to_thread(_read_chunk) returns, and the chunk is encrypted; or it raises.
ReadChunk(c) ==
    /\ task[c] = "reading"
    /\ task' = [task EXCEPT ![c] = "posting"]
    /\ UNCHANGED <<attempt, answer, claims, first_error, completion_handle>>
    /\ UNCHANGED <<runVars, pauseVars, remoteVars, lost>>

ReadFails(c) == task[c] = "reading" /\ UploadFails(c) /\ UNCHANGED lost

\* HTTP 509: through another proxy, without counting, or no proxy is left.
Reroute(c) ==
    /\ task[c] = "posting"
    /\ task' = [task EXCEPT ![c] = "rerouting"]
    /\ UNCHANGED <<attempt, answer, claims, first_error, completion_handle>>
    /\ UNCHANGED <<runVars, pauseVars, remoteVars, lost>>

Rerouted(c) ==
    /\ task[c] = "rerouting"
    /\ task' = [task EXCEPT ![c] = "posting"]
    /\ UNCHANGED <<attempt, answer, claims, first_error, completion_handle>>
    /\ UNCHANGED <<runVars, pauseVars, remoteVars, lost>>

NoProxyLeft(c) == task[c] = "rerouting" /\ UploadFails(c) /\ UNCHANGED lost

-----------------------------------------------------------------------------
(* The MAC loop, its finally block and the registration.                    *)

\* Leaving the loop cancels every task that has not returned.
Unwind(how, tasks) ==
    /\ phase' = "unwinding" /\ result' = how /\ loop' = "off"
    /\ task' = [c \in Chunk |-> IF tasks[c] \in (Holding \cup {"new", "waiting"}) \ {"pending"}
                                THEN "cancelled" ELSE tasks[c]]

\* Where the loop has to wait, or is done: at the first chunk that is not there.
StopsAt(k) == k \notin Pending /\ next_id..(k - 1) \subseteq Pending

\* Faulty variant (off by one): the last chunk is not waited for.
AllButOneFolded == next_id' >= total_chunks
AllFolded == next_id' > total_chunks

\* Chunks next_id to k - 1 are folded, and their permits given back.
Fold(k) ==
    LET n == k - next_id
        folded == next_id..(k - 1) IN
    /\ next_id' = k
    /\ mac' = mac \o [i \in 1..n |-> next_id + i - 1]
    /\ Release(n)
    /\ IF AllFolded
       THEN Unwind("complete", Moved(folded, "folded", n))
       ELSE /\ loop' = "asleep" /\ task' = Moved(folded, "folded", n)
            /\ UNCHANGED <<phase, result>>

MacLoop ==
    /\ phase = "transfer" /\ loop = "check"
    /\ IF first_error /\ next_id <= total_chunks
       THEN Unwind("error", task) /\ UNCHANGED <<next_id, mac, claims>>
       ELSE \E k \in next_id..(total_chunks + 1) : StopsAt(k) /\ Fold(k)
    /\ UNCHANGED <<total_chunks, cancels>>
    /\ UNCHANGED <<attempt, answer, first_error, completion_handle, pauseVars, remoteVars, lost>>

\* gather() has returned: register the node, or raise.
Finish ==
    /\ phase = "unwinding"
    /\ IF result = "complete" /\ completion_handle
       THEN phase' = "finishing" /\ finish_sent' = TRUE /\ UNCHANGED result
       ELSE /\ phase' = "ended" /\ UNCHANGED finish_sent
            /\ result' = IF result = "complete" THEN "no_handle" ELSE result
    /\ UNCHANGED <<total_chunks, next_id, mac, loop, cancels>>
    /\ UNCHANGED <<taskVars, pauseVars, stored, node, lost>>

\* MEGA acts on the request, whether or not anybody still waits for the answer.
Register ==
    /\ finish_sent /\ node = NoNode /\ node' = mac
    /\ UNCHANGED <<runVars, taskVars, pauseVars, stored, finish_sent, lost>>

\* finish_upload_file returns, or raises after its own retries.
Finished ==
    /\ phase = "finishing" /\ phase' = "ended"
    /\ result' \in IF node # NoNode THEN {"done", "error"} ELSE {"error"}
    /\ UNCHANGED <<total_chunks, next_id, mac, loop, cancels>>
    /\ UNCHANGED <<taskVars, pauseVars, remoteVars, lost>>

\* task.cancel(), wherever the run waits.
Cancel ==
    /\ phase # "ended" /\ cancels < MaxCancels /\ cancels' = cancels + 1
    /\ IF phase = "transfer"
       THEN Unwind("cancelled", task)
       ELSE phase' = "ended" /\ result' = "cancelled" /\ UNCHANGED <<loop, task>>
    /\ UNCHANGED <<total_chunks, next_id, mac>>
    /\ UNCHANGED <<attempt, answer, claims, first_error, completion_handle>>
    /\ UNCHANGED <<pauseVars, remoteVars, lost>>

-----------------------------------------------------------------------------
Pause ==
    /\ phase # "ended" /\ pause_event /\ pauses < MaxPauses
    /\ pause_event' = FALSE /\ pauses' = pauses + 1
    /\ UNCHANGED <<runVars, taskVars, remoteVars, lost>>

Resume ==
    /\ ~pause_event /\ pause_event' = TRUE
    /\ task' = [c \in Chunk |-> IF task[c] = "paused" THEN "woken" ELSE task[c]]
    /\ UNCHANGED <<attempt, answer, claims, first_error, completion_handle, pauses>>
    /\ UNCHANGED <<runVars, remoteVars, lost>>

UploadStep(c) ==
    \/ Proceed(c) \/ ReadChunk(c) \/ ReadFails(c)
    \/ StoreChunk(c) \/ Answered(c) \/ AttemptFails(c) \/ Reroute(c) \/ Rerouted(c) \/ NoProxyLeft(c)

RunStep == GetSlot \/ Reserved \/ ReserveFails \/ StartTasks \/ MacLoop \/ Finish \/ Finished

Next ==
    \/ RunStep \/ \E c \in Chunk : UploadStep(c)
    \/ Register \/ Cancel \/ Pause \/ Resume

\* The event loop runs every ready coroutine, and a storage node does not
\* answer 509 for ever.
AttemptEnds(c) == StoreChunk(c) \/ AttemptFails(c)
Fairness ==
    /\ WF_vars(RunStep)
    /\ \A c \in Chunk : WF_vars(UploadStep(c)) /\ SF_vars(AttemptEnds(c))

Spec == Init /\ [][Next]_vars
FairSpec == Spec /\ Fairness

-----------------------------------------------------------------------------
(* Properties.                                                              *)

\* Whatever POSTs are lost, repeated or answered out of order, and whenever the
\* upload fails or is cancelled: a node that exists on MEGA has every chunk
\* behind it and the MAC of all of them, in order (upload.py:230-265).
NodeIsWhole == node # NoNode => stored = InFile /\ node = [c \in InFile |-> c]

\* At most Slots chunks are read and not yet folded: a permit is free or with
\* one chunk from its claim until the MAC loop has consumed it, "not as soon as
\* its POST finishes" (upload.py:183-191).
ClaimsAccounted == phase = "transfer" => claims + Cardinality(InTask(Holding)) = Slots

\* The handle is found whichever POST brings it and in whatever order the
\* answers arrive: an upload whose chunks all went through ends without one
\* only if the file is empty or an answer was lost (upload.py:204-206, 245).
HandleFound == result = "no_handle" => lost \/ total_chunks = 0

\* An upload that is not left paused ends, whatever its POSTs do.
Terminates == <>[]pause_event => (phase = "transfer" ~> phase = "ended")
=============================================================================
