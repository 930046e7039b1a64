--------------------------- MODULE ChunkPipeline ---------------------------
(***************************************************************************)
(* One download: Downloader.run of app/transfers/download.py.             *)
(*                                                                         *)
(* A fetch task per missing chunk runs on the event loop next to a single  *)
(* writer.  A task claims one of the Slots permits of claim_sem, waits for *)
(* the pause event, fetches its chunk (retrying, or rerouting through a    *)
(* proxy on HTTP 509) and deposits it; the writer drains the deposits in   *)
(* chunk order to the file and into the MAC, and only then gives the       *)
(* permit back.  The run can be paused, cancelled (while it unwinds, too), *)
(* killed with the process, and run again over what it left on disk.       *)
(*                                                                         *)
(* A chunk's bytes are its id.  An action is what a task does between two  *)
(* awaits that really suspend; the lock of `cond` is never held across     *)
(* one, so acquiring it is not a step.                                     *)
(***************************************************************************)
EXTENDS Integers, Sequences, FiniteSets

CONSTANTS
    TotalChunks,   \* len(chunks)
    Slots,         \* self.slots
    MaxRetries,    \* MAX_CHUNK_RETRIES
    GlobFinds,     \* _cleanup_temps's pattern matches the temp files; FALSE of a
                   \* dest_path with [..], which glob reads as a character class
    SmartProxy,    \* self.proxy_manager is not None
    MaxRuns,       \* bound: how often the download is (re)started
    MaxPauses,     \* bound: how often it is paused, over all runs
    MaxCancels     \* bound: how often one run is cancelled

ASSUME SizesAssumption ==
    /\ TotalChunks \in Nat
    /\ Slots \in Nat \ {0}
    /\ MaxRetries \in Nat \ {0}
ASSUME ModesAssumption == GlobFinds \in BOOLEAN /\ SmartProxy \in BOOLEAN
ASSUME BoundsAssumption == MaxRuns \in Nat /\ MaxPauses \in Nat /\ MaxCancels \in Nat

Chunk == 1..TotalChunks
Torn == 0                \* the tail of the file when it is only part of a chunk

Prefix(k) == [i \in 1..k |-> i]        \* the file made of the first k chunks

VARIABLES
    phase,         \* "idle", "transfer" (writer loop), "unwinding" (finally), "ended"
    result,        \* how the run ended, or is about to when unwinding
    task,          \* where each chunk's fetch coroutine is
    attempt,       \* _fetch_range's attempt counter, per chunk
    claims,        \* free permits of claim_sem
    pause_event,   \* TRUE when the event is set (not paused)
    first_error,   \* a fetch has failed
    writer,        \* "check", "asleep" (in cond.wait), "staged", "writing", "off"
    next_id,       \* the next chunk the writer needs
    resumed,       \* resume_chunks of this run
    disk,          \* the destination file
    mac,           \* the chunks folded into the file MAC, in order
    temps,         \* RAM-saver temp files on disk
    ram_saver,     \* self.ram_saver: the setting as the run found it
    cancels, runs, pauses    \* the bounded counters

vars == <<phase, result, task, attempt, claims, pause_event, first_error, writer,
          next_id, resumed, disk, mac, temps, ram_saver, cancels, runs, pauses>>

taskVars == <<task, attempt, claims, first_error>>
fileVars == <<next_id, resumed, disk, mac>>
runVars == <<phase, result, cancels, runs>>
userVars == <<pause_event, pauses, ram_saver>>

InTask(S) == {c \in Chunk : task[c] \in S}
Pending == InTask({"deposited"})
Live == {"new", "waiting", "granted", "paused", "woken", "fetching", "rerouting"}
Holding == {"granted", "paused", "woken", "fetching", "rerouting", "deposited", "taken"}

Init ==
    /\ phase = "idle" /\ result = "none"
    /\ task = [c \in Chunk |-> "absent"] /\ attempt = [c \in Chunk |-> 0]
    /\ claims = Slots /\ pause_event = TRUE /\ first_error = FALSE
    /\ writer = "off" /\ next_id = 1 /\ resumed = 0
    /\ disk = <<>> /\ mac = <<>> /\ temps = {}
    /\ ram_saver \in BOOLEAN /\ cancels = 0 /\ runs = 0 /\ pauses = 0

-----------------------------------------------------------------------------
(* Starting: resume what is on disk, create the fetch tasks, open the file. *)

\* The file's whole-chunk prefix, found from its size alone.
WholeChunks == IF disk # <<>> /\ disk[Len(disk)] = Torn THEN Len(disk) - 1 ELSE Len(disk)

\* Faulty variants: the torn tail stays; the file is reopened with mode "wb".
KeptAll == disk
KeptNothing == <<>>
Kept == SubSeq(disk, 1, WholeChunks)

\* Faulty variant: the prefix on disk is not replayed through the MAC.
ReplayedNothing == <<>>
Replayed == SubSeq(disk, 1, WholeChunks)

StartRun ==
    /\ phase \in {"idle", "ended"} /\ result # "complete" /\ InTask(Live) = {}
    /\ runs < MaxRuns /\ runs' = runs + 1 /\ cancels' = 0
    /\ resumed' = WholeChunks /\ next_id' = WholeChunks + 1
    /\ mac' = Replayed
    /\ task' = [c \in Chunk |-> IF c <= WholeChunks THEN "absent" ELSE "new"]
    /\ attempt' = [c \in Chunk |-> 0]
    /\ claims' = Slots /\ first_error' = FALSE /\ pause_event' = TRUE
    /\ ram_saver' \in BOOLEAN
    /\ UNCHANGED <<temps, pauses>>

\* open() succeeds, dropping any torn tail (or the whole of a file with no
\* complete chunk), and the writer loop begins.
Begin ==
    /\ StartRun
    /\ phase' = "transfer" /\ result' = "none" /\ writer' = "check"
    /\ disk' = Kept

\* open() raises: the tasks are already created and nothing cancels them.
OpenFails ==
    /\ StartRun
    /\ phase' = "ended" /\ result' = "open_error" /\ writer' = "off"
    /\ UNCHANGED disk

-----------------------------------------------------------------------------
(* The fetch tasks.                                                         *)

\* The event loop takes the new tasks' first steps in one pass, in chunk
\* order: the first Slots claim a permit, the others queue on the semaphore.
StartTasks ==
    LET New == InTask({"new"})
        Claimed == {c \in New : c <= resumed + Slots}
    IN  /\ New # {}
        /\ task' = [c \in Chunk |->
                      IF c \in Claimed THEN IF pause_event THEN "fetching" ELSE "paused"
                      ELSE IF c \in New THEN "waiting" ELSE task[c]]
        /\ claims' = Slots - Cardinality(Claimed)
        /\ temps' = IF ram_saver /\ pause_event THEN temps \cup Claimed ELSE temps
        /\ UNCHANGED <<attempt, first_error, writer>>
        /\ UNCHANGED <<runVars, userVars, fileVars>>

\* Faulty variant: the event was looked at before the permit was there.
GoesStale == TRUE
Goes == pause_event

\* A task that got its permit from a release looks at the pause event.
RunGranted(c) ==
    /\ task[c] = "granted"
    /\ task' = [task EXCEPT ![c] = IF Goes THEN "fetching" ELSE "paused"]
    /\ temps' = IF ram_saver /\ Goes THEN temps \cup {c} ELSE temps
    /\ UNCHANGED <<attempt, claims, first_error, writer>>
    /\ UNCHANGED <<runVars, userVars, fileVars>>

\* Event.wait() returns once woken, even when the event was cleared again.
RunWoken(c) ==
    /\ task[c] = "woken"
    /\ task' = [task EXCEPT ![c] = "fetching"]
    /\ temps' = IF ram_saver THEN temps \cup {c} ELSE temps
    /\ UNCHANGED <<attempt, claims, first_error, writer>>
    /\ UNCHANGED <<runVars, userVars, fileVars>>

\* Faulty variant: a deposit or failure without notify_all().
NotifyNobody == UNCHANGED writer
\* cond.notify_all(): the writer, if it sleeps, looks again.
NotifyWriter == writer' = IF writer = "asleep" THEN "check" ELSE writer

\* claim_sem.release(): asyncio hands the permit to the longest waiting task,
\* which is the lowest chunk since the tasks queued in chunk order.
Waiting == InTask({"waiting"})
\* Faulty variant: last come, first served.
LastWaiter == CHOOSE w \in Waiting : \A v \in Waiting : w >= v
FirstWaiter == CHOOSE w \in Waiting : \A v \in Waiting : w <= v
\* Faulty variant: the permit goes to the waiter and back to the pool.
ReleaseClaimTwice(c, state) ==
    /\ task' = IF Waiting = {} THEN [task EXCEPT ![c] = state]
               ELSE [task EXCEPT ![c] = state, ![FirstWaiter] = "granted"]
    /\ claims' = claims + 1
ReleaseClaim(c, state) ==
    IF Waiting = {}
    THEN task' = [task EXCEPT ![c] = state] /\ claims' = claims + 1
    ELSE task' = [task EXCEPT ![c] = state, ![FirstWaiter] = "granted"] /\ UNCHANGED claims

\* Faulty variant: the claim is given up once the chunk is fetched.
DepositReleases(c) ==
    /\ task[c] = "fetching"
    /\ ReleaseClaim(c, "deposited")
    /\ NotifyWriter
    /\ UNCHANGED <<attempt, first_error, temps>>
    /\ UNCHANGED <<runVars, userVars, fileVars>>
\* The chunk is fetched; its claim is kept.
Deposit(c) ==
    /\ task[c] = "fetching"
    /\ task' = [task EXCEPT ![c] = "deposited"]
    /\ NotifyWriter
    /\ UNCHANGED <<attempt, claims, first_error, temps>>
    /\ UNCHANGED <<runVars, userVars, fileVars>>

\* fetch's except branch.
FetchFails(c) ==
    /\ ReleaseClaim(c, "failed")
    /\ first_error' = TRUE
    /\ NotifyWriter
    /\ UNCHANGED <<attempt, temps>>
    /\ UNCHANGED <<runVars, userVars, fileVars>>

\* A status error, transport error or short chunk: retry, up to MaxRetries.
AttemptFails(c) ==
    /\ task[c] = "fetching"
    /\ \/ /\ attempt[c] + 1 < MaxRetries
          /\ attempt' = [attempt EXCEPT ![c] = @ + 1]
          /\ UNCHANGED <<task, claims, first_error, writer, temps>>
          /\ UNCHANGED <<runVars, userVars, fileVars>>
       \/ /\ attempt[c] + 1 >= MaxRetries
          /\ FetchFails(c)

\* HTTP 509: _switch_proxy, then the same attempt again, or its RuntimeError
\* when no proxy is left.
Reroute(c) ==
    /\ SmartProxy /\ task[c] = "fetching"
    /\ task' = [task EXCEPT ![c] = "rerouting"]
    /\ UNCHANGED <<attempt, claims, first_error, writer, temps>>
    /\ UNCHANGED <<runVars, userVars, fileVars>>

Rerouted(c) ==
    /\ task[c] = "rerouting"
    /\ task' = [task EXCEPT ![c] = "fetching"]
    /\ UNCHANGED <<attempt, claims, first_error, writer, temps>>
    /\ UNCHANGED <<runVars, userVars, fileVars>>

NoProxyLeft(c) ==
    /\ task[c] = "rerouting"
    /\ FetchFails(c)

-----------------------------------------------------------------------------
(* The writer loop and its finally block.                                   *)

\* Entering the finally block drops everything the run kept in memory and
\* cancels the fetch tasks; a cancelled task neither deposits nor fails.
Unwind(how) ==
    /\ phase' = "unwinding" /\ result' = how
    /\ task' = [c \in Chunk |-> IF task[c] \in Live \cup {"deposited", "taken"}
                                THEN "cancelled" ELSE task[c]]
    /\ claims' = Slots

\* Faulty variant (off by one): the last chunk is not waited for.
AllButOneWritten == next_id >= TotalChunks
AllWritten == next_id > TotalChunks

WriterCheck ==
    /\ phase = "transfer" /\ writer = "check"
    /\ \/ /\ AllWritten
          /\ Unwind("complete") /\ writer' = "off"
       \/ /\ ~AllWritten /\ first_error
          /\ Unwind("error") /\ writer' = "off"
       \/ /\ ~AllWritten /\ next_id \in Pending /\ ~first_error
          /\ task' = [task EXCEPT ![next_id] = "taken"]
          /\ writer' = IF ram_saver THEN "staged" ELSE "writing"
          /\ UNCHANGED <<phase, result, claims>>
       \/ /\ ~AllWritten /\ next_id \notin Pending /\ ~first_error
          /\ writer' = "asleep"
          /\ UNCHANGED <<phase, result, task, claims>>
    /\ UNCHANGED <<attempt, first_error, cancels, runs, temps>>
    /\ UNCHANGED <<userVars, fileVars>>

\* Faulty variant: the temp file is read, and left to the sweep.
ReadKeeping ==
    /\ phase = "transfer" /\ writer = "staged"
    /\ writer' = "writing"
    /\ UNCHANGED temps
    /\ UNCHANGED <<runVars, userVars, fileVars, taskVars>>
\* to_thread(_read_and_remove) is done.
ReadStaged ==
    /\ phase = "transfer" /\ writer = "staged"
    /\ temps' = temps \ {next_id}
    /\ writer' = "writing"
    /\ UNCHANGED <<runVars, userVars, fileVars, taskVars>>

\* to_thread(f.write) is done: fold the MAC, move on, free the claim.
WriteDone ==
    /\ phase = "transfer" /\ writer = "writing"
    /\ disk' = Append(disk, next_id)
    /\ mac' = Append(mac, next_id)
    /\ next_id' = next_id + 1
    /\ ReleaseClaim(next_id, "written")
    /\ writer' = "check"
    /\ UNCHANGED <<attempt, first_error, resumed, temps>>
    /\ UNCHANGED <<runVars, userVars>>

\* The staged read or the write raises (disk full, say, with part written).
WriterFails ==
    /\ phase = "transfer" /\ writer \in {"staged", "writing"}
    /\ Unwind("error") /\ writer' = "off"
    /\ disk' \in IF writer = "writing" THEN {disk, Append(disk, Torn)} ELSE {disk}
    /\ UNCHANGED <<attempt, first_error, cancels, runs, next_id, resumed, mac, temps>>
    /\ UNCHANGED userVars

\* task.cancel() while the loop runs.  A write already handed to a thread
\* stays in flight until the file is closed.
Cancel ==
    /\ phase = "transfer" /\ cancels < MaxCancels
    /\ cancels' = cancels + 1
    /\ Unwind("cancelled")
    /\ writer' = IF writer = "writing" THEN "writing" ELSE "off"
    /\ UNCHANGED <<attempt, first_error, runs, temps>>
    /\ UNCHANGED <<userVars, fileVars>>

\* A write in flight lands whole before close(), or finds the file closed.
CloseFile ==
    /\ disk' \in IF writer = "writing" THEN {disk, Append(disk, next_id)} ELSE {disk}
    /\ writer' = "off"

\* _cleanup_temps, only in a run with the RAM saver on: what the pattern matches
\* goes, but for the files that os.remove fails on.
CleanupTemps ==
    IF ram_saver /\ GlobFinds THEN temps' \in SUBSET temps ELSE UNCHANGED temps

\* gather() has returned: close the file, sweep the temp files.
Finish ==
    /\ phase = "unwinding" /\ phase' = "ended"
    /\ CloseFile
    /\ CleanupTemps
    /\ UNCHANGED <<result, cancels, runs, next_id, resumed, mac>>
    /\ UNCHANGED <<userVars, taskVars>>

\* A second task.cancel() makes gather() itself raise: f.close() and the sweep are
\* skipped, and the file is closed when it is collected, after the write in flight.
CancelAgain ==
    /\ phase = "unwinding" /\ cancels < MaxCancels
    /\ cancels' = cancels + 1
    /\ phase' = "ended" /\ result' = "abandoned"
    /\ CloseFile
    /\ UNCHANGED <<runs, next_id, resumed, mac, temps>>
    /\ UNCHANGED <<userVars, taskVars>>

-----------------------------------------------------------------------------
(* The surroundings.                                                        *)

\* The process dies.  What this run wrote may not all have left its buffers.
Crash ==
    LET written == IF writer = "writing" THEN Append(disk, next_id) ELSE disk IN
    /\ phase \in {"transfer", "unwinding"}
    /\ phase' = "ended" /\ result' = "crashed"
    /\ \E k \in resumed..Len(written) :
         \/ disk' = SubSeq(written, 1, k)
         \/ k < Len(written) /\ disk' = Append(SubSeq(written, 1, k), Torn)
    /\ task' = [c \in Chunk |-> "absent"]
    /\ claims' = Slots /\ writer' = "off"
    /\ UNCHANGED <<attempt, first_error, cancels, runs, next_id, resumed, mac, temps>>
    /\ UNCHANGED userVars

Pause ==
    /\ phase = "transfer" /\ pause_event /\ pauses < MaxPauses
    /\ pause_event' = FALSE /\ pauses' = pauses + 1
    /\ UNCHANGED <<runVars, taskVars, fileVars, writer, temps, ram_saver>>

Resume ==
    /\ ~pause_event /\ pause_event' = TRUE
    /\ task' = [c \in Chunk |-> IF task[c] = "paused" THEN "woken" ELSE task[c]]
    /\ UNCHANGED <<attempt, claims, first_error, pauses, writer, temps, ram_saver>>
    /\ UNCHANGED <<runVars, fileVars>>

-----------------------------------------------------------------------------
FetchStep(c) ==
    \/ RunGranted(c) \/ RunWoken(c) \/ Deposit(c) \/ AttemptFails(c)
    \/ Reroute(c) \/ Rerouted(c) \/ NoProxyLeft(c)

WriterStep == WriterCheck \/ ReadStaged \/ WriteDone \/ WriterFails

Next ==
    \/ Begin \/ OpenFails \/ StartTasks
    \/ \E c \in Chunk : FetchStep(c)
    \/ WriterStep \/ Cancel \/ Finish \/ CancelAgain
    \/ Crash \/ Pause \/ Resume

\* The event loop runs every ready coroutine and every worker thread returns;
\* storage nodes do not answer 509 for ever (AttemptEnds is strongly fair).
\* Nobody has to resume, cancel or restart a download.
AttemptEnds(c) == Deposit(c) \/ AttemptFails(c)
Fairness ==
    /\ WF_vars(StartTasks) /\ WF_vars(WriterStep) /\ WF_vars(Finish)
    /\ \A c \in Chunk : WF_vars(FetchStep(c)) /\ SF_vars(AttemptEnds(c))

Spec == Init /\ [][Next]_vars
FairSpec == Spec /\ Fairness

-----------------------------------------------------------------------------
(* Properties.                                                              *)

IsFile(f) ==
    \/ \E k \in 0..TotalChunks : f = Prefix(k)
    \/ \E k \in 1..TotalChunks : f = [Prefix(k) EXCEPT ![k] = Torn]

\* Every variable keeps its kind; the counters stay within their bounds.
TypeOK ==
    /\ phase \in {"idle", "transfer", "unwinding", "ended"}
    /\ result \in {"none", "complete", "error", "open_error", "cancelled", "abandoned", "crashed"}
    /\ task \in [Chunk -> Live \cup {"absent", "deposited", "taken", "written", "failed", "cancelled"}]
    /\ attempt \in [Chunk -> 0..MaxRetries - 1]
    /\ claims \in 0..Slots
    /\ pause_event \in BOOLEAN /\ first_error \in BOOLEAN
    /\ writer \in {"check", "asleep", "staged", "writing", "off"}
    /\ next_id \in 1..TotalChunks + 1 /\ resumed \in 0..TotalChunks
    /\ disk \in Seq(0..TotalChunks) /\ mac \in Seq(Chunk)
    /\ temps \subseteq Chunk /\ ram_saver \in BOOLEAN
    /\ cancels \in 0..MaxCancels /\ runs \in 0..MaxRuns /\ pauses \in 0..MaxPauses

\* Whatever the fetch order, cancels, failed writes and crashes of any number
\* of runs, the file is the first chunks in order, torn at most in its last
\* one: what makes the resume of Downloader.run, which looks only at the
\* file's size, sound (download.py:314-333).
FileIsPrefix == IsFile(disk)

\* While a run transfers, the MAC has folded exactly the chunks in the file,
\* those found on disk by the resume included, and the writer asks for the one
\* after them: a resumed download verifies like an uninterrupted one.
MacFollowsFile == phase = "transfer" => mac = disk /\ next_id = Len(disk) + 1

\* Every permit of claim_sem is free or held by one chunk from its claim until
\* it is on disk, so at most Slots chunks are ever buffered, however far a
\* straggler falls behind (download.py:335-345).
ClaimsAccounted == claims + Cardinality(InTask(Holding)) = Slots

\* Until a fetch fails the claimed chunks lie in a window of Slots chunks that
\* starts at the one the writer needs, so that one always has a claim and the
\* writer never waits for a chunk that waits for the writer.
ClaimWindow ==
    phase = "transfer" /\ ~first_error =>
        InTask(Holding) \subseteq next_id..(next_id + Slots - 1)

\* The writer is never asleep on `cond` when what it waits for is there.
NoLostWakeup == writer = "asleep" => next_id \notin Pending /\ ~first_error

\* A run that reports a result has the whole file on disk, and the MAC it
\* reports on is that of the whole file.
CompleteIsWhole ==
    phase = "ended" /\ result = "complete" => disk = Prefix(TotalChunks) /\ mac = disk

\* A run that reports a result has consumed every temp file it could find at a
\* chunk it wrote, its own and those of killed runs, whatever the sweep misses
\* ("a clean run deletes each as it's consumed", download.py:278): what is left
\* are files of earlier runs at chunks that the resume found on disk.
CleanRunConsumes ==
    phase = "ended" /\ result = "complete" /\ ram_saver => temps \subseteq 1..resumed

\* Whole chunks are never given up: not by a cancel, an error or the next run's
\* truncate; a crash costs at most what the crashed run itself had written.
WholeChunksKept ==
    [][WholeChunks' >= IF phase # "ended" /\ phase' = "ended" /\ result' = "crashed"
                       THEN resumed ELSE WholeChunks]_vars

\* While the download is paused no chunk starts to be fetched, except by a task
\* that an earlier resume had already woken.
PauseHolds ==
    [][\A c \in Chunk :
         ~pause_event' /\ task'[c] = "fetching" => task[c] \in {"fetching", "rerouting", "woken"}]_vars

\* A download that is not left paused always ends: with a result, or with the
\* error of a fetch that ran out of retries; no mix of failures, pauses and
\* permits wedges it.
Terminates == <>[]pause_event => (phase = "transfer" ~> phase = "ended")

=============================================================================
