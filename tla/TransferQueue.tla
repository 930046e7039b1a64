---------------------------- MODULE TransferQueue ----------------------------
(***************************************************************************)
(* The download queue: app/api/routes_transfers.py over app/state.py and   *)
(* the download_queue table of app/storage/db.py.                          *)
(*                                                                         *)
(* HTTP handlers and one _run_download task per transfer interleave on the *)
(* event loop.  They share the in-memory queue (active_transfers), the     *)
(* task and pause-event tables, the claimed paths, the database rows and   *)
(* the files.  An action is what a handler or task does between two awaits *)
(* that let others run.  A database call takes its arguments when it is    *)
(* made, waits for Database._lock in turn, and has committed when it       *)
(* returns; broadcasts that only delay are left out.                       *)
(* A file is the link its bytes come from and whether it is whole; the     *)
(* chunk level below is module ChunkPipeline, the slot queue is module     *)
(* ResizableSemaphore.                                                     *)
(***************************************************************************)
EXTENDS Integers, FiniteSets, Sequences

CONSTANTS
    Id,            \* transfer ids
    Link,          \* MEGA file links
    MaxSlots,      \* state.download_slots.limit
    MaxCrashes,    \* bound: restarts of the process
    MaxRequests,   \* bound: requests of the user
    MaxCopies,     \* bound: the n of "name (n)"
    CommonName,    \* the file name all links resolve to, when they share one
    Nothing, Mixed \* model values: no row, path or file; bytes of several files

ASSUME QueueAssumption ==
    /\ MaxSlots \in Nat \ {0} /\ MaxCrashes \in Nat /\ MaxRequests \in Nat /\ MaxCopies \in Nat
    /\ IsFiniteSet(Id) /\ IsFiniteSet(Link)

\* <<name, n>>: "name", "name (1)", ...
Path == (Link \cup {CommonName}) \X (0..MaxCopies)

VARIABLES
    listed,        \* keys of state.active_transfers
    entry,         \* the entry dicts; a task keeps its own after it is unlisted
    task,          \* where the transfer's _run_download is; "none" = not in transfer_tasks
    dest,          \* its local `dest`
    resuming,      \* its local `resuming`
    cancelling,    \* task.cancel() called, CancelledError not yet delivered
    event,         \* state.transfer_pause_events: "none", "set", "clear"
    claimed,       \* state.claimed_download_paths
    row,           \* the download_queue table, as committed
    writes,        \* database calls not yet returned, in the order of Database._lock
    file,          \* the download directory
    launching,     \* a handler on its way to create_task, per transfer
    launchPath,    \* the resume_path it will pass
    asked,         \* history: why its task is cancelled, "stop" or "delete"
    restarted,     \* history: some download was relaunched
    crashes, requests,   \* the bounded counters
    serial,        \* requests come one at a time, each after the last one's response
    sameName       \* all links resolve to the same file name

taskVars == <<task, dest, resuming, cancelling>>
fileVars == <<claimed, file>>
launchVars == <<launching, launchPath>>
dbVars == <<row, writes>>
fixedVars == <<serial, sameName, crashes>>
scopeVars == <<fixedVars, restarted, requests>>
vars == <<listed, entry, taskVars, event, fileVars, dbVars, launchVars, asked, scopeVars>>

Live(i) == task[i] \notin {"none", "killed"}
\* Waiting for a database call of its own.
Calling == {"placing", "queueing", "slotting"}
InSlot == {i \in Id : task[i] \in {"slotting", "starting", "running", "unwinding"}}
\* It has its destination, and writes to it or is about to.
AtFile(i) == task[i] \in {"placing", "placed", "queueing", "waiting"} \/ i \in InSlot
Locked == Cardinality(InSlot) >= MaxSlots

TERMINAL_STATUS_KEYS == {"done", "cancelled", "mac_mismatch", "error"}
\* Faulty variant: a transfer that is starting counts as restartable.
RestartableWhileStarting == {"cancelled", "mac_mismatch", "error", "paused", "starting"}
RESTARTABLE_DOWNLOAD_STATUS_KEYS == {"cancelled", "mac_mismatch", "error", "paused"}
RESUMABLE_ON_STARTUP_KEYS == {"starting", "queued", "downloading"}
Status == TERMINAL_STATUS_KEYS \cup RESTARTABLE_DOWNLOAD_STATUS_KEYS \cup RESUMABLE_ON_STARTUP_KEYS

ASSUME NothingAssumption ==
    Nothing \notin Path \cup [link : Link, status : Status, path : Path \cup {Nothing}]

NewEntry(l) == [link |-> l, status |-> "starting", path |-> Nothing, removed |-> FALSE]
Blank == NewEntry(Nothing)
Row(e) == [link |-> e.link, status |-> e.status, path |-> e.path]

Exists(p) == p # Nothing /\ file[p] # Nothing
\* Faulty variant: the status is not looked at.
IsAnyFile(e) == Exists(e.path)
\* A transfer removed without a live task loses an incomplete file.
IsGarbage(e) == e.status # "done" /\ Exists(e.path)
Unlink(p) == [file EXCEPT ![p] = Nothing]

FileName(l) == IF sameName THEN CommonName ELSE l

Init ==
    /\ listed = {} /\ entry = [i \in Id |-> Blank]
    /\ task = [i \in Id |-> "none"] /\ dest = [i \in Id |-> Nothing]
    /\ resuming = [i \in Id |-> FALSE] /\ cancelling = [i \in Id |-> FALSE]
    /\ event = [i \in Id |-> "none"]
    /\ claimed = {} /\ file = [p \in Path |-> Nothing]
    /\ row = [i \in Id |-> Nothing] /\ writes = <<>>
    /\ launching = [i \in Id |-> "none"] /\ launchPath = [i \in Id |-> Nothing]
    /\ asked = [i \in Id |-> "none"]
    /\ crashes = 0 /\ requests = 0 /\ restarted = FALSE /\ serial \in BOOLEAN /\ sameName \in BOOLEAN

-----------------------------------------------------------------------------
(* The database: upsert_download_queue and delete_download_queue.           *)

\* Who called, of which transfer, the row the call leaves, and the ids that
\* clear-finished has still to remove.
Call(by, i, r) == [by |-> by, id |-> i, row |-> r, left |-> {}]
Persist(by, i) == writes' = Append(writes, Call(by, i, Row(entry'[i])))

Committed == [row EXCEPT ![Head(writes).id] = Head(writes).row]
Commits(by, i) ==
    /\ writes # <<>> /\ Head(writes).by = by /\ Head(writes).id = i
    /\ row' = Committed
Returns(by, i) == Commits(by, i) /\ writes' = Tail(writes)

\* The call of a cancelled task leaves the lock's queue; if it was inside, its
\* statement may have reached the database thread.
Without(k) == SubSeq(writes, 1, k - 1) \o SubSeq(writes, k + 1, Len(writes))
GiveUpCall(i) ==
    \E k \in 1..Len(writes) :
      /\ writes[k].by = "task" /\ writes[k].id = i
      /\ writes' = Without(k)
      /\ row' \in IF k = 1 THEN {row, Committed} ELSE {row}

Waits(by, i) == \E k \in 1..Len(writes) : writes[k].by = by /\ writes[k].id = i
Unwritten(i) == \E k \in 1..Len(writes) : writes[k].id = i

\* A status change and the call that persists it.
SetStatus(i, s, by) ==
    /\ entry' = [entry EXCEPT ![i].status = s]
    /\ Persist(by, i)

-----------------------------------------------------------------------------
(* Launching: create_download, _restart_download.                           *)

\* A handler has not returned, or the task it created has not started.
Busy ==
    \/ \E k \in 1..Len(writes) : writes[k].by \notin {"task", "final"}
    \/ \E i \in Id : launching[i] # "none" \/ task[i] = "unstarted"
Request ==
    /\ ~(serial /\ Busy)
    /\ requests < MaxRequests /\ requests' = requests + 1

\* A uuid4 nothing refers to any more.
Fresh(i) ==
    /\ i \notin listed /\ task[i] = "none" /\ launching[i] = "none" /\ row[i] = Nothing
    /\ \A k \in 1..Len(writes) : i \notin {writes[k].id} \cup writes[k].left

\* _restart_download up to its first await.
Restart(i) ==
    LET path == entry[i].path
        corrupt == entry[i].status = "mac_mismatch" /\ Exists(path) IN
    /\ file' = IF corrupt THEN Unlink(path) ELSE file
    /\ launchPath' = [launchPath EXCEPT ![i] = IF Exists(path) /\ ~corrupt THEN path ELSE Nothing]
    /\ launching' = [launching EXCEPT ![i] = "restarting"]
    /\ SetStatus(i, "starting", "launch")
    /\ restarted' = TRUE
    /\ UNCHANGED <<listed, taskVars, event, claimed, row, asked, fixedVars>>

\* Faulty variant: finished downloads are overlooked.
FindUnfinishedByLink(l) ==
    {i \in listed : entry[i].link = l /\ entry[i].status \notin TERMINAL_STATUS_KEYS}
\* _find_download_by_link
FindByLink(l) == {i \in listed : entry[i].link = l}

CreateDownload(l) ==
    /\ Request
    /\ FindByLink(l) = {}
    /\ \E i \in Id :
         /\ Fresh(i)
         /\ listed' = listed \cup {i}
         /\ entry' = [entry EXCEPT ![i] = NewEntry(l)]
         /\ Persist("create", i)
         /\ launching' = [launching EXCEPT ![i] = "creating"]
         /\ launchPath' = [launchPath EXCEPT ![i] = Nothing]
    /\ UNCHANGED <<taskVars, event, fileVars, row, asked, restarted, fixedVars>>

\* The link is in the queue already: a failed or idle copy is retried in place.
CanRetry(i) == task[i] = "none" /\ entry[i].status \in RESTARTABLE_DOWNLOAD_STATUS_KEYS
RetryDuplicate(i) == Request /\ i \in listed /\ CanRetry(i) /\ Restart(i)

\* The broadcast of _restart_download looks the transfer up again: KeyError if it
\* is gone.
Announce(i) ==
    /\ launching[i] = "restarting" /\ Returns("launch", i)
    /\ launching' = [launching EXCEPT ![i] = IF i \in listed THEN "announcing" ELSE "none"]
    /\ UNCHANGED <<listed, entry, taskVars, event, fileVars, launchPath, asked, scopeVars>>

CreateTask(i) ==
    /\ \/ launching[i] = "creating" /\ Returns("create", i)
       \/ launching[i] = "announcing" /\ UNCHANGED dbVars
    /\ launching' = [launching EXCEPT ![i] = "none"]
    /\ task' = [task EXCEPT ![i] = "unstarted"]
    /\ dest' = [dest EXCEPT ![i] = launchPath[i]]
    /\ resuming' = [resuming EXCEPT ![i] = launchPath[i] # Nothing]
    /\ cancelling' = [cancelling EXCEPT ![i] = FALSE]
    /\ launchPath' = [launchPath EXCEPT ![i] = Nothing]
    /\ UNCHANGED <<listed, entry, event, fileVars, asked, scopeVars>>

-----------------------------------------------------------------------------
(* The task: _run_download.                                                 *)

Step(i, at) == task[i] = at /\ ~cancelling[i]
Goto(i, at) == task' = [task EXCEPT ![i] = at]
OtherTaskVars == <<dest, resuming, cancelling>>
OtherVars == <<listed, launchVars, asked, scopeVars>>

\* Up to the metadata call.  A KeyError for an unlisted id escapes: it is
\* raised before the try block.
StartTask(i) ==
    /\ Step(i, "unstarted")
    /\ IF i \in listed
       THEN Goto(i, "metadata") /\ event' = [event EXCEPT ![i] = "set"]
       ELSE Goto(i, "killed") /\ UNCHANGED event
    /\ UNCHANGED <<OtherTaskVars, entry, dbVars, fileVars, OtherVars>>

\* Faulty variant: a path another task claimed is free.
UnclaimedNotAsked(l) == {n \in 0..MaxCopies : ~Exists(<<FileName(l), n>>)}
FreeCopies(l) ==
    {n \in 0..MaxCopies : <<FileName(l), n>> \notin claimed /\ ~Exists(<<FileName(l), n>>)}
\* _claim_unique_path: the first free copy, as a set; none beyond MaxCopies.
ClaimUnique(l) ==
    {<<FileName(l), n>> : n \in {k \in FreeCopies(l) : \A m \in FreeCopies(l) : k <= m}}

\* Metadata is here: the destination is fixed and persisted.
Resolve(i) ==
    /\ Step(i, "metadata")
    /\ \E d \in IF dest[i] = Nothing THEN ClaimUnique(entry[i].link) ELSE {dest[i]} :
         /\ dest' = [dest EXCEPT ![i] = d]
         /\ claimed' = claimed \cup {d}
         /\ entry' = [entry EXCEPT ![i].path = d]
    /\ Persist("task", i)
    /\ Goto(i, "placing")
    /\ UNCHANGED <<resuming, cancelling, event, file, row, OtherVars>>

\* A persist of the task returns and a broadcast follows, which raises KeyError
\* for an unlisted id.
AfterCall == [placing |-> "placed", queueing |-> "waiting", slotting |-> "starting"]
CallReturns(i) ==
    /\ task[i] \in Calling /\ ~cancelling[i] /\ Returns("task", i)
    /\ IF i \in listed
       THEN Goto(i, AfterCall[task[i]]) /\ UNCHANGED entry
       ELSE Goto(i, "closing") /\ entry' = [entry EXCEPT ![i].status = "error"]
    /\ UNCHANGED <<OtherTaskVars, event, fileVars, OtherVars>>

\* The broadcast has returned: say so if no slot is free, then wait for one.
Queue(i) ==
    /\ Step(i, "placed")
    /\ IF Locked
       THEN SetStatus(i, "queued", "task") /\ Goto(i, "queueing")
       ELSE Goto(i, "waiting") /\ UNCHANGED <<entry, writes>>
    /\ UNCHANGED <<OtherTaskVars, event, fileVars, row, OtherVars>>

EnterSlot(i) ==
    /\ Step(i, "waiting") /\ ~Locked
    /\ SetStatus(i, "downloading", "task")
    /\ Goto(i, "slotting")
    /\ UNCHANGED <<OtherTaskVars, event, fileVars, row, OtherVars>>

\* Faulty variant: a resumed download starts over behind what it finds.
BehindLeftover(i) == [link |-> IF resuming[i] /\ Exists(dest[i]) THEN Mixed ELSE entry[i].link,
                      whole |-> FALSE]
\* What Downloader.run finds when it opens the file: its own partial, someone
\* else's bytes it continues, or a file it (re)creates.
Opened(i) ==
    IF ~resuming[i] \/ ~Exists(dest[i]) THEN [link |-> entry[i].link, whole |-> FALSE]
    ELSE IF file[dest[i]].link = entry[i].link THEN [link |-> entry[i].link, whole |-> FALSE]
    ELSE [link |-> Mixed, whole |-> FALSE]

\* Downloader.run has the download's address and opens the file.
OpenFile(i) ==
    /\ Step(i, "starting")
    /\ Goto(i, "running")
    /\ file' = [file EXCEPT ![dest[i]] = Opened(i)]
    /\ UNCHANGED <<OtherTaskVars, entry, event, claimed, dbVars, OtherVars>>

\* Downloader.run returns.  It wrote to the inode it opened: an unlinked file
\* does not come back.  The MAC tells whether the bytes are the link's; with
\* "verify MAC" off nobody asks.
Complete(i) ==
    /\ Step(i, "running")
    /\ \E outcome \in {"done", "mac_mismatch"} :
         entry' = [entry EXCEPT ![i].status = outcome]
    /\ file' = IF Exists(dest[i]) /\ file[dest[i]].link \in {entry[i].link, Mixed}
                THEN [file EXCEPT ![dest[i]].whole = TRUE] ELSE file
    /\ Goto(i, "closing")
    /\ UNCHANGED <<OtherTaskVars, event, claimed, dbVars, OtherVars>>

\* Any exception: the metadata call, or Downloader.run.
Fail(i) ==
    /\ task[i] \in {"metadata", "starting", "running"} /\ ~cancelling[i]
    /\ entry' = [entry EXCEPT ![i].status = "error"]
    /\ Goto(i, "closing")
    /\ UNCHANGED <<OtherTaskVars, event, fileVars, dbVars, OtherVars>>

PartialGoes(e) == e.removed

\* except CancelledError
Cancelled(i) ==
    /\ entry' = [entry EXCEPT ![i].status = "cancelled"]
    /\ file' = IF PartialGoes(entry[i]) /\ Exists(dest[i]) THEN Unlink(dest[i]) ELSE file
    /\ Goto(i, "closing")

\* Faulty variant: a task in line for a slot does not hear of the cancel.
NotInLine == Calling \cup {"metadata", "placed", "starting", "unwinding"}
\* Awaits inside the try block that end at once.
Interrupted == Calling \cup {"metadata", "placed", "waiting", "starting", "unwinding"}

\* The CancelledError reaches the task where it is suspended: before its first
\* step and in the finally block nothing handles it; inside Downloader.run the
\* fetches are unwound first.
DeliverCancel(i) ==
    /\ cancelling[i] /\ Live(i)
    /\ cancelling' = [cancelling EXCEPT ![i] = FALSE]
    /\ \/ /\ task[i] \in {"unstarted", "closing"}
          /\ Goto(i, "killed")
          /\ UNCHANGED <<entry, file>>
       \/ task[i] \in Interrupted /\ Cancelled(i)
       \/ /\ task[i] = "running"
          /\ Goto(i, "unwinding")
          /\ UNCHANGED <<entry, file>>
    /\ IF task[i] \in Calling THEN GiveUpCall(i) ELSE UNCHANGED dbVars
    /\ UNCHANGED <<dest, resuming, event, claimed, OtherVars>>

Unwound(i) ==
    /\ Step(i, "unwinding")
    /\ Cancelled(i)
    /\ UNCHANGED <<OtherTaskVars, event, claimed, dbVars, OtherVars>>

\* Faulty variant: failed and cancelled downloads leave the table, too.
LeavesWhenTerminal(e) == e.status \in TERMINAL_STATUS_KEYS \/ e.removed
LeavesQueue(e) == e.status = "done" \/ e.removed

\* The finally block after api.aclose(), up to its database call: nobody can
\* cancel the task any more.
Close(i) ==
    /\ Step(i, "closing")
    /\ claimed' = claimed \ {dest[i]}
    /\ Goto(i, "none")
    /\ event' = [event EXCEPT ![i] = "none"]
    /\ writes' = Append(writes, Call("final", i, IF LeavesQueue(entry[i])
                                                 THEN Nothing ELSE Row(entry[i])))
    /\ dest' = [dest EXCEPT ![i] = Nothing]
    /\ resuming' = [resuming EXCEPT ![i] = FALSE]
    /\ asked' = [asked EXCEPT ![i] = "none"]
    /\ UNCHANGED <<cancelling, entry, file, row, listed, launchVars, scopeVars>>

-----------------------------------------------------------------------------
(* The other requests.                                                      *)

\* pause-all and resume-all walk a copy of the queue across their awaits: a turn
\* of theirs may come to an entry that is no longer listed.
Reaches(i) == i \in listed \/ (~serial /\ entry[i].link # Nothing)

\* pause, and one turn of pause-all
Pause(i) ==
    /\ Request /\ Reaches(i)
    /\ event[i] # "none" /\ entry[i].status = "downloading"
    /\ event' = [event EXCEPT ![i] = "clear"]
    /\ SetStatus(i, "paused", "answer")
    /\ UNCHANGED <<taskVars, fileVars, row, listed, launchVars, asked, restarted, fixedVars>>

\* resume, and one turn of resume-all
Resume(i) ==
    /\ Request
    /\ \/ /\ Reaches(i) /\ event[i] # "none"
          /\ event' = [event EXCEPT ![i] = "set"]
          /\ SetStatus(i, "downloading", "answer")
          /\ UNCHANGED <<taskVars, fileVars, row, listed, launchVars, asked, restarted, fixedVars>>
       \/ /\ i \in listed /\ event[i] = "none"
          /\ entry[i].status \in RESTARTABLE_DOWNLOAD_STATUS_KEYS
          /\ Restart(i)

\* Nothing that matters follows: pause, resume, the end of a task.
LastCallReturns(i) ==
    /\ Returns("answer", i) \/ Returns("final", i)
    /\ UNCHANGED <<listed, entry, taskVars, event, fileVars, launchVars, asked, scopeVars>>

StopAll ==
    /\ Request
    /\ \E i \in Id : Live(i)
    /\ cancelling' = [i \in Id |-> cancelling[i] \/ Live(i)]
    /\ asked' = [i \in Id |-> IF Live(i) /\ asked[i] = "none" THEN "stop" ELSE asked[i]]
    /\ UNCHANGED <<listed, entry, task, dest, resuming, event, fileVars, dbVars,
                   launchVars, restarted, fixedVars>>

\* DELETE of a transfer in transfer_tasks: its task cleans up.
CancelTransfer(i) ==
    /\ Request /\ i \in listed /\ task[i] # "none"
    /\ entry' = [entry EXCEPT ![i].removed = TRUE]
    /\ cancelling' = [cancelling EXCEPT ![i] = @ \/ Live(i)]
    /\ asked' = [asked EXCEPT ![i] = "delete"]
    /\ UNCHANGED <<listed, task, dest, resuming, event, fileVars, dbVars,
                   launchVars, restarted, fixedVars>>

\* DELETE of any other: the partial file goes, the row, then the entry.
RemoveIdle(i) ==
    /\ Request /\ i \in listed /\ task[i] = "none"
    /\ entry' = [entry EXCEPT ![i].removed = TRUE]
    /\ file' = IF IsGarbage(entry[i])
               THEN Unlink(entry[i].path) ELSE file
    /\ writes' = Append(writes, Call("delete", i, Nothing))
    /\ UNCHANGED <<listed, taskVars, event, claimed, row, launchVars, asked, restarted, fixedVars>>

PopRemoved(i) ==
    /\ Returns("delete", i)
    /\ listed' = listed \ {i}
    /\ UNCHANGED <<entry, taskVars, event, fileVars, launchVars, asked, scopeVars>>

\* clear-finished lists the finished ids once, then pops them one by one with
\* a database call between; `queue` holds the calls already made.
PopFinished(queue, rest) ==
    \/ /\ rest \cap listed = {}
       /\ writes' = queue /\ UNCHANGED listed
    \/ \E i \in rest \cap listed :
         /\ writes' = Append(queue, [Call("clear", i, Nothing) EXCEPT !.left = rest \ {i}])
         /\ listed' = listed \ {i}

ClearFinished ==
    LET finished == {i \in listed : entry[i].status \in TERMINAL_STATUS_KEYS} IN
    /\ Request /\ finished # {}
    /\ PopFinished(writes, finished)
    /\ UNCHANGED <<entry, taskVars, event, fileVars, row, launchVars, asked, restarted, fixedVars>>

ClearNext(i) ==
    /\ Commits("clear", i)
    /\ file' = IF IsGarbage(entry[i])
               THEN Unlink(entry[i].path) ELSE file
    /\ PopFinished(Tail(writes), Head(writes).left)
    /\ UNCHANGED <<entry, taskVars, event, claimed, launchVars, asked, scopeVars>>

-----------------------------------------------------------------------------
\* The process dies, with the call inside the lock committed or not, and
\* restore_download_queue rebuilds the queue from the rows; relaunched tasks
\* take their first step before any request.
Crash ==
    LET restored == {i \in Id : row'[i] # Nothing}
        relaunched == {i \in restored : row'[i].status \in RESUMABLE_ON_STARTUP_KEYS} IN
    /\ row' \in {row} \cup (IF writes = <<>> THEN {} ELSE {Committed})
    /\ writes' = <<>>
    /\ crashes < MaxCrashes /\ crashes' = crashes + 1
    /\ listed' = restored
    /\ entry' = [i \in Id |->
         IF i \in restored
         THEN [link |-> row'[i].link, path |-> row'[i].path, removed |-> FALSE,
               status |-> IF i \in relaunched THEN "queued" ELSE row'[i].status]
         ELSE Blank]
    /\ task' = [i \in Id |-> IF i \in relaunched THEN "metadata" ELSE "none"]
    /\ event' = [i \in Id |-> IF i \in relaunched THEN "set" ELSE "none"]
    /\ dest' = [i \in Id |-> IF i \in relaunched THEN row'[i].path ELSE Nothing]
    /\ resuming' = [i \in Id |-> i \in relaunched /\ row'[i].path # Nothing]
    /\ cancelling' = [i \in Id |-> FALSE]
    /\ claimed' = {}
    /\ launching' = [i \in Id |-> "none"] /\ launchPath' = [i \in Id |-> Nothing]
    /\ asked' = [i \in Id |-> "none"] /\ restarted' = TRUE
    /\ UNCHANGED <<file, requests, serial, sameName>>

-----------------------------------------------------------------------------
TaskStep(i) ==
    \/ StartTask(i) \/ Resolve(i) \/ CallReturns(i) \/ Queue(i) \/ EnterSlot(i) \/ OpenFile(i)
    \/ Complete(i) \/ Fail(i) \/ DeliverCancel(i) \/ Unwound(i) \/ Close(i)

HandlerStep(i) == Announce(i) \/ CreateTask(i) \/ PopRemoved(i) \/ LastCallReturns(i) \/ ClearNext(i)

UserRequest ==
    \/ \E l \in Link : CreateDownload(l)
    \/ \E i \in Id : RetryDuplicate(i) \/ Pause(i) \/ Resume(i) \/ CancelTransfer(i) \/ RemoveIdle(i)
    \/ StopAll \/ ClearFinished

Next == UserRequest \/ (\E i \in Id : HandlerStep(i) \/ TaskStep(i)) \/ Crash

\* The event loop delivers a cancel, lets the fetches unwind and runs the finally
\* block.  Nothing is assumed of MEGA, of broadcasts or of the wait for a slot.
Fairness ==
    \A i \in Id : WF_vars(DeliverCancel(i)) /\ WF_vars(Unwound(i)) /\ WF_vars(Close(i))

Spec == Init /\ [][Next]_vars
FairSpec == Spec /\ Fairness

-----------------------------------------------------------------------------
(* Properties.                                                              *)

\* "never create a second download of a file that's already in the queue"
\* (routes_transfers.py:347): a link is in the queue once, whatever handlers and
\* tasks interleave.  It holds within one life of the process: a row written for
\* an entry that is no longer listed comes back as a second one.
LinkListedOnce == \A i, j \in listed : entry[i].link = entry[j].link => i = j
OneEntryPerLink == crashes = 0 => LinkListedOnce

\* Whatever resume, resume-all and re-adding would relaunch has no task running
\* and no other handler about to create one: a download is never run twice at
\* once under its id, though _restart_download awaits before create_task.
WouldRelaunch(i) ==
    /\ i \in listed /\ entry[i].status \in RESTARTABLE_DOWNLOAD_STATUS_KEYS
    /\ event[i] = "none" \/ task[i] = "none"
NeverLaunchedTwice == \A i \in Id : WouldRelaunch(i) => ~Live(i) /\ launching[i] = "none"

\* The queue survives the end of the process at any moment
\* (routes_transfers.py:56-61), though every write waits for a lock, may be given
\* up by a cancel, and others overtake its caller: a listed download that is
\* neither done nor removed by the user has its row once the call of its first
\* write has returned, and with no write under way the row has the path to
\* resume, unless a cancel has its task in the finally block, or killed it there.
QueueSurvives ==
    \A i \in listed : entry[i].status # "done" /\ ~entry[i].removed =>
        /\ Waits("create", i) \/ (row[i] # Nothing /\ row[i].link = entry[i].link)
        /\ \/ Unwritten(i) \/ task[i] \in {"closing", "killed"}
           \/ row[i].path = entry[i].path

\* What the file guarantees need: no two links share a file name, requests do
\* not overlap and the process has not been restarted.
Orderly == serial /\ ~sameName /\ crashes = 0

SharedFile == \E i, j \in {k \in Id : AtFile(k)} : i # j /\ dest[i] = dest[j]

\* No two downloads write, or wait to write, to the same file (state.py:92-95).
OneWriterPerFile == Orderly \/ ~restarted => ~SharedFile

Own(i) == [link |-> entry[i].link, whole |-> TRUE]
DoneFile(i) == i \in listed /\ entry[i].status = "done" /\ Exists(entry[i].path)

WholeWhenDone == \A i \in Id : DoneFile(i) => file[entry[i].path] = Own(i)

\* What "done" promises, though a resumed download looks only at the size of
\* the file it finds: that file holds all of the link's bytes and no others,
\* even when the MAC is not verified; requests may overlap or relaunch downloads.
\* Links that share a file name do not have it: the file of a removed leftover
\* may be another's (DoneFileAlwaysKept).
DoneIsWhole == ~sameName /\ crashes = 0 /\ (serial \/ ~restarted) => WholeWhenDone

DoneFilesStay == \A i \in Id : DoneFile(i) => file'[entry[i].path] # Nothing

\* "a completed download's file is kept" (routes_transfers.py:127, 255): no
\* removal, clear or retry of any transfer deletes it.
DoneFileKept == [][Orderly => DoneFilesStay]_vars
DoneFileAlwaysKept == [][DoneFilesStay]_vars

\* "Partial files/DB rows are kept (this is a stop, not a removal)"
\* (routes_transfers.py:242-243): a task that ends because of stop-all, and not of
\* a DELETE since it was started, deletes no file.  The code breaks this.
StopKeepsPartial ==
    [][\A i \in Id : asked[i] = "stop" /\ Cancelled(i) => file' = file]_vars

\* A cancelled task ends, whatever it waits for: metadata, the database lock, a
\* slot or its fetches.  So a slot or a claimed path is not held for ever.
CancelEnds == \A i \in Id : cancelling[i] ~> ~Live(i)
=============================================================================
