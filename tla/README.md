# A TLA+ model of MegaBasterd-Py

MegaBasterd-Py downloads files from MEGA (and uploads to it) through a FastAPI
server with a web page in front. This directory holds TLA+ modules for the parts
of it that are hard to test, TLC configurations that check them on small
instances, and proofs for TLAPS. Source references are `path:line` under `src/app/`.

## 1. Inventory

Everything runs on one asyncio event loop, plus worker threads for blocking file
access. Two pieces of code interleave wherever one of them awaits something that
really suspends; between two such awaits nothing else runs. That is the grain of
the actions in all modules.

| Part | State | Operations | Hard behaviour | What makes it correct |
|---|---|---|---|---|
| **Chunk pipeline** `transfers/download.py` | destination file, MAC, `pending`, `claim_sem`, `cond`, `pause_event`, temp files | `run`, `fetch`, `_fetch_range(_to_file)`, `_switch_proxy`, `_cleanup_temps` | out-of-order fetches, bounded buffer, cancel at every await, torn writes, resume from a size | the file is an in-order prefix; the MAC covers it; no permit or wakeup is lost; it ends |
| **Download queue** `api/routes_transfers.py`, `state.py`, `storage/db.py` | `active_transfers`, `transfer_tasks`, `transfer_pause_events`, `claimed_download_paths`, table `download_queue`, files | add, retry, pause, resume, stop, delete, clear, restore; the task `_run_download` | handlers await between check and use; database calls queue on a lock and can be given up; tasks die in odd places; process restarts | one entry per link, one task per entry, one writer per file, finished files kept, queue restorable |
| **ResizableSemaphore** `transfers/concurrency.py` | `limit`, `_in_use`, waiters | `acquire`, `release`, `set_limit` | a limit that moves under permits that are out; cancelled waiters, whose wakeups Python up to 3.12 loses | permits counted exactly; no wakeup lost but by a cancel; all served |
| **Chunk arithmetic** `core/chunks.py` | none | offset, size, URL, `iter_chunks`; the resume loop | boundaries, the multiplier | chunks tile the file; both sides agree on what the MAC is folded over |
| **MAC and crypto** `transfers/mac.py`, `core/crypto.py` | running MAC | `process_chunk`, CTR, key layouts | order and boundaries of what is fed | see pipeline and arithmetic; the ciphers are tested with vectors |
| **Upload pipeline** `transfers/upload.py`, `_run_upload` | `pending`, `claim_sem`, completion handle | `run`, `upload_one`, `_post_chunk`; `finish_upload_file` | as the download, plus a remote registration that cannot be undone | a registered node has every chunk and the MAC of the whole file; the completion handle is not lost |
| **SmartProxy** `core/proxy_manager.py` | pool, bans, verified pool; per transfer a client, an address and a lock | `pick_proxy`, `block_proxy`, `refresh_from_text`; `_switch_proxy` | refresh awaits between parse and swap; shared by all transfers; time; workers replace the client others stream from | a proxy that was left is not taken again; no attempt on a closed client, no client leaked |
| **API client** `core/mega_api.py`, `core/hashcash.py` | session, sequence number, per-request retry state | `_raw_request` and the commands on it | stale response and proxy across retries, unbounded hashcash loop | never back to a route that answered 509; the request ends |
| **Account store** `storage/account_store.py` | master key in memory, hash and salt, one row per account | unlock, set/rotate/remove the master password, persist a login, list | a rotation is many database calls | every account stays readable with the current password |
| **Settings, start-up** `api/routes_settings.py`, `main.py` | module globals, settings table | forms; `lifespan` | order of restore; limits changed live | the semaphore's properties |
| **Broadcast** `state.py`, `api/ws.py` | `subscribers` | `broadcast`, connect, disconnect | iterates a list that changes across awaits; broadcasts overlap and are cancelled | the last change of a transfer reaches every open page |
| **Streaming** `streaming/video_proxy.py` | none | range parsing, aligned decryption | range edge cases | the bytes served are the bytes asked for |
| **Folder tree** `features/folder_tree.py`, `api/routes_folder.py` | none | tree from a flat map of nodes | nodes nobody can read, orphans | every readable node once, at its place |
| Splitter, link parser `features/splitter.py`, `core/link_parser.py` | none | split and merge, parsing | part numbering | merge undoes split |
| Thumbnailer, desktop shell, web page | - | ffmpeg, a window, views of the API | - | - |

How they interact: a handler creates an entry, a database row and a task; the task
asks the API client for metadata, claims a path, waits for a permit of
`download_slots`, and awaits `Downloader.run`, handing it the pause event that the
pause and resume handlers clear and set. `Downloader.run` gets its chunks from
`iter_chunks`, its proxies from the SmartProxy pool, and verifies with the MAC.
The task's `finally` block takes the transfer out of the shared tables.
`PROJECT.json` lists, under `hazards`, where each of these can go wrong.

## 2. The modules

**`ChunkPipeline`** is `Downloader.run`. `task[c]` says where the coroutine of chunk
`c` is: `new` (created), `waiting` on `claim_sem`, `granted` (its permit was handed
over, it has not run yet), `paused` and `woken` around `pause_event.wait()`,
`fetching`, `rerouting` inside `_switch_proxy`, `deposited` in `pending`, `taken` by
the writer, `written`, `failed`, `cancelled`. `writer` is the writer loop's place.
A chunk's bytes are its id and `Torn` stands for part of a chunk, so `disk = <<1, 2, 0>>`
is two chunks and a torn tail. `StartRun` is what `run` does up to its `open()`:
`WholeChunks` is computed from the file as the resume loop computes it from the
size. `StartTasks` is the first pass of the event loop over the new tasks;
`Deposit`, `AttemptFails`, `Reroute`, `Rerouted`, `NoProxyLeft` are the outcomes of an
attempt; `WriterCheck`, `ReadStaged`, `WriteDone`, `WriterFails` the writer;
`Cancel`, `Finish`, `CancelAgain` the way out; `Crash` keeps any part of what
the run wrote. The permit of `asyncio.Semaphore` goes to the longest waiter.
`ram_saver` is the setting as each run finds it. `CleanupTemps` removes any part of the temp files, since `os.remove` may fail
on some, and none when the setting is off or `GlobFinds` is FALSE: `glob` reads a name with brackets as a pattern, which its own temp files do not match.

**`OrderedFile`** is what the user sees of a download: a file that grows in order, may lose a
tail, and is sealed once whole. `MCChunkPipeline` checks that the pipeline
implements it, with the whole chunks on disk as `content`.

**`ResizableSemaphore`** models the class with the waiters of its `asyncio.Condition` as an explicit
queue. `PassOn` selects what the Condition does when a waiter is cancelled between
its notification and its next step: from Python 3.13 it notifies the next one,
up to 3.12 the notification is lost. The runs have `PassOn = FALSE`, the Python of the Docker image; the theorems
hold of both. `lost` is history: wakeups that went with a cancelled waiter while others slept on, back to 0 when nobody sleeps any more.

**`TransferQueue`** is the queue. `listed` are the keys of `active_transfers`; `entry` the dicts,
which a task keeps a reference to after they are popped; `task[i]` is where
`_run_download` is (`unstarted`, `metadata`, then `placing`, `queueing` or `slotting` while a database call of its own is under way, `placed` in the
broadcast that follows the first, `waiting` for a slot, `starting` until the Downloader opens its file, `running` it,
`unwinding` it, `closing` in its finally block before `api.aclose()` returns,
`killed` without cleanup, or `none`). `launching` holds the handlers on their way to `create_task`.
`writes` are the database calls made and not returned, in the order of `Database._lock`. A call carries the row as it was when the call was made;
`Returns` commits the first one and lets its caller go on. So `CreateDownload` lists an entry that has no row yet, and `CreateTask` follows once it has; a
cancel takes the call of its task out of the queue (`GiveUpCall`), with the statement done or not if it was inside the lock; and `Crash` loses what
is queued, the first call committed or not. `Close` is the part of the finally block that no cancel reaches: the task is out of `transfer_tasks`, and its last call is made.
The calls of clear-finished carry, in `left`, the ids it has still to pop, so several of these requests may overlap. pause-all and resume-all walk a copy of the queue
across their awaits: `Reaches` lets one turn of theirs come to any entry that ever was listed, which is more than the copy they took.
A file is the link its bytes come from, or `Mixed`, and whether it is whole. The
Downloader is one action that opens the file and one that ends: the steps between are
`ChunkPipeline`, and what it promises there (an in-order prefix, whole when it returns)
is what `Opened` and `Complete` use. `serial` says that each request starts after the last one's response. `asked` and `restarted` are history.

**`Chunks`** runs the two `iter_chunks` generators over a file and then the resume loop.
`KB` is a parameter: 1024 in the code, 1 in the runs.

**`PublicLinks`** is what the web page asks about a public link: `browse_folder` (which nodes
`get_folder_nodes` keeps, and the tree `build_tree` makes of them) and `stream_video` (the range, the fetch from
a cipher block on, the keystream position, the bytes taken off the front, the length promised). A
folder gives every node a parent, any of them unreadable; a byte sent is its place in the file and in the keystream.
`ChunksProofs` covers both modules.

**`UploadPipeline`** is one upload, from `_run_upload` waiting for its slot to the end. The shape is that of
the download turned round: a task per chunk claims, reads, POSTs; the MAC loop folds in
order and only then gives permits back. `posting` and `stored` tell apart a chunk that is on
its way and one the storage node has whose answer is on its way back, so that an attempt
can fail on either side of it. `answer` is what the node says: a handle when it has the whole file,
and when it sees a chunk again either. `finish_sent`, `Register` and `Finished` separate
the command, its effect at MEGA and its answer, so that a cancel lands between them. The MAC loop
has no await that suspends while the next chunk is there, so `MacLoop` folds all it can in one action:
`StopsAt` is the chunk it has to wait for, `Fold` what it does up to there.
A 509 leads to `rerouting`; which proxy is picked is `ProxySwitch`.

**`SmartProxyPool`** is the pool all of them share: `Blocked`, `Usable`, `StartRefresh` and `SwapPool` are `block_proxy`,
`pick_proxy` and the two ends of `refresh_from_text`; `BlockedElsewhere` and `BanExpires` are what others and time do.
`ProxySwitch` and `ApiRequest` extend it: the pool is the same one for a transfer and a request to the API.

**`ProxySwitch`** is the client that the chunk workers of one transfer share, a download's or an upload's.
`via[w]` is the client worker `w` streams over, which need not be the shared `proxy_client` any more; `closing` and
`raising` are the `await old_client.aclose()` under `_proxy_lock`. `open` are the clients not closed yet, `left` is history: the proxies this
transfer has banned. What the worker's chunk is stays in `ChunkPipeline` and `UploadPipeline`.

**`ApiRequest`** is one call of `_raw_request`. An attempt is one action,
`Attempt(reply)`, for every kind of answer; between two attempts (the backoff) `Meanwhile` lets transfers ban proxies,
bans run out, settings change, and refreshes that were under way swap the pool in the order they finish.

**`Subscribers`** is `broadcast` and the `/ws` endpoint. `subscribers` is the live list, `call[c]` the position a broadcast
has reached in it; a send may suspend, and then tabs connect, close and are noticed gone (`socket`),
other broadcasts take dead tabs out of the list, and the transfer may be cancelled in the middle of its own.
`CutShort` is a cancel between a change and its broadcast, in the `api.aclose()` or the database call of the finally block, after which no broadcast follows.
`told`, `skipped` and `dropped` are history: the tabs that know the last change, those that a removal moved up past a broadcast still walking the list, and whether
the last change was never broadcast.

**`AccountStore`** is `account_store.py` call by call. Every operation is a chain of calls of `Database`, which all queue on
one `asyncio.Lock`; between two calls an operation does not suspend, so an action is one call and
what follows it, and `lock_queue` is the order in which the operations get the lock. A key is
the password and salt it comes from; a row is the sequence of keys its credentials are
encrypted under, so encrypting twice or decrypting with a wrong key shows. `disturbed` is history, the set of what has befallen changes of the master password: one was
`cut` short by a restart, was made on a `locked` store, `raised` since it could not decrypt a row, or had an account `deleted` under it. `serial` says that requests wait for each other.

**`MCChunkPipeline`** and **`MCTransferQueue`** prepare one module for TLC. **`MCHandlers`** (`Chunks`, `PublicLinks`, `AccountStore`, `Subscribers`), **`MCProxies`**
(`ProxySwitch`, `ApiRequest`) and **`MCSlots`** (`TransferQueue`, `ResizableSemaphore`) put small modules into one run: a behaviour is one of any of them, the `part` it takes, and the others stand still.
The specifications of those modules have names of their own (`SlotSpec`, `RequestSpec`, `StoreSpec`, `LinkSpec`, `TabSpec`) so that they can be extended together.

**`ChunkPipelineProofs`**, **`TransferQueueProofs`**, **`UploadPipelineProofs`**, **`ProxySwitchProofs`**, **`ApiRequestProofs`**,
**`AccountStoreProofs`**, **`SharedStateProofs`** (of `ResizableSemaphore` and `Subscribers`) and **`ChunksProofs`** (of `Chunks` and
`PublicLinks`) hold the theorems (section 5).

The operators marked "faulty variant" are not used by any
specification: they are what a plausible mistake in the definition that follows them
would look like, kept to show that the properties notice it.

## 3. The runs

| Run | Shows | Bounds, and why they are enough |
|---|---|---|
| `pipeline` | `TypeOK`, `FileIsPrefix`, `MacFollowsFile`, `ClaimsAccounted`, `ClaimWindow`, `NoLostWakeup`, `CompleteIsWhole`, `CleanRunConsumes`, `WholeChunksKept`, `PauseHolds`, `ImplementsOrderedFile` | 4 chunks over 2 slots: the window moves twice past a straggler; 2 runs resume every prefix and torn tail, each with the RAM saver on or off; 2 attempts; 1 pause; 2 cancels, for one that lands in the finally block |
| `pipeline_live` | `Terminates` | 3 chunks over 2 slots, 2 runs, 1 pause, 1 cancel |
| `queue` | `OneEntryPerLink`, `NeverLaunchedTwice`, `QueueSurvives`, `OneWriterPerFile`, `DoneIsWhole`, `DoneFileKept` | 2 ids and 2 links with one name or two, one slot (so one waits), one crash, 4 requests: any two handlers overlap and two more follow, before or after the restart; two downloads, one of them finished, its file gone or claimed again, and one request more |
| `slots` | `CancelEnds`; `PermitsAccounted`, `WakeupsAccounted`, `WaiterServed` | the queue with 3 requests and no crash; the semaphore with 4 transfers, limits 0 (raised to 1), 2, 3: above and below the number of waiters, and `PassOn = FALSE` |
| `slots_stranded` | violated: `NoStrandedWaiter` | finding 3: one permit, one transfer that releases it, two that wait |
| `queue_done_file` | violated: `DoneFileAlwaysKept` | finding 1 |
| `queue_stop` | violated: `StopKeepsPartial` | finding 4 |
| `handlers` | `ChunksTile`, `ResumeAtBoundary`; `TreeComplete`, `RangeServed`; `KeysAgree`, `AccountsReadable`; `TabsTold` | sizes on both sides of every boundary up to the second 20 MB chunk; every folder of 4 nodes (up to three levels under the shared folder, orphans, several roots); ranges on both sides of block boundaries, a read of 20 bytes so that a response takes several; 2 accounts (the loop over them can stop half-way), 2 passwords, 2 overlapping requests of 5, 1 restart; 3 tabs: one to leave, the one it moves up, one more, 2 broadcasts at a time of 3 changes |
| `chunks_mac` | violated: `DefaultVerifies` | finding 2 |
| `broadcast_skips` | violated: `TabsAlwaysTold` | finding 5 |
| `upload` | `NodeIsWhole`, `ClaimsAccounted`, `HandleFound`, `Terminates` | files of 0 to 4 chunks over 2 slots; each POST may fail before or after it is stored, and once more; 1 pause, 2 cancels |
| `proxies` | `ClientsClosed`, `NotBackToLeft`, `StartsOnOpen`, `Terminates`; `NeverBackTo509`, `RequestEnds` | 2 workers, each answered 509 while the other streams or waits for the lock; 2 proxies: one to leave and one to come back to; 2 attempts, one ban that runs out, one refresh; for the request to the API 4 retries and 2 refreshes, which overlap |

Deadlock is not checked: runs end, requests are bounded, generators return.

Some properties carry a condition, which states what the code needs for them. Where a text of the repository promises the property without
it, a violation run shows what happens then.

- `Orderly` (`DoneFileKept`, and one half of `OneWriterPerFile`): links do not share a file name, each request starts after the
  last one's response, and the process has not restarted. `queue_done_file` is `DoneFileKept` without it.
- `~restarted` (the other half of `OneWriterPerFile`): no download was relaunched.
- `~sameName /\ crashes = 0 /\ (serial \/ ~restarted)` (`DoneIsWhole`): requests may overlap, or downloads be relaunched, not both: an overlapping
  clear-finished can take a relaunched download out of the queue just before it opens its file, so that its link can be added beside it. With a shared name five requests
  are enough to break it: the removal of a leftover entry deletes the file of another download.
- `crashes = 0` (`OneEntryPerLink`): one life of the process. A row written for an entry that was removed comes back as a second one (section 4).
- `QueueSurvives` lets a download be without a row until `create_download`'s call returns, and its row without the path while a write of it is under way, and from a cancel
  that takes the write on: the finally block makes up for that, unless a second cancel kills the task there (`killed`).
- `lost` (`WakeupsAccounted`, `WaiterServed`): wakeups that cancelled waiters took with them. `slots_stranded` is the former without it.
- `disturbed = {}` (`KeysAgree`): every change of the master password was made on an unlocked store and ran to its end, and no account was deleted under it. Changes may
  overlap, but their overlap can make one raise, since it decrypts with the key it began with what another has encrypted anew; the key in memory is then that of the
  change that went through, and the stored hash may be that of the other.
- `serial` and no change `cut` or on a `locked` store (`AccountsReadable`): what overlap, a crash and a locked store do to the accounts is in section 4.
- `skipped` and `dropped` (`TabsTold`): the tabs that a removal moves up past the loop, and a last change whose broadcast a second cancel cut off. `broadcast_skips`
  is the property without the former.
- `temps \subseteq 1..resumed` (`CleanRunConsumes`): a temp file of an earlier run at a chunk that the resume finds on disk is left to the sweep, which may miss it.

**Fairness.** Weak fairness for each coroutine and worker thread: the event loop runs
whatever is ready. `ChunkPipeline` adds strong fairness for the end of an attempt, since a 509 is
retried without counting and a storage node that answers 509 for ever would keep a chunk busy for
ever. `UploadPipeline` has the same two, for its POSTs. `ProxySwitch` needs no strong fairness: a 509 costs a proxy, and
bans run out (`MaxLifts`) and lists are refreshed (`MaxRefreshes`) finitely often; the workers' weak fairness is that of the event loop
and of httpx's timeouts. `ApiRequest` assumes that every POST is answered or fails (httpx has a timeout), and
`RequestEnds` that MEGA does not answer every proof of work with a new challenge. `Subscribers` has no fairness: the code gives a send
no timeout. For the same reason `TransferQueue` promises nothing of a task that is left alone: it awaits broadcasts, MEGA and a slot whose wakeup may be
lost. Its fairness is that the event loop delivers a cancel (`DeliverCancel`), that a cancelled Downloader unwinds (`Unwound`; its fetches are cancelled, its threads return) and that
`api.aclose()` returns (`Close`), and that is what `CancelEnds` needs. `ResizableSemaphore` assumes that transfers end and that notified ones run. Nothing obliges the user to resume, cancel or restart, nor the process to
crash; the liveness properties assume that nothing stays paused.

## 4. Findings

1. Removing a leftover entry deletes another download's finished file (`routes_transfers.py:146, 266`).
2. The default `size_multi` of 20 makes files over 4608 KB fail verification (`download.py:28`).
3. On Python up to 3.12 a cancelled waiter takes its wakeup with it, and the next one sleeps beside a free slot (`concurrency.py:35`).
4. A stale `_user_removed` makes a stop-all delete the partial file of a download that was relaunched (`routes_transfers.py:451`).
5. A tab removed under a broadcast makes it pass over the next one (`state.py:111`).

`PROJECT.json` quotes the lines each of them contradicts. The models show further limits, which no property of a run excludes;
the hazards' notes name most of them:

- `open()` failing leaves the fetch tasks alive (`download.py:421-429`).
- The sweep of the temp files misses those of a file with brackets in its name, and any that `os.remove` fails on (`download.py:280`).
- A task whose entry was removed writes its row again, and a restart lists its link twice (`routes_transfers.py:413, 469`).
- A DELETE whose cancel lands before the task's first step, or as a second one in its finally block, leaves row, claim and a dead task behind (`routes_transfers.py:456`).
- A login that overlaps a change of the master password is stored under a key nothing can derive any more (`account_store.py:89, 113`).
- The master password of a locked store can be changed, although the route documents "423 if the store is locked" (`account_store.py:72`).
- An account deleted while the master password changes is written again; if it goes between the reads of two overlapping changes, the
  later one has fewer accounts to write, returns first, and the earlier one leaves its key in memory (`account_store.py:89, 113`).
- A change that overlaps another may raise half-way, with its hash stored and not its key (`account_store.py:92`).
- A crash during a change of the master password leaves accounts nothing can read (`account_store.py:80`).
- A second cancel in the finally block of a transfer drops its last broadcast: open tabs never see how it ended (`routes_transfers.py:456`).
- `_raw_request` may return what an earlier attempt was answered, when the last one brings no text (`mega_api.py:240`).
- Closing the shared client costs the other workers that stream over it an attempt, and of workers answered 509 together the later ones ban a proxy nobody has tried (`download.py:154`).
- A tab that stops reading holds up every transfer that broadcasts (`routes_transfers.py:424`).
- A suffix range, `bytes=-500`, is served as bytes 0 to 500 (`video_proxy.py:50`).
- A lone readable node under an unreadable shared folder is taken for the shared folder and not shown (`folder_tree.py:57`).
- A refresh of the proxy list forgets all bans, and of two that overlap the older may finish last (`proxy_manager.py:307`).
- An empty file is uploaded without a POST, so it has no completion handle and always ends in an error (`upload.py:249`).
- A cancel while `finish_upload_file` is in flight leaves a registered node behind a cancelled transfer (`upload.py:255`).

## 5. The proofs

`ChunkPipelineProofs` proves, for every number of chunks, slots, retries, runs,
pauses and cancels, with the RAM saver on or off in each run, with SmartProxy or without, and whether the sweep finds the temp files or not, assuming only
`SizesAssumption`, `ModesAssumption` and `BoundsAssumption` of `ChunkPipeline`:

| Theorem | Statement |
|---|---|
| `TypeCorrect` | `Spec => []TypeOK` |
| `FileAlwaysPrefix` | `Spec => []FileIsPrefix` |
| `MacAlwaysFollows` | `Spec => []MacFollowsFile` |
| `PermitsNeverLost` | `Spec => []ClaimsAccounted` |
| `WakeupNeverLost` | `Spec => []NoLostWakeup` |
| `ResultIsWhole` | `Spec => []CompleteIsWhole` |

They follow from one inductive invariant,

    Inv == TypeOK /\ FileIsPrefix /\ FilePos /\ WriterHolds /\ CompletePending
           /\ ClaimsAccounted /\ NewTasks /\ NoLostWakeup

None of the safety properties is inductive alone. That a write extends the prefix needs to
know that `next_id` is the chunk after the file and that the MAC has followed
(`FilePos`); that a release cannot overfill the semaphore needs the writer's chunk to hold a permit
(`WriterHolds`); that the first pass claims exactly `Slots` permits needs the new
tasks to be all the chunks after `resumed` (`NewTasks`); that a result stays whole needs
what is true while the run unwinds (`CompletePending`). The proof has a lemma per action,
and counts permits with the cardinality lemmas at its head.

The second half of the module goes on from there, to the rest of the pipeline's properties but `Terminates`:

| Theorem | Statement |
|---|---|
| `WindowKept` | `Spec => []ClaimWindow` |
| `CleanRunAlwaysConsumes` | `Spec => []CleanRunConsumes` |
| `PauseAlwaysHolds` | `Spec => PauseHolds` |
| `WholeChunksAlwaysKept` | `Spec => WholeChunksKept` |
| `PipelineImplements` | `Spec => ImplementsOrderedFile` |

Each needs one strengthening besides `Inv`. `Placed` says where every task is while nothing has failed: the written ones, then exactly
`Slots` claimed ones, then those that wait, which is why the first to wait is the next the window takes in. `TempsInv`: while a run transfers,
its unfinished chunks are those from `next_id` on, so a temp file is at one of them, and will be consumed, or at a chunk the resume found on disk. `ResumedKept`: a run keeps what it found on disk, which is what a crash leaves. The refinement maps
the whole chunks on disk to `content`; a lemma per kind of step shows what becomes of them.

`TransferQueueProofs` proves the safety properties of the `queue` run for any finite sets of transfers and links
and any bounds, from `QueueAssumption` and `NothingAssumption` (`Nothing` is no path and no row):

| Theorem | Statement |
|---|---|
| `LinksStayUnique` | `Spec => []OneEntryPerLink` |
| `NoDoubleLaunch` | `Spec => []NeverLaunchedTwice` |
| `QueueAlwaysSurvives` | `Spec => []QueueSurvives` |
| `WritersNeverMeet` | `Spec => []OneWriterPerFile` |
| `DoneMeansWhole` | `Spec => [](Orderly => WholeWhenDone)` |
| `DoneFilesNeverGo` | `Spec => DoneFileKept` |

    Inv == Typed /\ (\A i \in Id : Local(i))
           /\ OneEntryPerLink /\ FirstLaunch /\ PathsNamed /\ OrderlyPart

`Local` is about one transfer. Its `Quiet` is what makes a launch safe across the awaits of `_restart_download`: from the moment the entry is
marked until the task's first step there is no task, no pause event and no status another handler acts on. Its `Kept` is why the queue survives. It speaks not of the rows, which lag behind the
entries, but of what the last of a transfer's database calls will leave: every call under way, and the row unless the first is still to return, restores
the link (`Backed`), and the last call, or the row if there is none, has the entry's path (`PathWritten`), except from a cancel on (`Ending`). A call that returns, is given up
or is made changes this at one end of the queue only; the lemmas under "The lock's queue" say what it leaves of the others. Two
arguments keep writers apart. While nothing was relaunched (`FirstLaunch`), a task's destination is claimed and nobody else's, whatever
overlaps. A relaunched task writes to the path its entry kept, which no claim protects; where each link has its own name and requests
do not overlap (`PathsNamed`, `OrderlyPart`), a path names its link, a task that may write is that of a listed
entry, and a link is listed once. `FileInv` is a second layer on top of `Inv`:

    FileInv == file \in [Path -> Files] /\ FilesNamed /\ DoneWhole /\ HandApart

that a file's bytes are those of the link it is named after, that a done one is whole, and that an entry clear-finished has popped and not yet cleared up after is
not in the queue under another id, or the file it unlinks could be that one's. `DoneMeansWhole` is the part of `DoneIsWhole` with `serial`; that overlapping requests do no harm while
nothing is relaunched is model-checked only.

`UploadPipelineProofs` proves, for any numbers of chunks, slots, retries, pauses and cancels (`UploadAssumption`):

| Theorem | Statement |
|---|---|
| `NodeAlwaysWhole` | `Spec => []NodeIsWhole` |
| `PermitsNeverLost` | `Spec => []ClaimsAccounted` |
| `HandleNeverLost` | `Spec => []HandleFound` |

    Inv == Typed /\ TasksOfFile /\ ClaimsAccounted /\ FoldedInOrder
           /\ StoredBehind /\ Outcome /\ HandleKept

A node is registered only by a run that has folded everything (`Outcome`); what is folded was answered (`FoldedInOrder`), and what was answered is
stored (`StoredBehind`): `WholeIsStored` puts them together. `HandleKept` follows the handle: in the run, or with an answer that is still
on its way. The work is in `MacLoop`, which folds any number of chunks and hands as many permits to
waiters in one step.

`ProxySwitchProofs` proves, for any finite sets of proxies and workers (`PoolAssumption`, `SwitchAssumption`), `ClientsNeverLeak`
(`Spec => []ClientsClosed`), `BannedNeverReturnedTo` (`Spec => []NotBackToLeft`) and `NeverStartsOnClosed` (`Spec => StartsOnOpen`).
The invariant says that until the run closes it the shared client is the only open one (`OnlyRouteOpen`),
and that what was left is not usable while its ban stands (`LeftStandsBanned`).

`ApiRequestProofs` proves `RequestsNeverReturn` (`RequestSpec => NeverBackTo509`) with `AnsweredIsLeft /\ RouteKnown`: a proxy that has answered 509 is the one in use
or excluded. A ban would not do for the invariant, since it can be lifted at any time.

`SharedStateProofs` proves of the semaphore, for every finite set of transfers and every set of integer limits
(`LimitsAssumption`, `PassOnAssumption`):

| Theorem | Statement |
|---|---|
| `PermitsExact` | `SlotSpec => []PermitsAccounted`, for either `PassOn` |
| `WakeupsExact` | `SlotSpec => []WakeupsAccounted`, for either `PassOn` |

Their invariant is

    Inv == TypeOK /\ QueueIsWaiting /\ PermitsAccounted /\ WaitersCovered

`WaitersCovered` says that while anybody sleeps, permits in use, wakeups under way and wakeups lost reach the limit; it is what
`WakeupsAccounted` becomes when the length of the queue, which every action changes, is left out of it.
It needs `QueueIsWaiting`, or a notification could go to a transfer that is no longer asleep and be lost;
much of the module shows that the queue stays the set of sleeping tasks when one is taken out of its middle.

Of the broadcasts it proves, for any tabs and any number of broadcasts at a time, `LastWordReachesTabs` (`TabSpec => []TabsTold`):

    TabInv == TabsTyped /\ OpenListed /\ LastWordComing

`TabsTold` speaks of the moment when no broadcast is under way. `LastWordComing` is what holds before: a change nobody has begun to send will be, or was `dropped`,
and otherwise every open tab has the last change, is still ahead of a broadcast that carries it, or was `skipped`. That a connect appends, and that a removal
takes from ahead of a position only the tab that goes and the one `Overtaken` names, is what keeps "ahead" true; `OpenListed` says that only closed tabs are taken for dead.

`AccountStoreProofs` proves, for any finite set of accounts, any passwords and any number of overlapping requests and restarts (`StoreAssumption`):

| Theorem | Statement |
|---|---|
| `KeysAlwaysAgree` | `StoreSpec => []KeysAgree` |
| `AccountsStayReadable` | `StoreSpec => []AccountsReadable` |

`Basics` is the types and that the lock's queue holds each operation under way once. `Agreement` is about changes of the master password that overlap:
of those that have stored a salt, the one in the last place of the queue will store the hash that goes with it (`SaltAgrees`); of those that have
stored a hash, the one whose hash it is has the most calls left, or as many and a later place in the queue, so it puts its
key in memory last (`KeyAgrees`). A change has as many accounts to write as those ahead of it or more, because none goes (`LeftPresent`). All this is under `disturbed = {}`: no change was cut short, raised,
was made on a locked store or had an account deleted under it. What overlap does when one raises is outside the theorem, as it is outside `KeysAgree`.
`Readability` adds, for one request at a time, what each row is encrypted under half-way through the loop over the accounts.

`ChunksProofs` proves, for files and partial files of any size, any multipliers and any `KB` (`ChunksAssumption`), `ChunksAlwaysTile`
(`Spec => []ChunksTile`) and `ResumesAtBoundary` (`Spec => []ResumeAtBoundary`). `OffsetsAddUp` is the closed form: an offset plus
its full size is the next offset, through the geometric chunks and from the seventh to the flat ones. The invariant gives each yielded chunk by that form
(`Yielded`), says that a generator returns only at the end of the file, and that the resume loop stands at the end of a chunk (`Counted`).

It also proves `FoldsAlikeUpTo4608KB`, `Spec => [](Verifiable => FoldedAlike)`: the two sides fold the MAC over the same chunks when
their multipliers are equal or the file has at most 4608 KB. That is as much of the claim of `mac.py:8` as finding 2 leaves standing.

Of `PublicLinks` it proves, for files, ranges, blocks of the HTTP client and folders of any finite size (`LinksAssumption`), `PlayerGetsItsRange`
(`LinkSpec => []RangeServed`) and `FolderShownWhole` (`LinkSpec => []TreeComplete`). `build` and the paths in `TreeComplete` are recursive functions; that
each exists is shown a step at a time, from the depth of a node or from the least element that the library's
well-founded ordering of finite sets gives, since its induction theorems cannot be used.

Only model-checked: liveness (`Terminates` of three modules, `WaiterServed`, `CancelEnds`, `RequestEnds`), which like `ENABLED` is out of
the prover's reach, and the rest of `DoneIsWhole`. Every other safety invariant and action property of a passing run is proved.

## 6. Not modelled

- In the pipeline: metadata and MAC replay before the tasks exist (nothing
  else can touch the run then but a cancel, which ends it), progress reporting,
  and a new run while the tasks of a run whose `open()` failed are still alive. A second cancel skips `f.close()`, too: the model closes the file
  in that step, after the write in flight, as the interpreter does when it drops it.
- In the queue: uploads (never persisted, no file of ours at stake), the
  `shutting_down` flag (a shutdown is a crash that skips cleanup), speed tracking, a database call or an `os.unlink` that fails. Names beyond `MaxCopies`: a download that
  finds none free waits in the model.
- In the upload: the shared tables of its transfer, progress reporting.
- In the pool: the verified pool of `SmartProxyManager`, whose provider nothing sets, and the parsing of lists.
- In the API client: the commands, which format requests; the hashcash search, a loop over a hash.
- In the account store: MEGA sessions and the login dialogue; `lock()`, which nothing calls.
- In streaming and folders: a stream that breaks off, content types, the order within a folder.
- The link parser (regular expressions over strings), the splitter (called from nowhere), the thumbnailer (ffmpeg, no state),
  the desktop shell and the web page (views of the API).
- Byte contents, names, formatting, ciphers, HTML and JavaScript.

## 7. Plan

Done: `ChunkPipeline` with `OrderedFile`, `ResizableSemaphore`, `TransferQueue`, `Chunks`, `AccountStore`, `UploadPipeline`, `ApiRequest`,
then `SmartProxyPool`, `ProxySwitch`, `Subscribers` and `PublicLinks`; the proofs of section 5.

Left: the slots and shared tables of uploads next to those of the queue; an abstract specification of an upload, and of a transfer in the
queue, for the detailed ones to implement; `Splitter`, once the application calls it.
