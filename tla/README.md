# TLA+ models of FileZilla

This directory holds TLA+ modules that model parts of FileZilla 3 as it stands in
this repository (upstream 3.71.1 plus the patches that `src/README.md` describes:
segmented SFTP downloads and higher concurrency limits), the configurations with
which TLC checks them, and proofs that TLAPS checks. `PROJECT.json` maps every
definition to the source lines it models, and lists the runs, the mutants that
show each property can fail, the findings, the hazards and the theorems.

Paths below are relative to `src/filezilla3/src/`.

## 1. The system

FileZilla is a file transfer client. Its engine library runs each connection in
its own event loop; the user interface drives many engines at a time. What the
parts keep and do, and what makes them hard:

| Part | State | Operations | Hard behaviour | What makes it correct |
|---|---|---|---|---|
| **Operation lock manager**, `engine/oplock_manager.*` | a vector of slots, one per control socket, each with a vector of locks (granted, waiting, released); shared by all engines under a mutex | `Lock`, `Unlock`, `Wakeup` (events), `ObtainWaiting`, `Waiting` | threads of all engines interleave; locks are named by indices into vectors that shrink; wakeups are events | exclusion, stable indices, no lost wakeup, waiting ends |
| **SFTP download**, `engine/sftp/filetransfer.*` | operation state, segments, part files, manifest, local file | `Send`, replies, buffer events, reset events; merge | crash and resume, changing options, cancellation at any point, writers on other threads | the local file is a true copy, parts are trusted only when they are right, every attempt ends |
| **Read pipeline** of a segmented download, same file | outstanding requests, channels, buffers, counters | request, reply, migrate to another channel, stall and unstall | segments share channels and a pool of eight buffers; replies of a migrated segment are still on their way | requests tile the ranges, counters balance, no deadlock |
| **Additional connections**, `engine/sftp/segment_connection.*` | connecting, ready, failed | establish, authenticate, verify the host key, time out, drop | outcome races with the download they serve | one at a time, no segment stranded |
| **Control socket**, `engine/controlsocket.*` | stack of operations, pending async request, activity timer | `SendNextCommand`, `ResetOperation`, subcommand results, `OnTimer`, async replies | an answer, a timeout and a cancellation race; operations nest | stale answers are ignored, a waiting operation has a timer |
| **Engine**, `engine/engineprivate.*` | current command, notification queue, retry timer, list of failed logins | `Execute`, `Cancel`, notifications, delayed reconnect | calls from the interface's thread, events of the engine's loop; events that outlive their command | one command at a time, one reply per command, no notification lost |
| **Command queue** of a browsing connection, `interface/commandqueue.*`, `state.*`, `Mainfrm.*` | list of commands, site, exclusive lock | add, cancel, process replies, reconnect, lend the engine | replies of commands that were replaced; the transfer queue borrows the engine | the queue drains |
| **FTP**, `engine/ftp/*` | reply counters, data connection, transfer state, what the server is believed to be set to | commands, replies, data socket | the control reply and the end of the data connection come in either order; replies to cancelled commands | replies go to their command; a success is real; nothing depends on the timeout |
| **Directory and path cache**, `engine/directorycache.*`, `engine/pathcache.*` | listings with flags for doubtful entries, LRU, count of files | store, lookup, invalidate, rename, prune | shared by all engines; a listing is on its way while the directory changes | no stale listing is taken for a fresh one, counters exact |
| **Transfer queue**, `interface/QueueView.*`, `queue*.*`, `asyncrequestqueue.*` | servers, files, engines, counts of active transfers | start, finish, retry, remove, limits, borrow the browsing connection's engine | user removes what is running; the engines go on in between; loops that change what they iterate over | counts match, an active engine waits for something, the browsing connection gets its engine back |
| **XML stores**, `commonui/xml_file.*` | file and temporary copy | load, save | crash between the steps of a save | old or new contents, never neither |
| **Recursive operations**, **edited files**, **updater**, **options** | queues of directories; temporary files; check states; values and watchers | | long sequences, links, failures | every directory once; no edit lost; verified downloads only |
| HTTP, Storj, parsers, proxy, TLS, views, shell extension, D-Bus | | | I/O, text, platform glue | not modelled, see `PROJECT.json` |

The interactions that matter here: operations of any engine call `Lock` (FTP
`cwd`, `list`, `mkd`; SFTP `list`, `mkd`), are suspended while the lock waits, and
are sent again from `CControlSocket::OnObtainLock` after an event. A download
asks through `CheckOverwriteFile`, receives SFTP replies through handlers of
`sftp_client`, data buffers through events of the writers and of the buffer pool,
and ends by a `reset_event` it sends to itself, unless `Cancel` or `DoClose`
resets it first. The interface drives an engine by `Execute` and `Cancel`, which
queue events for the engine's loop, and takes notifications when the engine's
callback has posted a message. The transfer queue has engines of its own and, where
a site allows one connection only, asks the command queue of the browsing connection
for its engine.

## 2. Modules

| Module | Models |
|---|---|
| `OpLocks` | what the lock manager promises: locks are requested, granted, released; no two sockets of one server hold conflicting locks |
| `OpLockManager` | the lock table of `oplock_manager.cpp`, with its vectors, handles and events; `ImplementsService` is its refinement of `OpLocks` |
| `MCOpLockManager` | three sockets, two servers, two nested paths for TLC |
| `OpLockManager_proofs` | the inductive invariant of the lock table and its proof; the proof that the lock table implements `OpLocks` |
| `SegmentedDownload` | one download over many attempts: layout, manifest, parts, single stream, segments, connections, merge, reset, crash |
| `SegmentedDownload_proofs` | the inductive invariants behind the properties of a download, for files of every size, and their proofs |
| `SegmentPipeline` | the requests, replies, buffers and migrations inside one segmented download |
| `SegmentPipeline_proofs` | its inductive invariant, for any number of segments, channels, blocks and buffers, and its proof |
| `Engine` | an engine and the operation stack of its control socket: commands, events, retries, notifications, async requests |
| `CommandQueue` | the command queue of a browsing connection as the client of `Engine`, which it extends |
| `CommandQueue_proofs` | the inductive invariant of an engine and its client, and its proof |
| `FtpTransfer` | an FTP control connection with its data connections and the server |
| `FtpTransfer_proofs` | the inductive invariant of an FTP connection, for any number of operations, and its proof |
| `DirectoryCache` | the cache as a value, one operator per operation |
| `RemoteListing` | the operations of several engines on one server, with the cache (`DirectoryCache`) and the locks (an instance of `OpLocks`) they share |
| `RemoteListing_proofs` | which engine may take which listing: the inductive invariant of locks, requests and cached listings, for any number of engines and directories, and its proof |
| `MCRemoteListing` | two engines, two names, three directories for TLC |
| `TransferQueue` | the transfer queue, its engines, and the browsing connection it borrows an engine from |
| `TransferQueue_proofs` | the accounts of the queue for any number of items, servers and engines: their inductive invariant and its proof |
| `TransferQueue_engines` | what the engines of the queue are doing: which reply may complete an item, and when the borrowed engine is given back; the two invariants and their proofs |
| `MCTransferQueue` | the items and the site limits of the run |

The two modules of the download divide the work. `SegmentedDownload` lets a segment
receive its blocks in order and looks at files and outcomes; `SegmentPipeline` is
why a segment does receive its blocks in order, and leaves out failures. Three modules
look at an engine from different sides: `Engine` keeps the commands, the events and the
operation stack and leaves the protocol open; `FtpTransfer` is one protocol, with the
engine above it reduced to commands that are given and cancelled; `TransferQueue` has
several engines, of each the command, the events in its loop and the replies to be read.

### OpLockManager

`slots` is `socket_locks_`; a vacated slot has the socket `NoSocket` (the null
pointer). `handles[s]` are the `OpLock` objects of socket `s`, pairs of indices.
`events[s]` counts `CObtainLockEvent`s on their way. Each action is one critical
section: `Lock`, `Unlock` (with the `Wakeup` it calls) and `OnObtainLock` (with
`ObtainWaiting`). `Lock` is guarded by `~Waiting(s)`: a suspended operation sends
nothing, and only the top operation of the stack is sent. The loops of `Unlock`
that pop released locks and vacated slots off the ends of the vectors are
`DropReleased` and `DropVacated`.

### SegmentedDownload

Sizes are in blocks; block *b* of the remote file is the number *b*, so the contents
of a file say where they belong. `local`, `parts` and `manifest` are on the disk and
survive `Crash`. The manifest is represented by the number of segments it names:
given the size of the file, that determines every line `write_segment_manifest`
writes, and `Torn` is one that was not completely written. The other variables are
the operation (`phase` is `opState`, `queued` the result of the first `reset_event`
in the event loop, `merge` the position of `concat_pump`). Handlers of the event
loop are actions; so is each write of a writer's thread (`WritePart`, `WriteLocal`),
which is why what was received and what is on the disk differ. `Reset` is
`ResetOperation` and `CSftpFileTransferOpData::Reset` together and runs from
`ResetEvent`, `Cancel`, `Disconnect` and, for a skipped file, `Answer`. A new attempt
may choose any number of segments, as the user may change the option between them.
`CrashDeleting` is the death of the process between two deletions.

### SegmentPipeline

`chan[c]` is a channel: channel 0 is the primary connection, channel *k* the
additional connection *k*, whose segment is *k* + 1. Its requests are a sequence in
two parts, those that wait in the output buffer and those sent. `seg[s]` is a
`segment_handler`. The handlers are functions on the pair of both (`st`), composed
as the code composes its calls, e.g. `BufferThenRequest` is `get_next_segment_buffer`
with what its callers do about its result, and `Migrate` is what `migrate_segment` does
in turn: `Cancel` the requests under way, `CloseHandle` on the old channel, `Reassign` the
segment to the new one. The channel adapts `max_pending_` to the
round trip time; the model fixes it (`MaxPending`), since only the number of requests
in flight depends on it. `backpressure`, chosen at first, says whether a channel can be
congested, in which case `can_send_packets` is false until it drains. The SFTP client, the writers
and the pool are external; they are modelled from how `filetransfer.cpp` uses them
(replies in order of requests, none while a handler has asked to wait, replies to
cancelled requests dropped).

### Engine and CommandQueue

`eng.loop` is the event queue of the engine's thread, `eng.notes` the notification list
with `maySend` and `wake` for its announcement, `sock.ops` the operation stack. A step of
the client (`Execute`, `Cancel`, an answer) is one critical section of `mutex_`; a step of
the loop is the handling of one event. `CommandQueue` adds the main thread: `ui.draining`
is the loop of `CMainFrame::OnEngineEvent`, between whose rounds the engine's thread goes
on. `ProcessReply` is modelled with the automatic reconnect, the commands dropped after a
failed connect, and the disconnect before a connect on an existing control socket.

### FtpTransfer

`ctl` is the control socket (`pending` is `m_pendingReplies`, `skip` `m_repliesToSkip`,
and the caches of type and offset), `data` the current `CTransferSocket`, `srv` the server
and what is under way to and from it. A transfer has a number (`tid`), which appears in
its commands, replies and data connection only so that the properties can tell whose
they are. `ends` are `TransferEndEvent`s that have been sent and not handled.

### DirectoryCache and RemoteListing

The cache is a function from paths to listings, the LRU list and the file count. In
`RemoteListing` a command is sent, executed by the server (`wire`) and answered in
separate steps, so that other engines act in between. `blame` records, for the property
only, whose change a listing may lack: the engine that has still to hear the answer to it, or
`Nobody` if none ever will tell the cache. What an answer does to the cache (`UpdateFile`,
`InvalidateFile`, `RemoveFile`, `RemoveDir`, `Rename`) must take its engine off the blame, so that
`CacheHonest` then checks what the cache was told.

### TransferQueue

The main thread runs one handler at a time, but `AdvanceQueue` and `SendNextCommand` loop
over calls of `Execute`, whose answers depend on engines that go on in the meantime: their
rounds are separate steps (`main.pc`), the rest of a handler is one operator on the bundle
`w` of the queue, the items, the browsing connection and the engines. `Missed` models a
loop that skips an element: `SetActive(false)` resets the engine that waits for the browsing
connection, `CheckQueueState` erases it from the vector that is being traversed, and the
engine after it is not cancelled. Two history variables name what the properties except:
`bypassed` (the borrowed engine was used without the exclusive lock) and `br.resent` (a browsing
command was executed again while its reply was to be read).

A command is carried out when its event is handled (`OnCommandEvent`). A connect may have to wait
out the delay after a failed one first, and has no control socket until then
(`ConnectDelayEnds`). A disconnect is answered at once: `disconnected`, an error, if there is a
control socket, `ok` if there is none. A reply carries no trace of its command that `ProcessReply`
would look at, so a reply that comes late is taken for one to the engine's last command; the
model records in a reply which item it was about, for the property only. The effects of a
`CCommandEvent` that outlives its command on the engine are the subject of `Engine`, not of this
module.

Definitions marked `Fault:` are mistakes that could be made in the definition that
follows them. No specification uses them; replacing the definition by its fault makes
the property that `PROJECT.json` names under "mutants" fail.

## 3. Runs

All runs are of the form `tlc -config X.cfg M`.

| Run | Module, configuration | Checks | Size |
|---|---|---|---|
| `oplock` | `MCOpLockManager` | `TypeOK`, `MutualExclusion`, `HandlesExact`, `NoLostWakeup`, `UnblockedProceeds`, `ImplementsService` | 42,000 states, 40 s |
| `oplock_server` | `MCOpLockManager`, `...Server.cfg` | `WaitsForSameServer`, violated | seconds |
| `segmented` | `SegmentedDownload` | `TypeOK`, `FilesIntact`, `SuccessComplete`, `MergeHasParts`, `ConnectionsOrderly`, `PartsKept`, `Ends` | 26,556 states, 10 s |
| `segmented_merge_reproducible` | `SegmentedDownload` | `MergeReproducible`, violated | seconds |
| `segmented_parts_removed` | `SegmentedDownload` | `PartsRemovedWhenFinished`, violated | seconds |
| `pipeline` | `SegmentPipeline` | `TypeOK`, `RequestsTile`, `CountersBalanced`, `DataHasBuffer`, `StallHasOwner`, `Completes` | 40,000 states, 25 s |
| `engine` | `CommandQueue` | `TypeOK`, `BusyHasOwner`, `NoLostWakeup`, `RepliesMatchRequests`, `GivesUpAfterAllAttempts`, `QueueDrains` | 390,000 states, 60 s |
| `engine_notified` | `CommandQueue`, `...NotifiedMeansEnded.cfg` | `NotifiedMeansEnded`, violated | seconds |
| `ftp` | `FtpTransfer` | `TypeOK`, `ReplyMatches`, `PendingExact`, `ServerAgrees`, `TimerRuns`, `NeverStuck`, `SuccessIsReal` | 1.4 million states, 45 s |
| `listing` | `MCRemoteListing` | `TypeOK`, `CacheHonest`, `CacheBalanced`, `RefreshCurrent` | 1.5 million states, 50 s |
| `queue` | `MCTransferQueue` | `AccountsExact`, `ActiveHasOwner`, `BrowsingReleased`, `SuccessIsReal` | 1.6 million states, 90 s |
| `queue_busy` | `MCTransferQueue`, `...NeverBusy.cfg` | `NeverBusy`, violated | seconds |

**Bounds.** *Lock table*: three sockets of which two share a server, so that a lock can
be blocked by one of the same server, by one of another server, or by both; two locks
per socket, so that locks are released out of order and holes appear in both vectors;
two queued events, four slots. The requests of `oplock` are two for the same reason, an inclusive
one on a path and an exclusive one on its child, which between them cover the clauses of the
conflict test about paths; locks for different reasons, which never conflict, are left to the
proof and to the run of the finding (a third request makes `oplock` too large). Nothing in the code asks for an
inclusive lock today; the finding does not use it. *Download*: five blocks in up to three segments give lengths 2, 2, 1
(remainder), a change from three segments to two or one and back, a third segment that
moves to a second additional connection. *Pipeline*: segments of six blocks, buffers
of two blocks and two buffers in all, so that one writer can hold the whole pool when the next
buffer is full (`waits = "writer"`, which `OnWriterAvailable` ends), the pool can be empty
(`"pool"`), and four pending requests stop the pump. With three segments, two additional
connections and blocks of one buffer each (440,000 states) the same invariants hold.
*Engine*: two actions of the user, two attempts to connect, two async requests and one lost
connection: enough for a cancellation, or a second command, at any point of the first one's
life, and for a stale answer to meet a later request. *FTP*: two operations, the second of
which meets the replies the first has left; a listing or a file makes up to two transfers;
active mode with a fallback to passive mode, protected data connections; one keepalive and
one fault. *Listing*: four commands of two engines, so that a change overtakes a listing
that a third command shares and a fourth relies on; a directory, a file and a file in the
directory; uploads and directories of names that exist and of names that do not; limits at which
pruning happens. *Queue*: three actions of the user or timers,
one of which starts the queue; two items in three combinations (both for the limited site,
one for each site, a local directory before a download), one error allowed; the browsing
connection is at either site or closed at first, so that its engine is lent, or is the
queue's own until the user connects; the password is asked for at the limited site, where
the wait for it can meet the wait for that engine. All but the last pair have used up the error
already, as items loaded from the storage may; those of different sites, a directory to make and a download, let two
engines work at a time. The exceptions of the properties are reached within these
bounds. `TypeOK` of `TransferQueue` states the types for the reader; it holds at the same bounds and
is left out of the run, where it would cost time and say little.

**Deadlock** is not checked: the lock table has bounds at which nothing more can be
locked, a download that is over, or a pipeline that is done, stops, and the others stop
when the bounds on commands and user actions are used up. What must not stop is said by
properties instead (`BusyHasOwner`, `NeverStuck`, `ActiveHasOwner`).

**Fairness.** *Lock table*: events are delivered (weak fairness of `OnObtainLock`);
nothing obliges an operation to end. *Download*: the event loop runs its handlers,
writers write, the server answers requests; weak fairness of each. Failures, crashes,
cancellations, user answers and the outcome of an additional connection are not fair:
`Ends` must and does hold without them. A real server may fall silent; then `OnTimer`
ends the operation, which the model has as `Disconnect`. *Pipeline*: channels drain,
replies arrive, writers write, availability events are delivered; an additional
connection need not come up. *Engine*: both threads handle what is due, prompts are
answered, and an operation that does not wait for the user ends, at the latest by
`CControlSocket::OnTimer`. `FtpTransfer`, `RemoteListing` and `TransferQueue` state no
fairness: that nothing waits for ever is an invariant there.

## 4. What the runs show

* The lock table excludes conflicting operations, its indices stay valid, and no wakeup
  is lost. `UnblockedProceeds` is deliberately weak: a waiting lock can be overtaken by
  newer requests (`Lock` does not look at waiting locks), so waiting is not fair.
* **Finding** (`oplock_server`): `ObtainWaiting` omits the comparison of servers that
  `Lock` makes. A lock can go on waiting for an engine of another server.
* Part files, manifest and local file never say something untrue, however the attempts
  are cut short and whatever number of segments the next one uses; a success is complete;
  parts survive a failed attempt; the merge starts from complete parts.
* **Finding** (`segmented_merge_reproducible`): between `concat_finalize`, which deletes
  the parts, and the event that reports success, a cancellation, a lost connection or a
  queued failure removes the merged file. Nothing is left of the download, although the
  comment says the file can be reproduced from the parts. `SuccessComplete` and
  `MergeHasParts` are stated so that they hold in spite of it.
* **Finding** (`segmented_parts_removed`): after a crash during the merge, skipping the
  existing local file deletes the complete parts.
* The requests of a segment tile its range wherever it moves, the counters of the old
  channel stay balanced, data always finds a buffer, and a stalled channel has exactly
  one segment that will release it. With as many buffers as segments everything
  completes; with fewer it would not, and the code has eight of each, no more.
* With congestion (`backpressure`), which `Completes` excepts, it fails: a handler that cannot send does not
  arrange to be called when it can (single-stream uploads do, with `outbuf_empty_event`),
  and the reply to the last block of a segment requests nothing. A channel whose last
  replies come while it is congested stops; only `OnTimer` ends that. Listed as a hazard.
* A busy engine always has an event, a timer or an operation that will end its command; no
  notification is left unannounced; an answer never reaches a request of another operation;
  a connect command is given exactly its number of attempts. The queue of a browsing
  connection drains.
* **Finding** (`engine_notified`): a `CCommandEvent` that outlives its command, because the
  connection was lost before it was handled, dispatches the next command, which its own
  event dispatches again: the notification that says it ended comes while it still runs.
  `QueueDrains` excepts this case.
* FTP replies are skipped exactly as often as they must be, type, restart offset and data
  port are right when a transfer begins, and the order of the final reply, the data
  connection's end and its event does not matter. One case depends on the timeout: a
  listening socket that fails before the transfer command is sent.
* A listing without a mark is what the server has: at once if the change was announced to the
  cache before it was sent, else once it has been answered, also if the answer comes after a
  listing that it overtook. Three exceptions, in which the code cannot know: the change was
  answered before the listing it overtook was stored; the operation ended before its change was
  answered, and nothing was announced (`mkd`, uploads), or the listing was stored after the
  announcement, or it is one of a directory moved or removed while the listing of its parent did
  not show it; something was renamed that the listing of its directory did not show.
  A refresh that shares the listing of another engine gets one that was requested after it,
  or that the engine it waited for was retrieving.
* The counters of the transfer queue are exact however transfers end. With the exceptions
  named above, active engines wait for something that comes, and the browsing connection
  gets its engine back.
* `ProcessReply` never looks at the command a reply is for. If the queue takes an engine for
  another site while its idle disconnect (`OnTimer`) is under way, it disconnects a second time. The
  reply to the first disconnect counts as that to the second; that one is `ok`, since there is no
  control socket any more, and counts as the reply to the connect that follows; and the `ok` of the
  connect counts as that to the transfer. So an item can be listed as
  successful that is still being transferred. (The reply of a disconnect that finds a control socket
  is an error, and counts as a failed connect at worst.) This is the limit of it: `SuccessIsReal` says
  that an item becomes successful only by a reply of its own engine, and only if the operation was
  carried out or the engine still owes the answer about it. Without the second case TLC finds it
  violated in the way described.
* **Finding** (`queue_busy`): removing the item that waits for the browsing connection's
  engine lets the next item use that engine without the lock; `Execute` answers that it is
  busy, which the code asserts never to happen, and the item fails; or the reply goes to the
  browsing connection and the item stays active for ever.

## 5. Proofs

`OpLockManager_proofs` proves, for every set of sockets, servers, requests and every value
of the bounds, that `IInv` is inductive:

* `TypeCorrect`, `Exclusion`, `HandlesCorrect`, `WakeupCorrect`: `Spec => []TypeOK`,
  `[]MutualExclusion`, `[]HandlesExact`, `[]NoLostWakeup`.

`MutualExclusion` alone is not inductive: `Lock` skips the slots of its own socket, so the
invariant must say that a socket has one slot; and `Unlock` must not move another lock, for
which `IInv` says that the slots' last locks are unreleased and vacated slots are empty. The
proof is one lemma per action, over lemmas about `DropReleased`, `DropVacated` and
`SlotsWithout` (what a shrunk vector keeps at each index).

Its second part proves `Refinement`, `Spec => ImplementsService`: under the
mapping of every place `<<slot, lock>>` of the vectors to a lock of the service, `Lock` is a
request, `OnObtainLock` a grant or a stutter, `Unlock` a release. It needs `IInv` for the
places that a shrinking vector loses, which must hold released locks only, and that entries
keep within the bounds of `Lock` (`Bounded`). A grant is one of the service because
`ObtainWaiting` clears a lock only if no lock that was granted conflicts with it.

`SegmentedDownload_proofs` proves, for every file size, minimum segment size and limit on
the number of segments:

* `SegmentsTile`: the segments of a layout follow each other, from 0 to the end of the file
  (the arithmetic of `start_segmented`).
* `TypeCorrect`, `FilesCorrect`, `MergeCorrect`, `SuccessCorrect`, `ConnectionsCorrect`:
  `Spec => []TypeOK`, `[]FilesIntact`, `[]MergeHasParts`, `[]SuccessComplete`,
  `[]ConnectionsOrderly`.
* `PartsSurvive`: `Spec => PartsKept`, an action property.

`FilesIntact` speaks of the disk only, so no step that writes can be shown to keep it
without knowing what the running attempt believes about the disk. `IInv` adds that: a
stream that is appended to has a local file (`StreamHasFile`); a segmented attempt runs in
the layout of the manifest, a segment never receives more than its length, and is done only
when its part has that length (`SegmentsOrderly`); during a merge the blocks given to the
writer are the file up to the place that is read (`MergeOrderly`). `ConnectionsBounded`
keeps the index of a connection the index of a segment. TLC found `IInv` to hold of
the instance of `MCSegmentedDownload` before it was proved. The proof is again one lemma
per group of actions; `LongerFile` (a file continued with the next block stays true) and
`SegmentsTile` carry the data, `StartConcatInvariant` the transition both callers of
`start_concat` share, and `DeletingKeepsTruth` every deletion, partial or complete.
`SuccessComplete`, `ConnectionsOrderly` and `PartsKept` follow step by step from `IInv`.

`SegmentPipeline_proofs` proves, for any number of segments, additional connections, blocks,
pending requests and buffers and every size of a buffer:

* `TypeCorrect`, `BlocksInOrder`, `CountersExact`, `NoDataUnexpected`, `StallsEnd`:
  `Spec => []TypeOK`, `[]RequestsTile`, `[]CountersBalanced`, `[]DataHasBuffer`,
  `[]StallHasOwner`.

The handlers call each other, so the invariant (`Good`) is one of the pair of channels and
segments they work on, and every operator has a lemma of its own (what it makes of a pair
that is `Good` but for the part it is about to restore: `Base`, `Nearly`). Its conjuncts
need each other. `Tiled` says of every segment and every channel which blocks the live
requests ask for: those from the first not received to the last requested on its own
channel, none on any other; that a migration keeps it is what `Cancel` and the counters of
`Reassign` are for. `Counted` compares the counters of a channel with the outstanding
requests of the segments on it. A reply finds a buffer because a segment without one stalls
its channel (`Buffered`), which then hands nothing out until the one segment that stalled
it has a buffer again (`Owned`), with room (`Room`). `Pooled` bounds the buffers in use, so
that a writer that gives one back makes one available.

`CommandQueue_proofs` proves, for any number of attempts, async requests, lost connections
and actions of the user:

* `TypeCorrect`, `BusyIsOwned`, `WakeupNotLost`, `RepliesMatch`: `Spec => []TypeOK`,
  `[]BusyHasOwner`, `[]NoLostWakeup`, `[]RepliesMatchRequests`.
* `GivesUpLate`: `Spec => GivesUpAfterAllAttempts`, an action property.

A busy engine can lose each of its three owners, so that `IInv` must say who takes over:
only a connect command waits for the timer, and one that has a socket has begun another
attempt (`Retrying`, which also gives the number of attempts); an operation below another
does not wait for the user (`Asking`), so that a reply that is taken, although its number is
not compared, is for the one on top. A notification in the list was announced, unless the
main thread is about to look (`Woken`). The lemmas follow the calls: the end of a command,
of an operation, of a control socket; then one per event.

`FtpTransfer_proofs` proves, for any number of operations, keepalives and faults and every
setting of the options:

* `TypeCorrect`, `RepliesMatch`, `PendingCorrect`, `ServerPrepared`, `TimersRun`,
  `Progresses`: `Spec => []TypeOK`, `[]ReplyMatches`, `[]PendingExact`, `[]ServerAgrees`,
  `[]TimerRuns`, `[]NeverStuck`.
* `SuccessesReal`: `Spec => SuccessIsReal`, an action property.

The core of the invariant is that at most one command is outstanding (`Outstanding`), and
that it is the one the operation on top waits for, unless its replies are to be skipped
(`Matched`). What the client believes of the server need not be true until the replies have
been read, so `Said` and `Known` say what a final reply under way stands for; `Data` and
`Ended` relate the data connection to the transfer that is on top, and the transfer's end to
the event that announces it. Cancelling leaves a stack without operations and a command that
is skipped; that no more than one reply is ever skipped is a result (`c.skip = 1` in
`Outstanding`), not an assumption.

`TransferQueue_proofs` proves, for any number of items, servers, engines and actions of the
user and any limits:

* `AccountsCorrect`: `Spec => []AccountsExact`.

Every handler of the queue is an operator on a bundle `w`, and so is the invariant, `Good(w)`:
every active engine is in `m_engineData` and no engine is there twice (`Listed`), an engine has
an item only while it is active and no two have the same (`Assigned`), and each counter is the
cardinality of the set it stands for (`Counted`). There is one lemma per operator, that it keeps
`Good`; only `Uncount` and `Started` touch the accounts, and for them `UncountFacts` and
`StartedGood` follow each counter. What a handler calls may then be anything that is `Good`.
The argument that needs the code is that an engine that is taken is not active. For
`GetIdleEngine` this is a matter of counting: fewer engines than `OPTION_NUMTRANSFERS` means
that one of them is not listed (`RoomForOne`). The engine that `CanStartTransfer` returns is
chosen by a second call, after other servers have been looked at, which may have added an engine
to the list; the limit was checked by the first. `CanStartUse` shows that the second call cannot
return the borrowed engine while it works: if the first succeeded, there was an idle engine
connected to the server, and the look at another server leaves it idle and makes it, if it was
new, a listed one (`StillFits`). `Asks` is needed because `OnAskPassword` takes the head of a list.

`TransferQueue_engines` proves, under the same assumptions,

* `SuccessesAreReal`: `Spec => SuccessIsReal`, an action property: an item becomes successful only
  through the engine that works on it, and was transferred, or its directory made, unless that
  engine still owes its answer about it, or is the borrowed one after it was used without the lock;
* `LoanReturned`: `Spec => []BrowsingReleased`, the browsing connection gets its engine back.

For the first, `ProcessReply` decides by the state of the engine, so the invariant (`HInv`, relative
to `IInv`) must say what a reply will find. `Owed`: if an engine works on an item (`OnItem`), its last
command is for this work and this item. Either it is running, or its reply is the last one to be read,
and if that says `ok` the item is done (`Pending`). Of earlier replies nothing is known; the code does not
look. An item that becomes successful by the last reply is done, and one that does by an earlier
reply is `Paid`: the command or the last reply is still to come. The
work of an engine must not change while there is one: `Tame` says so of a change of the bundle,
and every operator that does not send a command or end an engine's work has a lemma that it is
`Tame`. `SucceedsFares` is the one place where an item becomes successful; `TakenPaid` says that
taking a reply off the list leaves it paid for. The engine to which a command is about to be sent
owes nothing yet, which is why `HInv` leaves it out; `ExecutesFares` restores it. What the engine of
the browsing connection owes presupposes the lock, and nothing is claimed of it once `bypassed`. TLC
found `HInv` to hold of the instance of `MCTransferQueue` before it was proved. The steps of the main
thread have a lemma each, from `OnEngineEventFares` to `SendNextCommandFares`; those of an
engine's thread share `ThreadFares`.

`BrowsingReleased` is a statement about an idle main thread, and the handlers break it in
between, so its invariant (`LInv`) has parts of different strength. `Lent` holds at any time:
the lock is held only if asked for, the engine is asked for only while it is in
`m_engineData`, no other engine is in the state `waitprimary`, and commands of the browsing
connection that wait while the lock is free are being executed (`Served`). `InUse`, that the
engine is listed only while it is active, may fail inside `AdvanceQueue`, whose loop looks at
an engine before it uses it; `CheckQueueState` at its end, where an unused engine is released and forgotten, restores it
(`CheckQueueStateLent`). `Locked` says that what the engine does for
the queue is done under the lock; it is suspended (`Using`) while `SendNextCommand` is about to run for this engine, which
ends by asking for it, by a command under the lock or by one that the history `bypassed` records.
A step that changes nothing of this is `Calm`, a loop of `AdvanceQueue` `Borrows` the engine
without harm, and the rest have a lemma each, from `OnEngineEventLent` to `OperationEndsLent`.

`RemoteListing_proofs` proves, for any number of engines, names, directories and commands and
any limits of the cache:

* `RefreshIsCurrent`: `Spec => []RefreshCurrent`.

What is compared in the code are two times, that of the request for the lock and that of the
parsing of the listing; what matters is when the server was asked. `IInv` connects them.
`Held` says that an engine that lists a directory, from the command to the storing of the
listing, has the lock for it, and that of two granted locks no two are for the same directory.
`AllFresh` says of every engine that waits that a listing of its directory which is offered to
it (`for`), in the cache or parsed, was asked for after its request (`seen`) or is retrieved by
the engine that held the lock then (`rival`), and that a listing that has arrived but is not
parsed yet will be such a one. The step that needs `Held` is `SendList`: an engine that begins
to wait is offered nothing that exists by then, but what is on its way to another engine will
be offered to it; that engine holds the lock, it is the only one, so it is the rival
(`HolderIsRival`). The cache has eight operations that change listings in place, and none of
them stores one: `Derived(d, c)` says that cache `d` has only listings of `c` as far as these
times go, and there is a lemma for each. `Store` and `Prune` are `StoreFacts`.

Assumptions: the `ASSUME`s of the modules, which TLC evaluates in the runs
(`NullAssumption`, `BoundAssumption`, `SizeAssumption`, `FileAssumption`,
`EngineAssumption`, `QueueAssumption`, `FtpAssumption`, `CommandsAssumption`,
`InitiallyAssumption`). The last two say that commands and initial directories are about the
paths and names of the model.

Only model-checked: liveness (`UnblockedProceeds`, `Ends`, `Completes`, `QueueDrains`), which
the prover cannot do, fairness being stated with ENABLED; of `TransferQueue`
`ActiveHasOwner`, which needs an invariant over everything that is still to come for each
engine, with the exceptions that the counterexamples of the borrowed engine force on it;
and of `RemoteListing` `TypeOK` (it bounds m_totalFileCount, a sum over the listings),
`CacheHonest` (it compares each listing with a directory tree whose deletions and renames touch
several listings at once) and `CacheBalanced`, which sums over the listings of the cache with the
folds of the community modules, which the prover cannot unfold; it must first be stated by the
cardinality of the set of cached files.

## 6. Not modelled, and the plan

`PROJECT.json` lists every component with its status. Left out for good: parsers and path
classes (sequential, unit-tested), wire protocols, user interface, platform glue.

Left out of the modelled components: uploads, timestamps, preallocation, the RTT
measurement, authentication steps, changes of the remote file between attempts (the
manifest records sizes only), failures of `remove_file`, the answer to rename the file
(`controlsocket.cpp:966`, a download of another file); `mkd_tryfull` (`ftp/mkd.cpp:178`), which creates a directory
without telling the cache; the FTP login sequence, changes of
directory, TLS, the external address (its resolver is a wait that ends); the path cache and
the time at which a listing expires; priorities, the storage of the queue, actions after the
queue is done, and the pointers that `OnRemoveSelected` and `StopItem` keep to items that a
nested `AdvanceQueue` may destroy (`QueueView.cpp:2033`, `:2093`).

Assumptions about servers: an SFTP server reports the end of a file at its end only, and shortens
no read but the last (the code takes any end of file of a single stream for a success,
`sftp/filetransfer.cpp:535`, and tolerates the first short block wherever it comes, `:496`); an FTP server rejects `REST 0` only if
no restart offset is set (the client goes on after a rejection, `ftp/rawtransfer.cpp:209`, and `ServerAgrees`
would not hold of a server that keeps the offset and refuses to forget it).

`GrantExclusiveEngineRequest` posts a callback that takes the head of the list of requests
(`commandqueue.cpp:249`). If the only request was withdrawn by then, the list is empty and the behaviour
undefined. In `TransferQueue` such a grant does nothing; it is listed as a hazard.

Hazards seen and not listed, because nothing in the code or the models bears on them: the
lock table does not serve waiting locks in order and reuses a vacated slot only at the end
of its vector; a single short read in the middle of a file whose other reads are all whole is not noticed, and what
follows is written in the wrong place (`sftp/filetransfer.cpp:496`); an open request cancelled by a migration leaves a handle open on the server;
a raw `REST` command of the user is not tracked (`ftp/rawcommand.cpp:13`); the mark for
removal of an item is never cleared, so that one that is requeued is dropped at the next
stop (`queueview_failed.cpp:168`); cancelling one connecting item stops the whole queue
(`QueueView.cpp:808`).

Plan, in order:

1. Proofs: `ActiveHasOwner` of the transfer queue; `CacheHonest`, then `CacheBalanced`.
2. `XmlFile`: saves that survive a crash, with an abstract atomic register as the
   specification it implements.
3. `RecursiveOperation`, `EditHandler`, the path cache, `Options`, `Updater`.
