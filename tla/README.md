# TLA+ models of the squid 3.3.5 request-to-reply core

This directory holds TLA+ models of the parts of `src/squid-3.3.5/src/`
described by `spec.md`, the TLC configurations that check them, and
`PROJECT.json`. PROJECT.json lists the components, the runs, the mutants
that show each property can fail, the map from every TLA+ definition to the
source lines it translates, the findings and the hazards.

All commands run from this directory:

    tlasany StoreClient.tla
    tlc -workers 2 -config MCStoreClient.cfg MCStoreClient

## 1. The system and how its parts interact

Squid is a single-threaded, cooperative event loop (spec.md section 5). No
operation yields in the middle. Everything that "waits" instead registers a
callback. The callback later runs from one of four places:

- the async call queue;
- a comm I/O completion;
- a timer event (`eventAdd`);
- a DNS answer.

Concurrency in this code is therefore the interleaving of whole handlers.
One handler's effects are atomic with respect to the others. The order in
which handlers run is free, apart from the FIFO order of the call queue.

| Part | Source | State | Operations | Talks to |
|---|---|---|---|---|
| A. Async call queue | `base/AsyncCallQueue.cc` | singly-linked FIFO (`theHead`, `theTail`) | `schedule`, `fire`, `fireNext` | every async call |
| B. Async job | `base/AsyncJob.cc` | `inCall`, `stopReason`, `done()` | `Start`, `canBeCalled`, `callStart`, `callEnd`, `mustStop`, `deleteThis`, `callException` | A |
| C. Store client | `store_client.cc` | per reader: copy request, pending callback, `disk_io_pending`, `store_copying`, `copy_event_pending`, swap-in handle, `object_ok`; per entry (outside the repository): status, memory span, swap state, flags | `storeClientListAdd`, `storeClientCopy`, `storeClientCopy2`, `doCopy`, memory and disk reads, `readHeader`, `readBody`, `storeClientCopyEvent`, `storeUnregister`, `invokeHandlers`, `CheckQuickAbort` | E reads through it; the forwarding producer wakes it with `invokeHandlers` |
| D. Internal DNS | `dns_internal.cc` | `lru_list` of pending queries, lookup hash with waiter chains, A/AAAA master and slave, nameservers and their TCP circuits | `idnsALookup`, `idnsCachedLookup`, `idnsSendQuery`, `idnsGrokReply`, `idnsCallback`, `idnsCheckQueue`, TCP circuit handlers | forwarding (outside the repository) |
| E. Reply context | `client_side_reply.cc` | log type, `lookingforstore`, current and saved (`old_sc`, `old_entry`) store client and entry, flags | `identifyFoundObject`, `cacheHit`, `processExpired`, `handleIMSReply`, `processConditional`, PURGE steps, `sendMoreData`, reply access; `buildReplyHeader`'s keep-alive decision, `replyStatus` / `checkTransferDone` | C, forwarding, the client socket |
| IPC listener start | `ipc/StartListening.cc` | none kept | `StartListening` | comm |
| TLS certificate DB | `ssl/certificate_db.cc` | `index.txt` (rows in insertion order, unique by serial and by name), one `.pem` file per row, the `size` file, the flock on `index.txt` | `addCertAndPrivateKey` with eviction, `purgeCert`, `find`, `create` | the ssl_crtd helper processes, which share one directory |

Hard behaviours the code handles:

- **Store client.** A reader may call back into `copy()` from inside its own
  callback. `store_copying` refuses that re-entry and queues a copy event
  instead.
- **Store client.** `ENTRY_FWD_HDR_WAIT` makes readers wait for a later
  append.
- **Store client.** Memory may be freed behind memory readers. Bytes then
  have to come from the swap file, which is possibly still being written.
- **Store client.** The last reader to leave may quick-abort the fetch.
- **DNS.** Duplicate lookups join one query.
- **DNS.** The A master and the AAAA slave answer in either order.
- **DNS.** Retransmits with backoff race late replies.
- **DNS.** A SERVFAIL is retried.
- **DNS.** An NXDOMAIN walks the search path.
- **DNS.** A truncated UDP reply moves the query to a TCP circuit.
- **Reply context.** A stale hit is revalidated while the old entry is kept
  in the saved slots, then either restored or replaced.
- **Reply context.** PURGE runs as five numbered store lookups.
- **Reply stream.** After every write the client socket asks `replyStatus`
  whether to read more, keep the connection or close it. The answer
  depends on the entry's state, the bytes the reader got, and the
  Content-Length. A reply whose entry completed short must not be taken
  as complete.
- **Certificate DB.** Several ssl_crtd processes share the directory under
  a file lock. Each operation writes the size file, the certificate files
  and `index.txt` one after the other, so a process that dies part-way
  leaves them disagreeing.

## 2. Modules

### StoreClient.tla (part C): done

State:

- `e` is the StoreEntry and its MemObject: store status, `object_sz`,
  `endOffset`, `inmem_lo`, swap status, bytes on disk, whether the swap
  envelope size is known, `ENTRY_FWD_HDR_WAIT` and `ENTRY_ABORTED`.
- `cl[c]` is reader `c`'s `store_client`: attach state, type, pending
  callback, `copyInto.offset`, disk read in flight (and whether it goes to
  the header or the body handler), copy event pending, swap-in open and
  `object_ok`.
- `cl[c]` also records what the reader observed: the bytes it holds, and
  whether it saw end-of-object or an error.
- `cl[c].bug` records the `store_client.cc` assertions that would fail.

The assertion flags are part of the record because the model does not stop
on an assertion. It records the assertion and the invariant
`StoreAssertionsHold` fails.

Data is abstracted to offsets: a byte is named by its position.

The copy pump is a chain of operators, one per function. They take the entry
state `x` and a client record `s`, and return the new client record:

- `storeClientCopy2`
- `doCopy`
- `storeClientNoMoreToSend`
- `startSwapin`
- `scheduleRead`
- `scheduleMemRead`
- `scheduleDiskRead`
- `fileRead`
- `Callback`
- `fail`

Each of them follows the code's early returns in order. The
actions are:

- the reader's `storeClientListAdd`, `copy` and `storeUnregister`;
- the event loop's `storeClientCopyEvent` and `DiskReadDone` (which runs
  `readHeader` or `readBody`);
- the producer's `storeAppend`, `complete`, `abort`, `swapOutWrite` and
  `trimSwappable`.

Every producer step ends in `NotifyReaders`, which is `invokeHandlers`:
`swapOut()`, then copy2 for each reader with a pending callback and no disk
read in flight. The readers see the entry after the producer's change.

Inside one pass of copy2 the environment chooses two things per reader:

- whether the reader's handler calls `copy()` again from inside the
  callback (`reenter`). That nested copy hits `store_copying` and queues the
  copy event.
- whether the swap-in file opens (`openOK`).

A re-copy from inside a disk-completion callback runs `doCopy` at once. It
is left as a separate `copy` step, because nothing else in `readBody`
follows the callback.

The producer side is not in this repository. Those actions are marked
`spec_modelled` in PROJECT.json. They are written from spec.md sections 3,
4.C and 5, and kept to what the readers depend on:

- the forwarding side appends one byte at a time. Its first append carries
  the parsed headers and clears `ENTRY_FWD_HDR_WAIT`.
- `complete()` fixes `object_sz`.
- `abort()` makes the entry `STORE_OK` and `ENTRY_ABORTED` with its length
  fixed, as spec.md section 3 requires of every OK entry. The model assumes
  the server side does not abort while still waiting for headers.
- swap-out may start whenever `swapOut()` runs and writes bytes one by one.
- trimming frees memory only below what is on disk and below the lowest
  memory reader's `copyInto.offset` (`memReaderHasLowerOffset`).
- the store gives a new client the DISK type only when there is a swap
  file, and the MEM type only when every byte from 0 is or will be in
  memory. The model allows any type the store could give.

Init has two entry states:

- an entry being fetched: PENDING, headers awaited, no swap file;
- a disk hit: OK, length unknown until the swap envelope is read, memory
  empty.

`storeUnregister` ends in `CheckQuickAbort`. When the last reader leaves a
PENDING entry, `CheckQuickAbortIsReasonable` decides whether to `abort()`.
Both are operators with the code's early returns in order:

- the entry's `endOffset` is `curlen`;
- the request flags (`cachable`, `KEY_PRIVATE`, range and range offset
  limit) and the reply's `content_length + hdr_sz` are inputs chosen from
  `QuickAbortInput`;
- `quick_abort_min`, `quick_abort_max` and `quick_abort_pct` are constants.

### DnsResolver.tla (part D, UDP side): done

State:

- `lk[n]` is the `idns_lookup_hash` entry for name `n` and its waiter chain.
  The hash entry's own caller comes first. A joining caller is linked right
  after it, as `idnsCachedLookup` does.
- `q[<<n, k>>]` is the `idns_query` of kind "A" (the master) or "AAAA" (the
  slave). It holds `query_id`, `nsends`, `attempt`, the search-path
  `domain`, `need_vc`, the sent time, the answer count and its error.
- `lru` is `lru_list`, head first.
- `wire` is every datagram sent. A nameserver may answer any of them any
  number of times, late, in any order, or never (`MaxReplies` bounds the
  answers in one behaviour).
- `evq`, `evAt` and `now` are `event_queued`, the due time of the check
  event, and a tick clock bounded by `MaxTime`.
- `cst` and `res` are what each caller got back.

The functions are operators on a record of these variables, chained in the
code's order: `idnsALookup` (with `idnsCachedLookup` and `idnsStartQuery`),
`idnsSendSlaveAAAAQuery`, `idnsQueryID`, `idnsSendQuery`, `idnsTickleQueue`,
`idnsGrokReply` (late and mismatched replies, TC, SERVFAIL, NXDOMAIN with
the search path), `idnsCallback` (the A/AAAA merge and the waiter chain) and
`idnsCheckQueue` (the walk from the tail of `lru_list`). Each caller looks
its name up once. The asserts of `idnsSendQuery` (the query is off
`lru_list`) are not checked: every caller of it takes the query off the list
first or sends a fresh one. The actions are a caller's lookup, a reply datagram (`idnsRead`), the check event firing and
the clock ticking. `idnsFindQuery` (the walk of `lru_list` from its tail
for a `query_id`) is an operator of its own that `idnsGrokReply` uses.

### DnsLookup.tla (part D, the service it promises): done

`DnsLookup` is what the resolver promises its callers, without queries,
ids, retransmits or the search path. A caller looks a name up once
(`Lookup`) and waits. `Answer(N, ans)` completes the lookups of the names in
`N` in one step: every caller waiting on a name `n` of `N` is called back,
all of them with the same answer `ans[n]`, and an answer once given stays.
One step may complete several names because one `idnsCheckQueue` walk can
time out several queries.

`DnsResolver` implements it (`ImplementsLookup == DL!Spec`). The refinement
mapping keeps `cst` and `res`. A caller's `want` is the set of names whose
hash entry has the caller in its chain (`LookupOf`). `Answers` is
`CallbackResults`: a count of answers from -1 to 4, an error flag, and the
search-path domains the records are for. That set is empty when the count is
not positive and holds at most one domain otherwise.

### DnsCircuit.tla (part D, TCP side): done

`circ[id]` is an allocated `nsvc` object. It holds `st` ("free",
"connecting", "open" or "closing"), the nameserver index `ns` it was made
for, `busy`, the `queue` MemBuf, the writes in progress, and whether the
connect callback is still due, and how many written frames the nameserver
has yet to answer. `slot[ns]` is `nameservers[ns].vc` and `nns`
is the number of entries in use.

Circuits and slots are separate because a circuit can outlive its slot.
On reconfigure, `dnsShutdown` closes the open circuits and frees
`nameservers[]`, and `dnsInit` builds a new one; the circuits are not
freed. The actions are:

- `idnsSendQueryVC` (with `idnsInitVC` and `idnsDoSendQueryVC`);
- `idnsInitVCConnected`, `idnsSentQueryVC`, `idnsReadVC` reading an answer
  (with its `assert(vc->ns < nns)`, recorded in `crash`), a read error and
  `idnsVCClosed`;
- `dnsShutdown` and `dnsInit`, separate steps with other handlers allowed
  in between.

`fate[q]` is history: it records what became of the last frame of `q`
handed to a circuit.

### AsyncCalls.tla and CallFifo.tla (parts A and B): done

- `q` is the intrusive list of `AsyncCallQueue`: `theHead`, `theTail` and
  each call's `theNext`.
- `target[c]` is the job a call is for.
- `firing` is true while `fire()` drains the queue.
- `job[j]` is "none", "alive" or "deleted".
- `stop[j]` is `stopReason != NULL`.
- `stack` holds the jobs whose methods are running, innermost last. The
  code has a single `inCall` per job, so `TypeOK` requires the stack to
  hold no job twice.
- `outcome[c]` is what became of a call.

The actions are:

- `Start` and calls scheduled from event handlers or from running methods;
- `fire`, `fireNext` and the end of a drain;
- a synchronous `make()` (`DirectCall`), with the call going through
  `canBeCalled`, `callStart` and `callEnd`;
- `done()` becoming true, `mustStop`, a method that throws, and
  `deleteThis` inside and outside calls.

`CallFifo` is the FIFO that spec.md promises for the queue.
`AsyncCalls` instantiates it with `pending` mapped to the list walked from
`theHead` (`Queued`, a RECURSIVE walk). `QueueIsFifo == AF!Spec` is checked
as a property, so every step of the list is a step of the FIFO or a
stutter.

### ReplyContext.tla (part E): done for the store-reference logic

`req` is the request: its method, its conditional headers, no-cache,
only-if-cached, cachability, redirect and `enable_purge`. `ctx` is the
`clientReplyContext`. Its fields are:

- the awaited callback (`pend`);
- `http->storeEntry()` and `sc` (`cur`, `sc`), and `old_entry` and `old_sc`
  (`oe`, `os`);
- the lock count and store-client registration of every entry;
- `lookingforstore`, the log type, `headersSent`, `complete`, `reqofs` as
  zero or not, whether the reply was cloned, whether a PURGE is under way,
  the request's IMS flag and whether a Vary variant was chosen;
- `bug` (an `assert` of the file would fail) and `crashed` (a NULL pointer
  was dereferenced).

Entries are numbers: `Null`, the cached GET and HEAD objects, and the
entries the context creates (at most `MaxEntries`).

Each action is one entry point, run to its end:

- `GetMoreData` is `clientGetMoreData` with `identifyStoreObject` /
  `identifyFoundObject`.
- `Created` is the PURGE lookups' `created()` with `lookingforstore` 1 to 5.
- `CacheHit` runs `cacheHit` through `processExpired`, `processConditional`
  and `processMiss`.
- `HandleIMSReply` runs `handleIMSReply` into `sendClientUpstreamResponse`
  or `sendClientOldEntry`.
- `SendMoreData` runs `sendMoreData` with `processReplyAccess`.
- `ProcessReplyAccessResult` is the ACL answer.
- `Destroy` is the destructor.

The calls each entry point makes are operators on the `ctx` record, in the
code's order and with its early returns. What the store, the forwarder
and the ACLs answer is chosen by `\E` from small input sets. Each input set
varies only what its branch reads.

### ReplyStream.tla (reply completion, part E): done

The reply context reads its entry as a store_client. ReplyStream therefore
EXTENDS StoreClient and takes each reader's record as the context's view:
- `headers_sz` is set once the reader holds the `Hdr` header bytes;
- `outOffset` is the body bytes handed on by `pushStreamData`;
- `flagsComplete` is set for HEAD, and by `sendStreamError` on the 0-byte
  end or a read error.

`StreamInput` is what the request and the reply headers decide:
- the method;
- whether a Content-Length declares the whole object;
- the other keep-alive rows, as one flag;
- whether the reply may be chunked;
- `reply_body_max_size`.

`proxyKeepalive` and `chunkedReply` follow `buildReplyHeader`.
`checkTransferDone`, `storeOKTransferDone`, `storeNotOKTransferDone` and
`replyStatus` follow the code branch by branch.

These functions change no state beyond flags derived from the reader. So
the module adds no variables. Its two invariants are checked for every
reader and every input, in every state of the `store_safety` run. That
includes entries completed short of `Len` (an early EOF), aborted entries,
and swap-in errors.

### CertDb.tla (TLS certificate database): done

`disk` is the directory: `index` (the rows of `index.txt` in order, each a
serial `<<name, version>>`), `files` (each `.pem` file is "none", "ok" or
"partial") and `size` (the size file, in blocks, modulo `SizeMod` as a
`size_t`). `expired` is the set of serials whose `notAfter` has passed.
`last` is what the last completed operation returned.

Every public operation takes the flock (`Locker`) and calls `load()`, so
operations of different processes never interleave. Each one is a single
action:

- `AddCert` runs `addCertAndPrivateKey`;
- `Purge` runs `purgeCert`;
- `Find` runs `find`;
- `Expire` lets time pass.

An operation is computed on a working record. `mem` is the in-memory
TXT_DB. `trail` is the sequence of disk states, one more for each write:
- the size file (`writeSize`);
- a certificate file written or removed;
- each row `save()` writes after truncating `index.txt`.

`Commit` sets the disk to the last state of the trail. With `Crashes`, it
may instead set an earlier state: the process died there and the kernel
dropped its lock.

The helpers follow the code function by function: `load`, `save`,
`readSize`, `writeSize`, `addSize`, `subSize`, `getFileSize`,
`sq_TXT_DB_delete_row`, `sq_TXT_DB_delete`, `deleteRow`,
`deleteInvalidCertificate`, `deleteOldestCertificate`, `deleteByHostname`,
`pure_find`. The eviction loop is two RECURSIVE operators: `evict` is the
`while`, and `evictOldest` the `do ... while`.

`writeCertAndPrivateKeyToFile` is in `gadgets.cc`, outside the repository.
It may succeed, or fail leaving no file or a truncated one.

### Plan for the next sittings

1. **ReplyContext**:
   - compose with ReplyStream, so that "every request gets exactly one
     reply" can be stated as a liveness property;
   - the Vary purge of base entries.
2. **DnsResolver**: `idnsPTRLookup`. Its query is hashed under `q->orig`,
   which it never sets, but looked up under the PTR name, so two PTR
   lookups of one address never merge. Also the lookups made between
   `dnsShutdown` and `dnsInit` (hazard at line 906). Both need a run of
   their own, and the project uses all twelve of its runs. Six of those
   are violation runs, each showing a real finding. A lookup issued from
   inside a callback (hazard at line 1090) needs callers that look up
   more than once.
3. **Composition**: ReplyContext's store reads go through a StoreClient
   reader, and the async call queue delivers the store and DNS callbacks.
4. **CertDb**: a run with crashes for `CertsServable` (the serial already
   in the index is trusted without its file, line 297). This is blocked by
   the same limit on runs.

## 3. Runs

| Run | Config | Checks | Result |
|---|---|---|---|
| `store_safety` | `MCStoreClient.cfg` | `TypeOK`, `NoStrandedReader`, `StoreAssertionsHold`, `ReaderSeesWholeObject`, `KeepAliveOnlyAfterWholeReply`, `WholeReplyKeepsConnection`, `PendingCopyAnswered` | pass, 93,041 distinct states |
| `dns_resolver` | `MCDnsResolver.cfg` | `TypeOK`, `CallerNotForgotten`, `UniquePendingIds`, `AnswersMatchQuestion`, `MergedAnswersForOneName`, `AllAnswered`, `ImplementsLookup` | pass, 35,762 distinct states |
| `dns_circuit` | `MCDnsCircuit.cfg` | `TypeOK`, `WritesSerialised`, `NoDanglingSlot` | pass, 4,524,344 distinct states |
| `dns_circuit_reset` | `MCDnsCircuitReset.cfg` | `QueuedFrameNotDropped` | violation (finding) |
| `dns_circuit_connect` | `MCDnsCircuitConnect.cfg` | `HandedFrameSettles` | violation (finding) |
| `dns_circuit_read_assert` | `MCDnsCircuitReadAssert.cfg` | `ReadVCAssertHolds` | violation (finding) |
| `async_safety` | `MCAsyncCalls.cfg` | `TypeOK`, `NoCallIntoDeadJob`, `QueueIsFifo`, `CallsDelivered`, `StoppedJobReaped` | pass, 196,417 distinct states |
| `reply_safety` | `MCReplyContext.cfg` | `TypeOK`, `ReplyAssertionsHold`, `StoreReferencesBalanced`, `SavedHitOnlyDuringRevalidation` | pass, 32,624 distinct states |
| `reply_ims_abort` | `MCReplyIMSAbort.cfg` | `NoNullDeref` | violation (finding) |
| `reply_if_match_stall` | `MCReplyStall.cfg` | `NoStall` | violation (finding) |
| `cert_db` | `MCCertDb.cfg` | `TypeOK`, `SizeAccounted`, `DbSizeBounded`, `CertsServable`, `NotWedged` | pass, 50,740 distinct states |
| `cert_db_crash` | `MCCertDbCrash.cfg` | `NotWedged` | violation (finding) |

What the properties say:

- **`NoStrandedReader`** is about lost wake-ups. Take a reader whose copy is
  pending, with no disk read and no copy event outstanding. The reader is
  waiting only for bytes not yet appended, or for the reply headers.
  Otherwise nothing would ever call copy2 for it again.
- **`StoreAssertionsHold`**: the `scheduleDiskRead` and `fileRead`
  assertions hold, whatever trimming, swap-out and the choice of client
  type do in between.
- **`ReaderSeesWholeObject`**: a reader holds only bytes the object has. It
  sees end-of-object only when the entry is complete and it holds every
  byte.
- **`KeepAliveOnlyAfterWholeReply`**: `replyStatus` answers
  `STREAM_COMPLETE`, which keeps the connection for the next request, only
  when the whole response was written. With a Content-Length, that means
  the declared body. Without one, it means every byte of the complete
  entry. An entry completed short of its Content-Length is still "done"
  by `storeOKTransferDone`. Only `gotEnough` keeps such a reply from being
  taken as complete, which is what the TODO at line 1177 fears.
- **`WholeReplyKeepsConnection`**: a persistent reply whose reader got the
  whole object and its end, from an entry that was not aborted, is
  `STREAM_COMPLETE`. It is neither closed nor left waiting.
- **`PendingCopyAnswered`**: a pending copy request of a reader that stays
  is eventually answered with new bytes, end-of-object or an error.
- **`CallerNotForgotten`**: `lru_list` holds exactly the pending queries,
  each once and each of a lookup still in the hash. A check event is
  scheduled while the list is not empty. A caller still waiting is on the
  chain of a lookup with a query pending, so some reply or timeout will
  reach it.
- **`UniquePendingIds`**: no two queries in `lru_list` share a `query_id`.
- **`AnswersMatchQuestion`** and **`MergedAnswersForOneName`**: a caller
  gets records only for a name it asked for, and the A and AAAA halves of
  one callback come from the same name, even across NXDOMAIN retries on the
  search path.
- **`AllAnswered`**: every caller of `idnsALookup` is called back, even
  when no nameserver ever answers.
- **`ImplementsLookup`**: the resolver refines `DnsLookup`. No caller is
  called back twice or without having asked. Every caller waiting on a name
  is called back in the same drain as the others, with the same answer.
  An answer is for at most one name
  and has records exactly when its count is positive. The mutant
  `idnsCallbackMergeWaitersUnmerged` breaks it. In that mutant the waiter
  chain gets the master's own answers instead of the merged ones, which no
  other property notices.
- **`WritesSerialised`**: at most one `Comm::Write` is in progress per
  circuit, and the NULL `vc->conn` of a circuit still connecting is never
  read.
- **`NoDanglingSlot`**: a slot `nameservers[ns].vc` in use names an
  allocated circuit made for that `ns`, across a reconfiguration whose old
  circuits close after `dnsInit`.
  The model also reaches the case the `vc->ns < nns` test at line 833
  lets through: a late close handler clears the slot of a circuit made
  after `dnsInit`. That costs a second connection to the nameserver, and no
  property forbids it.
- **`NoCallIntoDeadJob`**: no job is deleted while one of its methods is
  on the stack.
- **`QueueIsFifo`**: the linked list refines the FIFO of `CallFifo`.
- **`CallsDelivered`**: every scheduled call is eventually made or
  cancelled.
- **`StoppedJobReaped`**: a job told to stop that still has a call queued
  is eventually deleted. This covers `mustStop` outside a call too, which
  only records the reason ("will STALL"): the `callEnd` of the later call
  sees `stopReason` in `done()` and deletes the job. A stalled job that
  never gets another call leaks, as the comment at `AsyncJob.cc:101` says.
  No property claims otherwise.
- **`ReplyAssertionsHold`**: no `assert` of `client_side_reply.cc` fails.
  These are the `saveState` / `restoreState` pairing, the `LOG_TCP_HIT`
  checks, the initial read at offset 0, one `cloneReply` and one
  `headersSent`.
- **`StoreReferencesBalanced`**: while the context lives, it holds exactly
  one lock and one store client on `http->storeEntry()` and on `old_entry`,
  and on nothing else. After the destructor it holds nothing.
- **`SavedHitOnlyDuringRevalidation`**: `old_entry` and `old_sc` are set
  together, only while the IMS reply is awaited, and only next to the IMS
  entry.
- **`SizeAccounted`**: the size file equals the blocks of the files of the
  rows in `index.txt`, across evictions, purges and failed writes.
- **`DbSizeBounded`**: every row but the newest fits in `max_db_size`,
  counted by the size file. This is what the eviction loop ensures before
  each insert.
- **`CertsServable`**: every row of `index.txt` has a readable file, and a
  certificate that `addCertAndPrivateKey` returns as stored is in the
  index.
- **`NotWedged`**: an add never fails for want of space. The comment at
  line 329 says the loop gives up only when "errors prevented us from
  freeing enough space", and `deleteOldestCertificate`'s only error is an
  empty database.

The violation runs, each a finding in PROJECT.json:

- **`dns_circuit_reset`**: `idnsSendQueryVC` resets the circuit queue, and
  so drops a frame that was waiting there.
- **`dns_circuit_connect`**: after a failed TCP connect the circuit stays
  busy forever.
- **`dns_circuit_read_assert`**: `idnsReadVC` asserts `vc->ns < nns` at
  line 1412. `dnsShutdown` closes only circuits whose conn is open, so a
  circuit still connecting survives the reconfiguration. It connects
  later, writes its frame and reads the answer, and the assert aborts
  squid. TLC's shortest trace reads the answer before `dnsInit` runs
  (`nns` is 0). With the states where a circuit is open while `nns` is 0
  excluded, TLC finds the other route: `dnsInit` builds a `nameservers[]`
  of one entry, and a circuit made for the second nameserver connects.
- **`reply_ims_abort`**: `handleIMSReply` dereferences the NULL
  `old_entry` after an aborted revalidation.
- **`reply_if_match_stall`**: a request whose only condition is a matching
  `If-Match` gets no reply.
- **`cert_db_crash`**: a process dies between `addSize` and `save`. The
  size file then counts a certificate that the index does not list. Nothing
  ever subtracts it, so every later add evicts the whole database and
  fails. A crash between `deleteRow`'s `subSize` and `save` has the same
  end, through a double subtraction and a `size_t` wrap.

Every property of a passing run has a mutant in PROJECT.json. A mutant is a
plausible bug in one mapped definition, and TLC catches it under the run's
own configuration.

## 4. Bounds and why they are enough

- **StoreClient** (and ReplyStream): two readers, a 3-byte object of
  which 1 byte is reply headers, 2-byte copy requests. The 2-byte body can
  then be cut short by an early `complete`.
  With these, a copy can be served whole or in part. One reader can use
  memory while the other reads from disk. Trimming can free a byte behind
  one reader while the other still needs it.
- **DnsResolver**: two callers of one unqualified name, A and AAAA, one
  search domain, one nameserver. One run checks safety and liveness
  together, so it uses no symmetry.
  - The name is unqualified, so the master carries the search domain while
    the slave was built from the original name. A merge of two names is
    then reachable within two datagrams.
  - Two query ids, so `idnsQueryID` must skip an id in use.
  - A retransmit of 1 tick and a timeout of 2 ticks over a 15-tick clock,
    so a query is resent, given up on, and every backed-off timer expires.
  - Up to 2 answer datagrams, so a reply can be duplicated or arrive late,
    and be truncated, SERVFAIL or NXDOMAIN.
- **DnsCircuit**: up to two nameservers, two queries, four frames, four
  live circuits and two reconfigurations. That is enough for a send while
  connecting, a send while writing, a failed write, a re-created circuit,
  and a reconfiguration that shrinks `nameservers[]` under an open and a
  connecting circuit. A second reconfiguration then grows it again while a
  circuit of the first generation is still closing. There is one circuit
  per frame, because each new circuit needs a send. So allocation never
  runs out, even when failed connects leak circuits (the finding of
  `dns_circuit_connect`). With three circuits and two reconfigurations
  the model would stop where the code would still allocate. The
  `dns_circuit_queue` and `dns_circuit_connect` violation runs keep one
  circuit and no reconfiguration. `dns_circuit_read_assert` keeps two
  frames, two circuits and one reconfiguration, which is all its trace
  needs.
- **AsyncCalls**: two jobs and five calls. That allows a call scheduled
  during a drain, a direct call nested in a queued one, and a call to a
  deleted job.
- **CertDb**: three names, so that eviction happens at all: a name's own
  row is deleted before eviction, and at most one row per name is indexed.
  Two versions, of one and of three blocks, with `max_db_size` of two
  blocks. An insert can then leave the database over the limit by more than
  one row's worth, so the loop has to delete several rows. `SizeMod` 8
  exceeds every count the correct code reaches. Names are symmetric.
- **ReplyContext**: every request mix for GET, HEAD and PURGE (768 initial
  states), and three created entries. That covers IMS plus a miss, and the
  PURGE steps that create an entry to answer with.

## 5. Fairness

- **StoreClient** assumes weak fairness on:
  - the producer's next append or `complete`;
  - `storeClientCopyEvent` (a zero-delay event);
  - `DiskReadDone` (the disk layer completes every read it accepted,
    possibly with an error).
  Readers leaving, aborts, swap-out and trimming get no fairness.
- **DnsResolver** assumes weak fairness on `idnsCheckQueue` (an `eventAdd`
  timer runs once due) and on the clock. Nameserver answers get none: they
  may all be lost.
- **DnsCircuit** assumes that comm eventually calls back a pending connect
  or write and runs a close handler. None of these is promised to succeed.
  It also assumes that a reconfiguration, once begun, reaches `dnsInit`.
- **AsyncCalls** assumes strong fairness on `fire`, because
  `EventLoop::runOnce` calls `fire()` on every iteration, however often
  other events run in between. It assumes weak fairness on `fireNext`, on
  the end of a drain and on `callEnd`, because a method that was called
  returns or throws.
- **ReplyContext** and **CertDb** have only safety runs, so they assume no
  fairness.

## 6. Not modelled, and why

- **Read-ahead gating** (`kickReads`) is not modelled. The producer appends
  whenever it likes, which over-approximates what it may do.
- **Delay pools** are not modelled.
- **Byte content** is not modelled. Copies are tracked by offsets.
- **The `size_t` wrap of `body_sz`** in `readHeader` is not modelled.
  `StoreMetaUnpacker::isBufferSane`, outside this repository, prevents it.
- **DNS parts left out**:
  - `idnsPTRLookup`;
  - lookups between `dnsShutdown` and `dnsInit`. `idnsSendQuery` drops
    them silently (line 906), but whether one can arrive then is decided
    by the reconfigure sequence in `main.cc`, outside the repository;
  - the parsing of nameserver and search-path configuration. `dnsInit` is
    modelled only by the number of nameservers it yields;
  - the UDP sockets that `dnsShutdown` and `dnsInit` close and open;
  - the compiled-out EDNS code;
  - statistics;
  - `sendto` failures, which behave like a lost datagram;
  - a callback that looks its name up again (hazard at line 1090). It adds
    no state the model tells apart, so each caller looks up once;
  - the partial reads of `idnsReadVCHeader` and `idnsReadVC`. A read is
    modelled as one whole answer.
- **The first search domain is queried twice**: `idnsALookup` sets
  `q->domain = 0` after sending to `searchpath[0]` (line 1696), and
  `idnsGrokReply` increments it before use only after it has been tried
  (lines 1199 to 1204). The model keeps this behaviour, but no run
  checks it, because the twelve runs are spent on other questions.
- **Reply context parts left out**:
  - the header rewriting of `buildReplyHeader` (Age, Via, Warning,
    X-Cache), which only formats text;
  - range requests, which also set `done_copying`;
  - TRACE;
  - offline mode;
  - URL mismatch;
  - the Vary purge of base entries;
  - an IMS error that is not an abort (line 373). The store reports an
    error without an abort only to a disk client, or to a client
    unregistered with a copy pending. The IMS entry is new, and whether its
    reader is a memory client is decided by `storeClientType()` in
    `store.cc`, outside the repository.
- **Public entries are never aborted** in ReplyContext, so the assertion
  at line 491 is not exercised.
- **IPC listener start** is one synchronous open plus one scheduled
  callback. The SMP hand-off is out of scope in spec.md.
- **Quick-abort thresholds.** The model's object is a few bytes long. The
  KB thresholds and the percentage branch of `CheckQuickAbortIsReasonable`
  are written but never reached.
- **TLS certificate DB parts left out**:
  - the `Row` memory management;
  - the serial hash and compare functions (serials are compared as values);
  - the constructor's argument check;
  - certificate encoding;
  - the lock's `open` and `flock` calls, which the model takes as mutual
    exclusion;
  - a crash that leaves half a line in `index.txt`, which makes every later
    `load()` throw.
