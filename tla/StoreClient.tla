---------------------------- MODULE StoreClient ----------------------------
(***************************************************************************)
(* The reader half of the object store (src/store_client.cc): the         *)
(* store_clients attached to ONE StoreEntry, the copy / copy2 / doCopy     *)
(* pump that moves bytes from memory or from the swap file into a reader's *)
(* buffer, the disk read completions (readHeader / readBody), the deferred *)
(* copy event, unregistering and the quick-abort check.                    *)
(*                                                                         *)
(* The producer side of the entry (append, complete, abort, swap-out,      *)
(* memory trimming, the choice of client type) lives in store.cc,          *)
(* store_swapout.cc and MemObject.cc, which are not in this repository:   *)
(* those actions are written from spec.md sections 3, 4.C and 5 and kept  *)
(* as small as the reader side needs.                                      *)
(*                                                                         *)
(* Data is abstracted to byte offsets: a byte is named by its position in *)
(* the object, so which bytes a reader got is a number, not content.       *)
(***************************************************************************)
EXTENDS Integers, FiniteSets

CONSTANTS
    Clients,       \* the store_clients that may attach to the entry
    Len,           \* length of the object (headers and body) in bytes
    ReqLen,        \* copyInto.length: bytes asked for by one copy request
    MemCacheDisk,  \* Config.onoff.memory_cache_disk
    QuickAbortMin, \* Config.quickAbort.min, in KB (-1 disables quick abort)
    QuickAbortMax, \* Config.quickAbort.max, in KB
    QuickAbortPct  \* Config.quickAbort.pct

ASSUME Len \in Nat \ {0} /\ ReqLen \in Nat \ {0} /\ MemCacheDisk \in BOOLEAN

VARIABLES
    e,    \* the StoreEntry and its MemObject, see EntryRec
    cl    \* cl[c]: the store_client of reader c, see ClientRec

vars == <<e, cl>>

Unknown == -1
Lesser(a, b) == IF a < b THEN a ELSE b

(***************************************************************************)
(*   status   store_status: "PENDING" while the producer appends, then "OK"*)
(*   objLen   mem_obj->object_sz, Unknown until complete() or unpackHeader *)
(*   endOff   mem_obj->endOffset(): end of the bytes held in memory        *)
(*   inmemLo  mem_obj->inmem_lo: bytes below it were freed from memory     *)
(*   swapSt   swap_status          onDisk  bytes written to the swap file *)
(*   hdrKnown mem_obj->swap_hdr_sz # 0                                     *)
(*   hdrWait  ENTRY_FWD_HDR_WAIT   aborted ENTRY_ABORTED                   *)
(***************************************************************************)
EntryRec ==
    [status: {"PENDING", "OK"}, objLen: {Unknown} \cup 0..Len, endOff: 0..Len,
     inmemLo: 0..Len, swapSt: {"NONE", "WRITING", "DONE"}, onDisk: 0..Len,
     hdrKnown: BOOLEAN, hdrWait: BOOLEAN, aborted: BOOLEAN]

(***************************************************************************)
(* A store_client and, in the last four fields, what its reader observed. *)
(*   st    "none" before storeClientListAdd, "gone" after storeUnregister *)
(*   pend  _callback.pending()        off   copyInto.offset               *)
(*   dio   flags.disk_io_pending, and which handler the read goes to      *)
(*   ev    flags.copy_event_pending   sio   swapin_sio # NULL             *)
(*   ok    object_ok                                                       *)
(*   got   bytes the reader holds (it places each result at result.offset)*)
(*   eof   the reader was called back with 0 bytes and no error           *)
(*   err   the reader was called back with the error flag                 *)
(*   bug   the store_client.cc assertions this client failed              *)
(***************************************************************************)
ClientRec ==
    [st: {"none", "attached", "gone"}, type: {"MEM", "DISK"}, pend: BOOLEAN,
     off: 0..Len, dio: {"none", "hdr", "body"}, ev: BOOLEAN, sio: BOOLEAN,
     ok: BOOLEAN, got: 0..Len, eof: BOOLEAN, err: BOOLEAN,
     bug: SUBSET {"scheduleDiskRead", "fileRead"}]

\* The choices the environment makes inside one pass of copy2 for a client:
\* whether the reader's handler asks for more data from inside the callback,
\* and whether the swap-in file can be opened.
Choice == [reenter: BOOLEAN, openOK: BOOLEAN]

(***************************************************************************)
(* store_client::callback and the reader's handler.  A reader that gets   *)
(* data may ask again from inside the handler; that nested copy() meets   *)
(* flags.store_copying in storeClientCopy2 and only queues a              *)
(* storeClientCopyEvent.                                                   *)
(***************************************************************************)
Callback(s, sz, error) ==
    [s EXCEPT !.pend = FALSE,
              !.got  = IF error \/ sz <= 0 THEN @ ELSE s.off + sz,
              !.eof  = @ \/ (~error /\ sz = 0),
              !.err  = @ \/ error \/ sz < 0]

NestedCopy(s) == [s EXCEPT !.pend = TRUE, !.off = s.got, !.ev = TRUE]

fail(s) ==
    LET t == [s EXCEPT !.ok = FALSE]
    IN  IF t.pend THEN Callback(t, 0, TRUE) ELSE t

storeClientNoMoreToSend(x, s) ==
    x.status = "OK" /\ x.objLen # Unknown /\ s.off >= x.objLen

\* Bug variant: the copy is not clamped to the bytes in memory.
scheduleMemReadUnclamped(x, s, reenter) ==
    LET d == Callback(s, ReqLen, FALSE)
    IN  IF reenter /\ d.got > s.off /\ ~x.aborted THEN NestedCopy(d) ELSE d

scheduleMemRead(x, s, reenter) ==
    LET d == Callback(s, Lesser(ReqLen, x.endOff - s.off), FALSE)
    IN  IF reenter /\ d.got > s.off /\ ~x.aborted THEN NestedCopy(d) ELSE d

fileRead(x, s) ==
    [s EXCEPT !.dio = IF x.hdrKnown THEN "body" ELSE "hdr",
              !.bug = IF x.hdrKnown /\ x.swapSt = "WRITING" /\ ~(x.onDisk > s.off)
                      THEN @ \cup {"fileRead"} ELSE @]

scheduleDiskRead(x, s) ==
    LET t == fileRead(x, s)
    IN  IF s.type # "DISK" THEN [t EXCEPT !.bug = @ \cup {"scheduleDiskRead"}] ELSE t

\* Bug variant: off-by-one at the low end of the in-memory range.
scheduleReadOffByOne(x, s, reenter) ==
    IF s.off > x.inmemLo /\ s.off < x.endOff
    THEN scheduleMemRead(x, s, reenter)
    ELSE scheduleDiskRead(x, s)

scheduleRead(x, s, reenter) ==
    IF s.off >= x.inmemLo /\ s.off < x.endOff
    THEN scheduleMemRead(x, s, reenter)
    ELSE scheduleDiskRead(x, s)

startSwapin(x, s, reenter, openOK) ==
    IF ~openOK THEN fail(s)
    ELSE IF s.dio = "none" THEN scheduleRead(x, [s EXCEPT !.sio = TRUE], reenter)
    ELSE s

doCopy(x, s, reenter, openOK) ==
    IF storeClientNoMoreToSend(x, s) THEN Callback(s, 0, FALSE)
    ELSE IF x.status = "PENDING" /\ s.off >= x.endOff THEN s
    ELSE IF s.type = "DISK" /\ ~s.sio THEN startSwapin(x, s, reenter, openOK)
    ELSE scheduleRead(x, s, reenter)

storeClientCopy2(x, s, ch) ==
    IF s.ev \/ x.hdrWait THEN s ELSE doCopy(x, s, ch.reenter, ch.openOK)

\* Bug variant: the readers are called with the entry as it was before the
\* producer's change.
invokeHandlersBeforeUpdate(x, ch) ==
    [c \in Clients |->
        IF cl[c].st = "attached" /\ cl[c].pend /\ cl[c].dio = "none"
        THEN storeClientCopy2(e, cl[c], ch[c]) ELSE cl[c]]

\* StoreEntry::invokeHandlers on entry state x: copy2 for every client with
\* a pending callback and no disk read in flight.
invokeHandlers(x, ch) ==
    [c \in Clients |->
        IF cl[c].st = "attached" /\ cl[c].pend /\ cl[c].dio = "none"
        THEN storeClientCopy2(x, cl[c], ch[c]) ELSE cl[c]]

\* StoreEntry::swapOut, as called from invokeHandlers and storeUnregister:
\* the swap-out policy may start writing the entry to disk, which fixes the
\* size of the swap metadata envelope.
SwapOutMay(x) ==
    IF x.swapSt = "NONE" /\ ~x.aborted
    THEN {x, [x EXCEPT !.swapSt = "WRITING", !.hdrKnown = TRUE]}
    ELSE {x}

\* StoreEntry::invokeHandlers in full: swapOut() first, then the readers.
\* The producer has just changed the entry to x.
NotifyReaders(x) ==
    \E y \in SwapOutMay(x), ch \in [Clients -> Choice] :
        /\ e' = y
        /\ cl' = invokeHandlers(y, ch)

\* Bytes the object really has so far: what reached memory, or the swap file
\* of an entry that was loaded from disk.
Existing == IF e.onDisk > e.endOff THEN e.onDisk ELSE e.endOff

NClients == Cardinality({c \in Clients : cl[c].st = "attached"})

\* MemObject::lowestMemReaderOffset, built on memReaderHasLowerOffset: the
\* lowest copyInto.offset of the memory readers; memory below it is kept.
LowestMemReaderOffset ==
    LET offs == {cl[c].off : c \in {d \in Clients : cl[d].st = "attached" /\ cl[d].type = "MEM"}}
    IN  IF offs = {} THEN Len ELSE CHOOSE o \in offs : \A p \in offs : o <= p

(***************************************************************************)
(* StoreEntry::storeClientType (store.cc): the types the store may give a *)
(* new client.  A disk client needs a swap file (the assertion in the     *)
(* store_client constructor); a memory client must find every byte from  *)
(* offset 0 in memory or still to be appended there.                      *)
(***************************************************************************)
AllowedTypes ==
    {t \in {"MEM", "DISK"} :
        \/ t = "DISK" /\ e.swapSt # "NONE"
        \/ t = "MEM" /\ e.inmemLo = 0 /\ (e.status = "PENDING" \/ e.endOff = e.objLen)}

----------------------------------------------------------------------------
(* The reader's operations on its store_client.                           *)

\* storeClientListAdd: a new store_client joins mem->clients.
storeClientListAdd(c) ==
    /\ cl[c].st = "none"
    /\ ~e.aborted
    /\ \E t \in AllowedTypes : cl' = [cl EXCEPT ![c].st = "attached", ![c].type = t]
    /\ UNCHANGED e

\* storeClientCopy / store_client::copy: the reader asks for the bytes that
\* follow those it holds.  The reader checks ENTRY_ABORTED first (copy()
\* asserts it) and stops asking after end-of-object or an error.
copy(c) ==
    /\ cl[c].st = "attached"
    /\ ~cl[c].pend /\ ~cl[c].eof /\ ~cl[c].err
    /\ ~e.aborted
    /\ \E ch \in Choice :
          cl' = [cl EXCEPT ![c] = storeClientCopy2(e, [@ EXCEPT !.pend = TRUE, !.off = cl[c].got], ch)]
    /\ UNCHANGED e

\* Bug variant: the event does not reset flags.copy_event_pending.
storeClientCopyEventKeepsFlag(c) ==
    /\ cl[c].st = "attached" /\ cl[c].ev
    /\ \E ch \in Choice :
          LET s == cl[c]
          IN  cl' = [cl EXCEPT ![c] = IF s.pend THEN storeClientCopy2(e, s, ch) ELSE s]
    /\ UNCHANGED e

\* storeClientCopyEvent: the deferred copy queued by a nested copy() runs.
storeClientCopyEvent(c) ==
    /\ cl[c].st = "attached" /\ cl[c].ev
    /\ \E ch \in Choice :
          LET s == [cl[c] EXCEPT !.ev = FALSE]
          IN  cl' = [cl EXCEPT ![c] = IF s.pend THEN storeClientCopy2(e, s, ch) ELSE s]
    /\ UNCHANGED e

(***************************************************************************)
(* store_client::readBody, the completion of a body read of n bytes (-1 on *)
(* an I/O error): bytes read from disk at the end of memory are copied    *)
(* back into memory before the reader is called back.                      *)
(***************************************************************************)
readBody(c, x, s, n) ==
    /\ e' = IF n > 0 /\ x.inmemLo = 0 /\ MemCacheDisk /\ s.off = x.endOff
            THEN [x EXCEPT !.endOff = s.off + n] ELSE x
    /\ cl' = [cl EXCEPT ![c] = Callback([s EXCEPT !.dio = "none"], n, FALSE)]

\* Bug variant: object_sz is set to the whole swap file size, envelope
\* included (the swap file holds the envelope plus the object).
readHeaderWholeFile(c, s, ioErr, body) ==
    LET t == [s EXCEPT !.dio = "none"]
        x == [e EXCEPT !.hdrKnown = TRUE, !.objLen = e.onDisk + 1]
    IN  IF ioErr \/ s.off # 0
        THEN /\ cl' = [cl EXCEPT ![c] = fail(t)]
             /\ UNCHANGED e
        ELSE IF s.off < body
        THEN readBody(c, x, t, Lesser(ReqLen, body))
        ELSE /\ cl' = [cl EXCEPT ![c] = fileRead(x, t)]
             /\ e' = x

\* store_client::readHeader and unpackHeader: the first read of a swap file
\* returns the metadata envelope and `body` bytes after it.  The envelope
\* only parses when the read started at file offset 0.
readHeader(c, s, ioErr, body) ==
    LET t == [s EXCEPT !.dio = "none"]
        x == [e EXCEPT !.hdrKnown = TRUE, !.objLen = e.onDisk]
    IN  IF ioErr \/ s.off # 0
        THEN /\ cl' = [cl EXCEPT ![c] = fail(t)]
             /\ UNCHANGED e
        ELSE IF s.off < body
        THEN readBody(c, x, t, Lesser(ReqLen, body))
        ELSE /\ cl' = [cl EXCEPT ![c] = fileRead(x, t)]
             /\ e' = x

\* A swap-in read issued by fileRead completes.
DiskReadDone(c) ==
    /\ cl[c].st = "attached" /\ cl[c].dio # "none"
    /\ \E ioErr \in BOOLEAN :
         IF cl[c].dio = "hdr"
         THEN \E body \in 0..Lesser(ReqLen, e.onDisk) : readHeader(c, cl[c], ioErr, body)
         ELSE readBody(c, e, cl[c], IF ioErr THEN -1 ELSE Lesser(ReqLen, e.onDisk - cl[c].off))

\* StoreEntry::abort (store.cc), as spec.md section 3 describes it: the
\* entry becomes STORE_OK and ENTRY_ABORTED with its length fixed.
Aborted(x) == [x EXCEPT !.aborted = TRUE, !.status = "OK", !.objLen = x.endOff]

(***************************************************************************)
(* What CheckQuickAbortIsReasonable reads besides the entry's length in   *)
(* memory: the request's flags and the reply's content_length + hdr_sz,   *)
(* which this model does not otherwise track.                             *)
(***************************************************************************)
QuickAbortInput ==
    [cachable: BOOLEAN, private: BOOLEAN,   \* flags.cachable, KEY_PRIVATE
     range: BOOLEAN, rangeLimit: {-1, 0},   \* request->range, getRangeOffsetLimit()
     expectlen: {-1} \cup 0..Len]           \* -1: nothing known of the reply

\* Whether the fetch should be aborted, by the early returns in the code's
\* order; curlen is mem->endOffset().
CheckQuickAbortIsReasonable(x, i) ==
    LET curlen == x.endOff
    IN  IF ~i.cachable THEN TRUE
        ELSE IF i.private THEN TRUE
        ELSE IF i.expectlen < 0 THEN TRUE
        ELSE IF QuickAbortMin < 0 THEN FALSE
        ELSE IF i.range /\ i.rangeLimit < 0 THEN FALSE
        ELSE IF curlen > i.expectlen THEN TRUE
        ELSE IF i.expectlen - curlen < QuickAbortMin * 1024 THEN FALSE
        ELSE IF i.expectlen - curlen > QuickAbortMax * 1024 THEN TRUE
        ELSE IF i.expectlen < 100 THEN FALSE
        ELSE IF curlen \div (i.expectlen \div 100) > QuickAbortPct THEN FALSE
        ELSE TRUE

\* CheckQuickAbort: with no reader left on a STORE_PENDING entry (the one
\* leaving is still counted here), abort() when it is reasonable.  No
\* store_client reads an ENTRY_SPECIAL entry that is still pending.
CheckQuickAbort(x, i) ==
    IF NClients = 1 /\ x.status = "PENDING" /\ CheckQuickAbortIsReasonable(x, i)
    THEN Aborted(x) ELSE x

(***************************************************************************)
(* storeUnregister: the reader leaves.  Its swap-in file is closed, a     *)
(* pending callback is failed, a queued copy event is dropped with the    *)
(* store_client's cbdata, and the last reader to leave a PENDING entry    *)
(* runs CheckQuickAbort.  abort() then calls invokeHandlers, which has no *)
(* reader left to call.                                                    *)
(***************************************************************************)
storeUnregister(c) ==
    /\ cl[c].st = "attached"
    /\ cl' = [cl EXCEPT ![c] = fail([@ EXCEPT !.st = "gone", !.sio = FALSE,
                                              !.dio = "none", !.ev = FALSE])]
    /\ \E y \in IF e.status = "OK" /\ e.swapSt # "DONE" THEN SwapOutMay(e) ELSE {e},
          i \in QuickAbortInput :
          e' = CheckQuickAbort(y, i)

----------------------------------------------------------------------------
(***************************************************************************)
(* The producer side (store.cc, store_swapout.cc, MemObject.cc), from     *)
(* spec.md sections 3 and 4.C.  The forwarding code appends the object a  *)
(* byte at a time; its first append carries the parsed reply headers and  *)
(* clears ENTRY_FWD_HDR_WAIT.  Every append, complete() and abort() ends  *)
(* in invokeHandlers.                                                      *)
(***************************************************************************)
storeAppend ==
    /\ e.status = "PENDING" /\ e.endOff < Len
    /\ NotifyReaders([e EXCEPT !.endOff = @ + 1, !.hdrWait = FALSE])

complete ==
    /\ e.status = "PENDING" /\ ~e.hdrWait /\ e.endOff > 0
    /\ NotifyReaders([e EXCEPT !.status = "OK", !.objLen = e.endOff])

abort ==
    /\ e.status = "PENDING" /\ ~e.hdrWait
    /\ NotifyReaders(Aborted(e))

\* storeSwapOut writes the next byte; a STORE_OK entry whose bytes are all
\* on disk finishes with SWAPOUT_DONE.
swapOutWrite ==
    /\ e.swapSt = "WRITING" /\ ~e.aborted
    /\ e.onDisk < e.endOff \/ e.status = "OK"
    /\ LET n == IF e.onDisk < e.endOff THEN e.onDisk + 1 ELSE e.onDisk
       IN  e' = [e EXCEPT !.onDisk = n,
                          !.swapSt = IF e.status = "OK" /\ n = e.endOff THEN "DONE" ELSE @]
    /\ UNCHANGED cl

\* MemObject::trimSwappable: memory is freed up to what is on disk and
\* below the lowest memory reader's offset.
trimSwappable ==
    /\ \E lo \in (e.inmemLo + 1)..Lesser(e.onDisk, LowestMemReaderOffset) :
          e' = [e EXCEPT !.inmemLo = lo]
    /\ UNCHANGED cl

----------------------------------------------------------------------------
NoClient ==
    [st |-> "none", type |-> "MEM", pend |-> FALSE, off |-> 0, dio |-> "none",
     ev |-> FALSE, sio |-> FALSE, ok |-> TRUE, got |-> 0, eof |-> FALSE,
     err |-> FALSE, bug |-> {}]

\* An entry being fetched (a miss), or one found on disk with no MemObject
\* data yet (a disk hit).
Init ==
    /\ e \in {[status |-> "PENDING", objLen |-> Unknown, endOff |-> 0, inmemLo |-> 0,
               swapSt |-> "NONE", onDisk |-> 0, hdrKnown |-> FALSE,
               hdrWait |-> TRUE, aborted |-> FALSE],
              [status |-> "OK", objLen |-> Unknown, endOff |-> 0, inmemLo |-> 0,
               swapSt |-> "DONE", onDisk |-> Len, hdrKnown |-> FALSE,
               hdrWait |-> FALSE, aborted |-> FALSE]}
    /\ cl = [c \in Clients |-> NoClient]

\* Every reader has left and the entry has nothing left to do.
Quiescent ==
    /\ \A c \in Clients : cl[c].st # "attached"
    /\ e.status = "OK" /\ (e.swapSt # "WRITING" \/ e.aborted)
    /\ UNCHANGED vars

Next ==
    \/ \E c \in Clients :
          \/ storeClientListAdd(c) \/ copy(c) \/ storeClientCopyEvent(c)
          \/ DiskReadDone(c) \/ storeUnregister(c)
    \/ storeAppend \/ complete \/ abort \/ swapOutWrite \/ trimSwappable
    \/ Quiescent

\* The event loop runs queued events and disk completions, and the server
\* side keeps reading until the object is complete.  Readers may stop at
\* any time and the server may abort, so those get no fairness.
Fairness ==
    /\ WF_vars(storeAppend \/ complete)
    /\ \A c \in Clients : WF_vars(storeClientCopyEvent(c)) /\ WF_vars(DiskReadDone(c))

Spec == Init /\ [][Next]_vars /\ Fairness

----------------------------------------------------------------------------
TypeOK == e \in EntryRec /\ cl \in [Clients -> ClientRec]

\* Lost wake-up: a reader whose copy is pending, with no disk read and no
\* copy event outstanding, is only ever waiting for bytes the producer has
\* not appended yet (or for the reply headers).  Otherwise nothing in
\* storeClientCopy2 / invokeHandlers will ever call it again.
NoStrandedReader ==
    \A c \in Clients :
        (cl[c].st = "attached" /\ cl[c].pend /\ cl[c].dio = "none" /\ ~cl[c].ev)
            => e.hdrWait \/ (e.status = "PENDING" /\ cl[c].off >= e.endOff)

\* The assertions of scheduleDiskRead (only a disk client reads the swap
\* file) and fileRead (a reader of an entry being swapped out only reads
\* bytes already written) hold, whatever memory trimming, swap-out and the
\* choice of client type did in between.
StoreAssertionsHold == \A c \in Clients : cl[c].bug = {}

\* A reader is only given bytes the object has, and it is told the object
\* ended (a 0-byte callback) only when the object is complete and it holds
\* every byte of it.
ReaderSeesWholeObject ==
    \A c \in Clients :
        /\ cl[c].got <= Existing
        /\ cl[c].eof => e.status = "OK" /\ cl[c].got = e.objLen

\* Every pending copy request of a reader that stays is eventually answered:
\* the reader is called back with new bytes, end-of-object or an error.
PendingCopyAnswered ==
    \A c \in Clients, k \in 0..Len :
        (cl[c].st = "attached" /\ cl[c].pend /\ cl[c].got = k)
            ~> (~cl[c].pend \/ cl[c].got # k \/ cl[c].st = "gone")
=============================================================================
