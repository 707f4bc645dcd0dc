---------------------------- MODULE ReplyContext ----------------------------
(***************************************************************************)
(* clientReplyContext (src/client_side_reply.cc): the store logic that    *)
(* turns one client request into a reply.  It looks the URL up in the     *)
(* store, reads a hit, revalidates a stale hit with an IMS request        *)
(* (saveState / restoreState), answers conditional requests, handles      *)
(* PURGE through the lookingforstore steps, fetches a miss, and checks    *)
(* http_reply_access before the headers go downstream.                    *)
(*                                                                         *)
(* Each action is one entry point run to its end by the event loop: the   *)
(* downstream node asking for data (clientGetMoreData), a store lookup    *)
(* answering (created), a store client callback (CacheHit,                *)
(* HandleIMSReply, SendMoreData), the reply ACL answering, and the        *)
(* destructor when the client side goes away.  The synchronous chain of   *)
(* calls an entry point makes is a chain of operators on a state record.  *)
(* What the store, the forwarder and the ACLs report is an input chosen   *)
(* by \E; entries are numbers: Null, the cached GET and HEAD objects, and *)
(* the entries the context creates.                                       *)
(***************************************************************************)
EXTENDS Integers, FiniteSets

CONSTANTS
    Methods,     \* request methods: a subset of {"GET", "HEAD", "PURGE"}
    MaxEntries   \* store entries one request may create

VARIABLES
    req,   \* the request and configuration, fixed for the behaviour
    ctx    \* the clientReplyContext and its store references

vars == <<req, ctx>>

Null == 0
PubGet == 1
PubHead == 2
Fresh == 3 .. 2 + MaxEntries
Ent == {PubGet, PubHead} \cup Fresh

\* What a callback is awaited: a store lookup, a store client copy with
\* one of three handlers, the reply ACL, or the downstream node.
Pending == {"none", "lookup", "CacheHit", "HandleIMSReply", "SendMoreData", "acl", "client"}
LogTypes == {"NONE", "HIT", "MISS", "DENIED", "DENIED_REPLY", "OTHER"}

Req == [method: Methods, ims: BOOLEAN, ifMatch: BOOLEAN, ifNoneMatch: BOOLEAN,
        noCache: BOOLEAN, onlyIfCached: BOOLEAN, cachable: BOOLEAN,
        redirect: BOOLEAN, enablePurge: BOOLEAN]

(***************************************************************************)
(* The context.  cur is http->storeEntry(), sc the entry of its store     *)
(* client, oe and os old_entry and old_sc; locks[e] counts the locks the  *)
(* context holds on e and regs the entries it has a store client on;      *)
(* lfs is lookingforstore; slc, hs and complete are the flags             *)
(* storelogiccomplete, headersSent and complete; reply is the cloned      *)
(* reply; reqofs is 0 or 1 (positive), oreqofs its saved value; bug    *)
(* records a failed assert() and crashed a NULL dereference.              *)
(***************************************************************************)
InitCtx ==
    [alive |-> TRUE, pend |-> "client", cur |-> Null, sc |-> Null, oe |-> Null, os |-> Null,
     locks |-> [e \in Ent |-> 0], regs |-> {}, nent |-> 0, pub |-> {"GET", "HEAD"},
     lfs |-> 0, slc |-> FALSE, hs |-> FALSE, complete |-> FALSE, reply |-> FALSE,
     reqofs |-> 0, oreqofs |-> 0, purging |-> FALSE, ims |-> FALSE, varied |-> FALSE,
     logType |-> "NONE", bug |-> FALSE, crashed |-> FALSE]

Commit(s) == s.nent <= MaxEntries /\ ctx' = s /\ UNCHANGED req

Await(s, p) == [s EXCEPT !.pend = p]

\* clientReplyContext::removeStoreReference(&sc, &http->storeEntry()):
\* only when the entry pointer is set are the store client unregistered
\* and the entry unlocked.
removeClientStoreReference(s) ==
    IF s.cur = Null THEN s
    ELSE [s EXCEPT !.regs = @ \ {s.sc}, !.locks[s.cur] = @ - 1, !.cur = Null, !.sc = Null]

\* removeStoreReference(&old_sc, &old_entry).
removeOldStoreReference(s) ==
    IF s.oe = Null THEN s
    ELSE [s EXCEPT !.regs = @ \ {s.os}, !.locks[s.oe] = @ - 1, !.oe = Null, !.os = Null]

\* storeCreateEntry (which locks the entry) and storeClientListAdd.
storeCreateEntry(s) ==
    LET e == 3 + s.nent
    IN  [s EXCEPT !.nent = @ + 1, !.locks = [@ EXCEPT ![e] = 1], !.regs = @ \cup {e},
                  !.cur = e, !.sc = e]

\* clientReplyContext::createStoreEntry: a new entry whose reply the
\* context itself fills; the previous http->storeEntry() is overwritten.
createStoreEntry(s) ==
    [storeCreateEntry(s) EXCEPT !.reqofs = 0, !.slc = TRUE]

\* triggerInitialStoreRead: assert(reqofs == 0), then copy to SendMoreData.
triggerInitialStoreRead(s) ==
    Await([s EXCEPT !.bug = @ \/ s.reqofs # 0], "SendMoreData")

\* startError: an error page in a new entry, read from the start.
startError(s) == triggerInitialStoreRead(createStoreEntry(s))

\* saveState: assert(old_sc == NULL), keep the hit aside.
saveState(s) ==
    [s EXCEPT !.bug = @ \/ s.os # Null, !.oe = s.cur, !.os = s.sc,
              !.oreqofs = s.reqofs, !.cur = Null, !.sc = Null, !.reqofs = 0]

\* Bug variant: the IMS entry is not released.
restoreStateKeepsImsEntry(s) ==
    [s EXCEPT !.bug = @ \/ s.os = Null, !.cur = s.oe, !.sc = s.os, !.reqofs = s.oreqofs,
              !.oe = Null, !.os = Null, !.oreqofs = 0]

\* restoreState: assert(old_sc != NULL), drop the IMS entry, put the hit back.
restoreState(s) ==
    LET s1 == removeClientStoreReference([s EXCEPT !.bug = @ \/ s.os = Null])
    IN  [s1 EXCEPT !.cur = s.oe, !.sc = s.os, !.reqofs = s.oreqofs, !.oe = Null, !.os = Null,
                   !.oreqofs = 0]

\* Startup of a reply that failed http_reply_access or is too large:
\* drop the store reference and the cloned reply, start an error.
replyError(s, logType) ==
    startError([removeClientStoreReference(s) EXCEPT !.logType = logType, !.reply = FALSE])

\* processReplyAccessResult: a denied reply becomes an error page; an
\* allowed one sends its headers (once) and what body there is downstream.
processReplyAccessResult(s, allowed) ==
    IF ~allowed THEN replyError(s, "DENIED_REPLY")
    ELSE Await([s EXCEPT !.bug = @ \/ s.hs, !.hs = TRUE,
                         !.complete = @ \/ req.method = "HEAD"], "client")

\* processReplyAccess(acc): assert(reply); our own denials and replies
\* whose status is always allowed, or no http_reply_access configured,
\* pass at once ("allow"); a reply over reply_body_max_size ("tooLarge")
\* is refused; otherwise the ACL check answers later ("acl").
processReplyAccess(s, acc) ==
    LET s1 == [s EXCEPT !.bug = @ \/ ~s.reply]
    IN  IF s.logType \in {"DENIED", "DENIED_REPLY"} \/ acc = "allow"
        THEN processReplyAccessResult(s1, TRUE)
        ELSE IF acc = "tooLarge" THEN replyError(s1, "DENIED_REPLY")
        ELSE Await(s1, "acl")

\* Bug variant: headersSent is not tested.
sendMoreDataNoHeadersCheck(s, res, acc) ==
    LET s1 == [s EXCEPT !.slc = TRUE, !.reqofs = IF res = "data" THEN 1 ELSE @]
    IN  IF res = "error" \/ s1.reqofs = 0
        THEN Await([s1 EXCEPT !.complete = TRUE], "client")
        ELSE processReplyAccess([s1 EXCEPT !.bug = @ \/ s1.reply, !.reply = TRUE], acc)

\* sendMoreData(res, acc): count the new bytes; an error, abort or an EOF
\* before any byte ends the stream; after the headers data is pushed (an
\* empty result completes the reply); the first data clones the reply
\* (assert(reply == NULL)) and goes through http_reply_access.
sendMoreData(s, res, acc) ==
    LET s1 == [s EXCEPT !.slc = TRUE, !.reqofs = IF res = "data" THEN 1 ELSE @]
    IN  IF res = "error" \/ s1.reqofs = 0
        THEN Await([s1 EXCEPT !.complete = TRUE], "client")
        ELSE IF s1.hs
        THEN Await([s1 EXCEPT !.complete = @ \/ res = "eof"], "client")
        ELSE processReplyAccess([s1 EXCEPT !.bug = @ \/ s1.reply, !.reply = TRUE], acc)

\* purgeRequest: refuse when PURGE is disabled; look the GET object up,
\* or, when a purge lookup already ran, go to purgeDoMissPurge.
purgeRequest(s) ==
    IF ~req.enablePurge THEN startError([s EXCEPT !.logType = "DENIED"])
    ELSE IF ~s.purging THEN Await([s EXCEPT !.purging = TRUE, !.lfs = 1], "lookup")
    ELSE Await([s EXCEPT !.logType = "MISS", !.lfs = 3], "lookup")

\* processOnlyIfCachedMiss: 504 for only-if-cached.
processOnlyIfCachedMiss(s) == startError(removeClientStoreReference(s))

\* processMiss: drop a left-over entry; PURGE and only-if-cached go their
\* own way; otherwise a new entry is fetched (or filled with a redirect
\* or a loop error) and read from the start.
processMiss(s) ==
    LET s1 == removeClientStoreReference(s)
    IN  IF req.method = "PURGE" THEN purgeRequest(s1)
        ELSE IF req.onlyIfCached THEN processOnlyIfCachedMiss(s1)
        ELSE triggerInitialStoreRead(createStoreEntry(s1))

\* doGetMoreData: a hit is locked, a store client added
\* (assert(logType == LOG_TCP_HIT)) and its headers read; else a miss.
doGetMoreData(s) ==
    IF s.cur # Null
    THEN Await([s EXCEPT !.locks[s.cur] = @ + 1, !.regs = @ \cup {s.cur}, !.sc = s.cur,
                         !.bug = @ \/ s.logType # "HIT", !.reqofs = 0], "CacheHit")
    ELSE processMiss(s)

\* identifyFoundObject(e): what the lookup found, unless a redirect, an
\* entry not valid to send or no-cache turns it into a miss.  The entry
\* is not locked here.
identifyFoundObject(s, e, valid, special) ==
    LET s1 == [s EXCEPT !.cur = e]
    IN  doGetMoreData(
          IF e = Null THEN [s1 EXCEPT !.logType = "MISS"]
          ELSE IF req.redirect THEN [s1 EXCEPT !.cur = Null, !.logType = "OTHER"]
          ELSE IF ~valid THEN [s1 EXCEPT !.cur = Null, !.logType = "MISS"]
          ELSE IF special THEN [s1 EXCEPT !.logType = "HIT"]
          ELSE IF req.noCache THEN [s1 EXCEPT !.cur = Null, !.logType = "OTHER"]
          ELSE [s1 EXCEPT !.logType = "HIT"])

\* clientGetMoreData: once the store logic is complete, copy more of the
\* entry; PURGE purges; otherwise identifyStoreObject looks the request
\* up (cachable) or treats it as not found.
clientGetMoreData(s) ==
    IF s.slc THEN Await(s, "SendMoreData")
    ELSE IF req.method = "PURGE" THEN purgeRequest(s)
    ELSE IF req.cachable THEN Await([s EXCEPT !.lfs = 5], "lookup")
    ELSE identifyFoundObject(s, Null, TRUE, FALSE)

\* purgeFoundObject(e): a special entry may not be purged; otherwise
\* lock it, add a store client and read its headers into cacheHit.
purgeFoundObject(s, e, special) ==
    IF special THEN startError([s EXCEPT !.logType = "DENIED"])
    ELSE Await([s EXCEPT !.cur = e, !.locks[e] = @ + 1, !.regs = @ \cup {e}, !.sc = e,
                         !.logType = "HIT", !.reqofs = 0], "CacheHit")

\* purgeDoPurgeHead: release the HEAD object; the 200 or 404 reply is
\* written to a new entry and read from the start.
purgeDoPurgeHead(s) ==
    triggerInitialStoreRead(createStoreEntry([s EXCEPT !.pub = @ \ {"HEAD"}]))

\* purgeDoMissPurge: look up the GET object again, now to release it.
purgeDoMissPurge(s) == Await([s EXCEPT !.logType = "MISS", !.lfs = 3], "lookup")

\* created(newEntry): the store lookup answers; lookingforstore says
\* which step of PURGE or identifyStoreObject asked.
created(s, valid, special) ==
    CASE s.lfs = 1 -> IF "GET" \notin s.pub THEN Await([s EXCEPT !.lfs = 2], "lookup")
                      ELSE purgeFoundObject(s, PubGet, special)
      [] s.lfs = 2 -> IF "HEAD" \notin s.pub THEN purgeDoMissPurge(s)
                      ELSE purgeFoundObject(s, PubHead, special)
      [] s.lfs = 3 -> Await([s EXCEPT !.pub = @ \ {"GET"}, !.lfs = 4], "lookup")
      [] s.lfs = 4 -> purgeDoPurgeHead(s)
      [] s.lfs = 5 -> identifyFoundObject(s, IF "GET" \in s.pub THEN PubGet ELSE Null,
                                          valid, special)
      [] OTHER -> s

\* sendNotModified: a 304 made from the hit, in a new entry.
sendNotModified(s) ==
    triggerInitialStoreRead(createStoreEntry([removeClientStoreReference(s)
                                              EXCEPT !.logType = "OTHER"]))

\* sendPreconditionFailedError: a 412 error page.
sendPreconditionFailedError(s) == replyError(s, "HIT")

sendNotModifiedOrPreconditionFailedError(s) ==
    IF req.method \in {"GET", "HEAD"} THEN sendNotModified(s)
    ELSE sendPreconditionFailedError(s)

\* processConditional: a hit that is not a 200 is a miss; If-Match,
\* If-None-Match and If-Modified-Since are evaluated against the hit:
\* matchOk and inmOk say whether its entity tag matches the If-Match and
\* If-None-Match lists, modified whether it changed since the IMS date.
processConditional(s, h) ==
    IF h.not200 THEN processMiss([s EXCEPT !.logType = "MISS"])
    ELSE IF req.ifMatch /\ ~h.matchOk THEN sendPreconditionFailedError(s)
    ELSE IF req.ifNoneMatch /\ ~h.inmOk
         THEN sendMoreData([s EXCEPT !.ims = FALSE, !.logType = "MISS"], "data", h.acc)
    ELSE IF req.ifNoneMatch /\ ~s.ims THEN sendNotModifiedOrPreconditionFailedError(s)
    ELSE IF s.ims /\ h.modified THEN sendMoreData([s EXCEPT !.logType = "OTHER"], "data", h.acc)
    ELSE IF s.ims /\ req.ifNoneMatch THEN sendNotModifiedOrPreconditionFailedError(s)
    ELSE IF s.ims THEN sendNotModified(s)
    ELSE s

\* Bug variant: the IMS entry is created before the hit is saved.
processExpiredSavesLate(s) ==
    IF req.onlyIfCached THEN processOnlyIfCachedMiss(s)
    ELSE Await(saveState(storeCreateEntry(s)), "HandleIMSReply")

\* processExpired: only-if-cached gets a 504; otherwise the hit is saved
\* and an IMS request is forwarded into a new entry read by
\* HandleIMSReply; request->lastmod is read from old_entry.
processExpired(s) ==
    IF req.onlyIfCached THEN processOnlyIfCachedMiss(s)
    ELSE LET s1 == saveState(s)
         IN  Await(storeCreateEntry(s1), "HandleIMSReply")

\* cacheHit(res): the headers of a hit.  A swap-in failure or an empty
\* read is a miss; a Vary mismatch drops the entry and looks the request
\* up again (varyEvaluateMatch gives it once); PURGE purges; a negative
\* hit is sent; a stale hit is revalidated when it can be (Last-Modified
\* known, no client no-cache, HTTP), else fetched; a conditional request
\* is processed; otherwise the hit is sent.
cacheHit(s, h) ==
    IF s.cur = Null THEN s
    ELSE IF h.res = "error" THEN processMiss([removeClientStoreReference(s) EXCEPT !.logType = "OTHER"])
    ELSE IF h.res = "eof" THEN processMiss([s EXCEPT !.logType = "MISS"])
    ELSE LET s1 == [s EXCEPT !.bug = @ \/ s.logType # "HIT"]
         IN  IF h.vary = "other" /\ ~s.varied
             THEN clientGetMoreData([removeClientStoreReference(s1) EXCEPT !.varied = TRUE])
             ELSE IF h.vary = "cancel" THEN processMiss(s1)
             ELSE IF req.method = "PURGE" THEN purgeRequest(removeClientStoreReference(s1))
             ELSE IF h.negative THEN sendMoreData([s1 EXCEPT !.logType = "OTHER"], "data", h.acc)
             ELSE IF h.stale
             THEN IF ~h.lastmod \/ req.noCache \/ ~h.http
                  THEN processMiss([s1 EXCEPT !.logType = "OTHER"])
                  ELSE processExpired(s1)
             ELSE IF s1.ims \/ req.ifMatch \/ req.ifNoneMatch
             THEN processConditional(s1, h)
             ELSE sendMoreData(s1, "data", h.acc)

\* Bug variant: the saved hit is kept.
sendClientUpstreamResponseKeepsOld(s, acc) ==
    sendMoreData([s EXCEPT !.reqofs = 0, !.oreqofs = 0], "data", acc)

\* sendClientUpstreamResponse: forward what the IMS request brought;
\* the saved hit is released.
sendClientUpstreamResponse(s, acc) ==
    sendMoreData([removeOldStoreReference(s) EXCEPT !.reqofs = 0, !.oreqofs = 0], "data", acc)

\* sendClientOldEntry: restore the hit and send it.
sendClientOldEntry(s, acc) ==
    sendMoreData([restoreState(s) EXCEPT !.reqofs = 0], "data", acc)

\* handleIMSReply(m): the reply to the revalidation.  An aborted IMS
\* request sends the old entry, then falls through to read
\* old_entry->getReply(), which restoreState has just set to NULL.  A 304
\* keeps the hit (or is forwarded when the client's own IMS is satisfied);
\* another non-error reply replaces it; an error keeps the hit unless
\* fail_on_validation_err is set.
handleIMSReply(s, m) ==
    LET s1 == IF m.aborted THEN sendClientOldEntry(s, m.acc) ELSE s
        s2 == [s1 EXCEPT !.crashed = s1.oe = Null]
    IN  IF s2.crashed THEN s2
        ELSE IF m.status = 304
        THEN IF s2.ims /\ ~m.modified THEN sendClientUpstreamResponse(s2, m.acc)
             ELSE sendClientOldEntry(s2, m.acc)
        ELSE IF m.status = 200 \/ m.failOnError THEN sendClientUpstreamResponse(s2, m.acc)
        ELSE sendClientOldEntry(s2, m.acc)

(***************************************************************************)
(* Inputs: what the store, the forwarder and the ACLs report.  Each set   *)
(* varies only the fields the branch it leads to reads.                    *)
(***************************************************************************)
Acc == {"allow", "tooLarge", "acl"}

NoHit == [res |-> "data", vary |-> "none", negative |-> FALSE, stale |-> FALSE,
          lastmod |-> TRUE, http |-> TRUE, not200 |-> FALSE, matchOk |-> TRUE,
          inmOk |-> TRUE, modified |-> FALSE, acc |-> "allow"]

HitResults ==
    {[NoHit EXCEPT !.res = r] : r \in {"error", "eof"}}
    \cup {[NoHit EXCEPT !.vary = v] : v \in {"other", "cancel"}}
    \cup {[NoHit EXCEPT !.negative = TRUE, !.acc = a] : a \in Acc}
    \cup {[NoHit EXCEPT !.stale = TRUE, !.lastmod = l, !.http = p] : l, p \in BOOLEAN}
    \cup {[NoHit EXCEPT !.not200 = n, !.matchOk = mo, !.inmOk = io, !.modified = md, !.acc = a] :
            n, mo, io, md \in BOOLEAN, a \in Acc}

ImsResults ==
    [aborted: BOOLEAN, status: {304, 200, 500}, modified: BOOLEAN, failOnError: BOOLEAN,
     acc: Acc]

(***************************************************************************)
(* Actions                                                                 *)
(***************************************************************************)
Live == ctx.alive /\ ~ctx.crashed

\* Handler entry: the awaited callback has come.
Take(p) == Live /\ ctx.pend = p

Taken == Await(ctx, "none")

\* The downstream node asks for data (clientGetMoreData).
GetMoreData ==
    /\ Take("client") /\ ~ctx.complete
    /\ Commit(clientGetMoreData(Taken))

\* StoreEntry::getPublicByRequest(Method) calls back created().
Created ==
    /\ Take("lookup")
    /\ \E valid, special \in BOOLEAN : Commit(created(Taken, valid, special))

\* storeClientCopy calls back CacheHit with the hit's headers.
CacheHit ==
    /\ Take("CacheHit")
    /\ \E h \in HitResults : Commit(cacheHit(Taken, h))

\* storeClientCopy calls back HandleIMSReply on the IMS entry.
HandleIMSReply ==
    /\ Take("HandleIMSReply")
    /\ \E m \in ImsResults : Commit(handleIMSReply(Taken, m))

\* storeClientCopy calls back SendMoreData.
SendMoreData ==
    /\ Take("SendMoreData")
    /\ \E res \in {"data", "eof", "error"}, acc \in Acc : Commit(sendMoreData(Taken, res, acc))

\* The http_reply_access check answers (ProcessReplyAccessResult).
ProcessReplyAccessResult ==
    /\ Take("acl")
    /\ \E allowed \in BOOLEAN : Commit(processReplyAccessResult(Taken, allowed))

\* ~clientReplyContext: the request is done or its connection closed;
\* both store references are released.
Destroy ==
    /\ Live
    /\ Commit([removeOldStoreReference(removeClientStoreReference(ctx))
                   EXCEPT !.alive = FALSE, !.pend = "none"])

\* The context is gone, or squid died.
Ended == ~Live /\ UNCHANGED vars

Init ==
    /\ req \in [method: Methods, ims: BOOLEAN, ifMatch: BOOLEAN, ifNoneMatch: BOOLEAN,
                noCache: BOOLEAN, onlyIfCached: BOOLEAN, cachable: BOOLEAN,
                redirect: BOOLEAN, enablePurge: BOOLEAN]
    /\ ctx = [InitCtx EXCEPT !.ims = req.ims]

Next ==
    \/ GetMoreData \/ Created \/ CacheHit \/ HandleIMSReply \/ SendMoreData
    \/ ProcessReplyAccessResult \/ Destroy \/ Ended

Spec == Init /\ [][Next]_vars

(***************************************************************************)
(* Properties                                                              *)
(***************************************************************************)
TypeOK ==
    /\ req \in Req
    /\ ctx.pend \in Pending /\ ctx.logType \in LogTypes
    /\ {ctx.cur, ctx.sc, ctx.os} \subseteq Ent \cup {Null}
    \* old_entry only ever holds a cached object
    /\ ctx.oe \in {Null, PubGet, PubHead}
    /\ ctx.locks \in [Ent -> 0..2] /\ ctx.regs \subseteq Ent
    /\ ctx.nent \in 0..MaxEntries /\ ctx.lfs \in 0..5
    /\ ctx.reqofs \in {0, 1} /\ ctx.oreqofs \in {0, 1}

\* No assert() of the reply context fails: saveState and restoreState
\* pair up, cacheHit and doGetMoreData only see LOG_TCP_HIT, the initial
\* store read starts at 0, the reply is cloned once, headers go once.
ReplyAssertionsHold == ~ctx.bug

\* Every store entry the context locked is unlocked exactly once and
\* every store client it added is removed: while it lives it holds one
\* lock and one store client on http->storeEntry() and on old_entry, and
\* nothing else; after the destructor it holds nothing.
StoreReferencesBalanced ==
    ~ctx.crashed =>
        \A e \in Ent :
            /\ ctx.locks[e] = IF ctx.alive /\ e \in {ctx.cur, ctx.oe} THEN 1 ELSE 0
            /\ (e \in ctx.regs) = (ctx.alive /\ e \in {ctx.sc, ctx.os})

\* The hit saved by saveState (old_entry, old_sc) exists only while the
\* IMS reply is awaited, and only next to the IMS entry.
SavedHitOnlyDuringRevalidation ==
    (ctx.oe # Null \/ ctx.os # Null) =>
        /\ ctx.oe = ctx.os
        /\ ctx.cur \in Fresh /\ ctx.pend = "HandleIMSReply"

\* handleIMSReply never dereferences a NULL old_entry.
NoNullDeref == ~ctx.crashed

\* A live context always has something that will call it again: a store
\* lookup, a store client copy, the ACL check, or the downstream node.
NoStall == Live => ctx.pend # "none"
=============================================================================
