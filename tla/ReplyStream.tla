---------------------------- MODULE ReplyStream ----------------------------
(***************************************************************************)
(* The end of a reply on the client connection (src/client_side_reply.cc): *)
(* the keep-alive and chunking decision of buildReplyHeader, how the reply *)
(* context marks the stream complete (sendMoreData for HEAD,               *)
(* errorInStream / sendStreamError, pushStreamData), and replyStatus with  *)
(* checkTransferDone, storeOKTransferDone and storeNotOKTransferDone,      *)
(* which the client socket asks after every write to decide whether to     *)
(* read more, reuse the connection or close it.                           *)
(*                                                                         *)
(* The reply context is a store_client of the entry, so this module       *)
(* EXTENDS StoreClient: a reader's store_client record is what the reply  *)
(* context has been given, and the entry record is what the status check  *)
(* reads from the StoreEntry.  The status is a function of that state and *)
(* of what the request and the reply headers say (StreamInput), so it     *)
(* adds no variables: its properties are checked in every state the       *)
(* readers and the producer can reach.                                    *)
(***************************************************************************)
EXTENDS StoreClient

CONSTANT Hdr    \* reply->hdr_sz: the stored object starts with Hdr header bytes

ASSUME Hdr \in 1..(Len - 1)

(***************************************************************************)
(* What the request and the reply headers decide, abstracted to what the  *)
(* status check reads:                                                    *)
(*   method       GET, or HEAD (no body is forwarded)                     *)
(*   lengthKnown  the reply has a Content-Length; it then declares the    *)
(*                whole object, Len - Hdr body bytes                      *)
(*   pconnOK      none of the other rows of the keep-alive checklist      *)
(*                (error_pconns, client_pconns, shutting_down, connection *)
(*                auth, fdUsageHigh, bumped or pinned) forced a close     *)
(*   mayChunk     maySendChunkedReply: an HTTP/1.1 client, no multipart   *)
(*                range                                                   *)
(*   tooLarge     receivedBodyTooLarge: reply_body_max_size is exceeded   *)
(***************************************************************************)
StreamInput ==
    [method: {"GET", "HEAD"}, lengthKnown: BOOLEAN, pconnOK: BOOLEAN,
     mayChunk: BOOLEAN, tooLarge: BOOLEAN]

contentLength(i) == IF i.lengthKnown THEN Len - Hdr ELSE -1

\* HttpReply::bodySize: a HEAD reply has no body.
bodySize(i) == IF i.method = "HEAD" THEN 0 ELSE contentLength(i)

\* buildReplyHeader: the keep-alive checklist; an unknown body size only
\* keeps the connection when the reply can be chunked.
proxyKeepalive(i) == i.pconnOK /\ ~(bodySize(i) < 0 /\ ~i.mayChunk)

\* buildReplyHeader: "Transfer-Encoding: chunked" for a persistent reply of
\* unknown size.
chunkedReply(i) == i.mayChunk /\ proxyKeepalive(i) /\ bodySize(i) < 0

(***************************************************************************)
(* The reply context's view of reader s.  processReplyAccess sets         *)
(* headers_sz once the reply headers were parsed from the first bytes;    *)
(* pushStreamData hands the body on at result.offset - headers_sz, so     *)
(* out.offset counts body bytes written to the client; for HEAD           *)
(* sendMoreData sets done_copying and forwards no body.                   *)
(***************************************************************************)
headers_sz(s) == IF s.got >= Hdr THEN Hdr ELSE 0

outOffset(s, i) ==
    IF headers_sz(s) = 0 \/ i.method = "HEAD" THEN 0 ELSE s.got - headers_sz(s)

done_copying(s, i) == headers_sz(s) # 0 /\ i.method = "HEAD"

\* flags.complete: set for HEAD by sendMoreData, and by sendStreamError when
\* errorInStream sees the 0-byte end-of-object result or a read error.
flagsComplete(s, i) == done_copying(s, i) \/ s.eof \/ s.err

\* ClientHttpRequest::gotEnough: the body the reply declares was written.
gotEnough(s, i) == outOffset(s, i) >= bodySize(i)

\* Bug variant: the entry's length is compared with the headers counted in.
storeOKTransferDoneWithHeaders(x, s, i) == outOffset(s, i) >= x.objLen

storeOKTransferDone(x, s, i) == outOffset(s, i) >= x.objLen - headers_sz(s)

\* out.size counts the header bytes written as well (out.headers_sz, here
\* as many as were stored).
storeNotOKTransferDone(x, s, i) ==
    IF headers_sz(s) = 0 THEN FALSE
    ELSE IF contentLength(i) < 0 THEN FALSE
    ELSE Hdr + outOffset(s, i) >= contentLength(i) + Hdr

checkTransferDone(x, s, i) ==
    IF done_copying(s, i) THEN TRUE
    ELSE IF chunkedReply(i) /\ ~flagsComplete(s, i) THEN FALSE
    ELSE IF x.status = "OK" THEN storeOKTransferDone(x, s, i)
    ELSE storeNotOKTransferDone(x, s, i)

\* Bug variant: a finished transfer is taken as complete without asking
\* whether the client got the body the reply declared.
replyStatusNoGotEnough(x, s, i) ==
    LET done == checkTransferDone(x, s, i)
        expectedBodySize == bodySize(i)
    IN  IF x.aborted THEN "STREAM_FAILED"
        ELSE IF done \/ flagsComplete(s, i)
        THEN IF ~proxyKeepalive(i) /\ expectedBodySize < 0 THEN "STREAM_FAILED"
             ELSE IF ~done THEN "STREAM_FAILED"
             ELSE IF proxyKeepalive(i) THEN "STREAM_COMPLETE"
             ELSE "STREAM_UNPLANNED_COMPLETE"
        ELSE IF i.tooLarge THEN "STREAM_FAILED"
        ELSE "STREAM_NONE"

\* clientReplyContext::replyStatus, for a reply context that still holds
\* its entry.
replyStatus(x, s, i) ==
    LET done == checkTransferDone(x, s, i)
        expectedBodySize == bodySize(i)
    IN  IF x.aborted THEN "STREAM_FAILED"
        ELSE IF done \/ flagsComplete(s, i)
        THEN IF ~proxyKeepalive(i) /\ expectedBodySize < 0 THEN "STREAM_FAILED"
             ELSE IF ~done THEN "STREAM_FAILED"
             ELSE IF expectedBodySize >= 0 /\ ~gotEnough(s, i)
                  THEN "STREAM_UNPLANNED_COMPLETE"
             ELSE IF proxyKeepalive(i) THEN "STREAM_COMPLETE"
             ELSE "STREAM_UNPLANNED_COMPLETE"
        ELSE IF i.tooLarge THEN "STREAM_FAILED"
        ELSE "STREAM_NONE"

----------------------------------------------------------------------------
\* The client socket asks for the status once the reply headers were
\* written, i.e. once the reply context parsed them.
Asked(c) == cl[c].st = "attached" /\ headers_sz(cl[c]) # 0

\* Reference framing of HTTP: the whole response reached the client when
\* the body it declares was written, or, with no declared length, when
\* every byte of the complete object was.
DeliveredWhole(x, s, i) ==
    IF bodySize(i) >= 0 THEN outOffset(s, i) = bodySize(i)
    ELSE x.status = "OK" /\ ~x.aborted /\ s.got = x.objLen

\* replyStatus only answers STREAM_COMPLETE, which makes the client socket
\* keep the connection for the next request, when the whole response was
\* written: not when the entry was completed short of its Content-Length,
\* nor when a swap-in read failed half way.  Anything else leaves the
\* client reading a truncated body followed by the next reply.
KeepAliveOnlyAfterWholeReply ==
    \A c \in Clients, i \in StreamInput :
        Asked(c) /\ replyStatus(e, cl[c], i) = "STREAM_COMPLETE"
            => DeliveredWhole(e, cl[c], i)

\* A persistent reply whose reader got the whole object and its end (the
\* 0-byte result), from an entry the server did not abort (replyStatus
\* closes on ENTRY_ABORTED whatever was written), is STREAM_COMPLETE: the status check does not close a
\* connection that could be kept, nor leave it waiting (STREAM_NONE) for
\* data that will never come.
WholeReplyKeepsConnection ==
    \A c \in Clients, i \in StreamInput :
        (Asked(c) /\ cl[c].eof /\ ~e.aborted /\ proxyKeepalive(i) /\ ~i.tooLarge
         /\ DeliveredWhole(e, cl[c], i))
            => replyStatus(e, cl[c], i) = "STREAM_COMPLETE"
=============================================================================
