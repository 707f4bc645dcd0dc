\* Two readers of a three-byte entry, fetched or found on disk: safety
\* under every interleaving, and every pending copy answered.
CONSTANTS
    c1 = c1
    c2 = c2
    Clients <- MCClients
    Len = 3
    ReqLen = 2
    MemCacheDisk = TRUE
    QuickAbortMin = 0
    QuickAbortMax = 0
    QuickAbortPct = 95
    Hdr = 1
SPECIFICATION Spec
INVARIANT TypeOK
INVARIANT NoStrandedReader
INVARIANT StoreAssertionsHold
INVARIANT ReaderSeesWholeObject
INVARIANT KeepAliveOnlyAfterWholeReply
INVARIANT WholeReplyKeepsConnection
PROPERTY PendingCopyAnswered
