\* Every request a client can send (GET, HEAD or PURGE, with every mix of
\* IMS, If-Match, If-None-Match, no-cache, only-if-cached, cachability,
\* redirect and enable_purge) against every store, forwarder and ACL
\* answer, with the client side leaving at any point.
CONSTANTS
    Methods <- MCMethods
    MaxEntries = 3
SPECIFICATION Spec
INVARIANTS
    TypeOK
    ReplyAssertionsHold
    StoreReferencesBalanced
    SavedHitOnlyDuringRevalidation
