\* The revalidation of a stale hit whose IMS request is aborted.
CONSTANTS
    Methods <- MCMethods
    MaxEntries = 3
SPECIFICATION Spec
INVARIANT NoNullDeref
