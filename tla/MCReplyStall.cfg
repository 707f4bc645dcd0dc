\* Conditional requests on a fresh hit: every request gets an answer.
CONSTANTS
    Methods <- MCMethods
    MaxEntries = 3
SPECIFICATION Spec
INVARIANT NoStall
