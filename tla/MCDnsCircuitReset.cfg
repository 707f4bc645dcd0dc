\* Two queries handed to one circuit before its first write completes.
CONSTANTS
    qa = qa  qb = qb
    NS <- MCNS
    Queries <- MCQueries
    MaxSends = 3
    MaxVCs = 1
    MaxReconf = 0
SPECIFICATION Spec
INVARIANT QueuedFrameNotDropped
