\* A reconfiguration while a circuit to the second nameserver is still
\* connecting, with a new nameservers[] of one entry: the circuit connects,
\* writes its frame, and the nameserver answers it.
CONSTANTS
    qa = qa  qb = qb
    NS <- MCNS
    Queries <- MCQueries
    MaxSends = 2
    MaxVCs = 2
    MaxReconf = 1
SPECIFICATION Spec
INVARIANT ReadVCAssertHolds
