\* The resolver, safety and liveness: two callers of one name (which is
\* unqualified, so the search path is used), A and AAAA, one search domain,
\* one nameserver, two query ids; answers lost, late, duplicated or
\* truncated, up to two datagrams. No symmetry: AllAnswered is temporal.
CONSTANTS
    c1 = c1  c2 = c2  n1 = n1
    Callers <- MCCallers2
    Names <- MCNames
    Unqualified = {n1}
    NPC = 1
    NNS = 1
    IdSpace = 2
    Retransmit = 1
    QueryTimeout = 2
    LookupBy = 0
    MaxTime = 15
    MaxReplies = 2
    EnableIpv6 = TRUE
SPECIFICATION Spec
INVARIANT TypeOK
INVARIANT CallerNotForgotten
INVARIANT UniquePendingIds
INVARIANT AnswersMatchQuestion
INVARIANT MergedAnswersForOneName
PROPERTY AllAnswered
PROPERTY ImplementsLookup
