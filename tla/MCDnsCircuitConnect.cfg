\* A frame handed to a circuit whose connect fails.
CONSTANTS
    qa = qa  qb = qb
    NS <- MCNS
    Queries <- MCQueries
    MaxSends = 3
    MaxVCs = 1
    MaxReconf = 0
SPECIFICATION Spec
PROPERTY HandedFrameSettles
