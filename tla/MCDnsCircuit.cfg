\* The TCP circuits to up to two nameservers: two queries need TCP, four
\* frames are handed out, up to four nsvc objects live at once (one per
\* frame, so allocation never runs out), and two reconfigurations
\* rebuild nameservers[] with one or two entries while
\* circuits of the old one are still connecting, writing or closing;
\* connects, writes and reads may fail.
CONSTANTS
    qa = qa  qb = qb
    NS <- MCNS
    Queries <- MCQueries
    MaxSends = 4
    MaxVCs = 4
    MaxReconf = 2
SPECIFICATION Spec
SYMMETRY MCSymmetry
INVARIANT TypeOK
INVARIANT WritesSerialised
INVARIANT NoDanglingSlot
