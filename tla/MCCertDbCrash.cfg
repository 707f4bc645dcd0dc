\* Certificate database with ssl_crtd processes dying mid-operation: three
\* names, versions of one and three blocks, max_db_size 2, size_t modulo 8.
CONSTANTS
    a = a  b = b  c = c  v1 = v1  v2 = v2  NoCert = NoCert
    Names <- MCNames
    Versions <- MCVersions
    CertBlocks <- MCCertBlocks
    MaxDbSize = 2
    SizeMod = 8
    Crashes = TRUE
SPECIFICATION Spec
SYMMETRY MCSymmetry
INVARIANT NotWedged
