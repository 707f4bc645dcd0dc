\* Certificate database, no crashes: three names, versions of one and three
\* blocks, max_db_size of two blocks, size_t modulo 8; every write may fail.
CONSTANTS
    a = a  b = b  c = c  v1 = v1  v2 = v2  NoCert = NoCert
    Names <- MCNames
    Versions <- MCVersions
    CertBlocks <- MCCertBlocks
    MaxDbSize = 2
    SizeMod = 8
    Crashes = FALSE
SPECIFICATION Spec
SYMMETRY MCSymmetry
INVARIANT TypeOK
INVARIANT SizeAccounted
INVARIANT DbSizeBounded
INVARIANT CertsServable
INVARIANT NotWedged
