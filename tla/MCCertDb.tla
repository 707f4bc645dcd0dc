------------------------------ MODULE MCCertDb ------------------------------
(***************************************************************************)
(* CertDb for TLC: three host names, two certificate versions of one and  *)
(* three blocks, so that an eviction has to delete more than one row.     *)
(***************************************************************************)
EXTENDS CertDb, TLC

CONSTANTS a, b, c, v1, v2

MCNames == {a, b, c}
MCVersions == {v1, v2}
MCCertBlocks == [v \in MCVersions |-> IF v = v1 THEN 1 ELSE 3]
MCSymmetry == Permutations(MCNames)
=============================================================================
