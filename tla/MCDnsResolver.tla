--------------------------- MODULE MCDnsResolver ---------------------------
(* Model values for checking DnsResolver with TLC. *)
EXTENDS DnsResolver, TLC

CONSTANTS c1, c2, n1

MCCallers2 == {c1, c2}
MCNames == {n1}
MCSymmetry == Permutations(MCCallers2)
=============================================================================
