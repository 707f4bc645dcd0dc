---------------------------- MODULE MCDnsCircuit ----------------------------
(* Model values for checking DnsCircuit with TLC. *)
EXTENDS DnsCircuit, TLC

CONSTANTS qa, qb

MCQueries == {qa, qb}
MCNS == {0, 1}
MCSymmetry == Permutations(MCQueries)
=============================================================================
