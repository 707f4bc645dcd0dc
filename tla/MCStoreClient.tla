--------------------------- MODULE MCStoreClient ---------------------------
(* Model-checking instance of StoreClient: two readers, a three-byte      *)
(* object and two-byte copy requests, so that a copy can be served whole, *)
(* in part, across the memory / disk boundary, and by a nested copy.      *)
(* It extends ReplyStream, so each reader is also checked as the reply    *)
(* context whose stream status the client socket asks for.                *)
EXTENDS ReplyStream, TLC

CONSTANTS c1, c2

MCClients == {c1, c2}

\* The two readers are interchangeable.
MCSymmetry == Permutations(MCClients)
=============================================================================
