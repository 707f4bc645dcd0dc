----------------------------- MODULE DnsLookup -----------------------------
(***************************************************************************)
(* What the internal resolver promises its callers (idnsALookup and the   *)
(* IDNSCB callback), without queries, ids, retransmits or the search path: *)
(* a caller looks a name up once and waits; the lookups of one name are   *)
(* answered together, every caller waiting on that name in the same step  *)
(* and all of them with the same answer, and an answer once given is      *)
(* never taken back.  One step may answer the lookups of several names    *)
(* (idnsCheckQueue times out more than one query in one walk).            *)
(***************************************************************************)
CONSTANTS
    Callers,   \* the callers of the lookup service
    Names,     \* the names they look up
    Answers    \* the answers a callback may be given

VARIABLES
    cst,    \* cst[c]: "idle", "waiting" for its callback, or "done"
    want,   \* want[c]: the name c waits on ({n}), or {} when not waiting
    res     \* res[c]: the answer c was given

vars == <<cst, want, res>>

\* The callers waiting on name n.
Waiters(n) == {c \in Callers : cst[c] = "waiting" /\ n \in want[c]}

TypeOK ==
    /\ cst \in [Callers -> {"idle", "waiting", "done"}]
    /\ want \in [Callers -> SUBSET Names]

Init ==
    /\ cst = [c \in Callers |-> "idle"]
    /\ want = [c \in Callers |-> {}]
    /\ res \in [Callers -> Answers]

\* Caller c asks for name n.
Lookup(c, n) ==
    /\ cst[c] = "idle"
    /\ cst' = [cst EXCEPT ![c] = "waiting"]
    /\ want' = [want EXCEPT ![c] = {n}]
    /\ UNCHANGED res

\* The lookups of the names in N complete: every caller waiting on a name
\* n of N is called back with the one answer ans[n]; nobody else is.
Answer(N, ans) ==
    /\ N # {}
    /\ \A n \in N : Waiters(n) # {}
    /\ LET done(c) == \E n \in N : c \in Waiters(n)
           nameOf(c) == CHOOSE n \in N : c \in Waiters(n)
       IN  /\ cst' = [c \in Callers |-> IF done(c) THEN "done" ELSE cst[c]]
           /\ want' = [c \in Callers |-> IF done(c) THEN {} ELSE want[c]]
           /\ res' = [c \in Callers |-> IF done(c) THEN ans[nameOf(c)] ELSE res[c]]

Next ==
    \/ \E c \in Callers, n \in Names : Lookup(c, n)
    \/ \E N \in SUBSET Names : \E ans \in [N -> Answers] : Answer(N, ans)

Spec == Init /\ [][Next]_vars
=============================================================================
