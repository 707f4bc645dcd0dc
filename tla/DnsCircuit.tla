----------------------------- MODULE DnsCircuit -----------------------------
(***************************************************************************)
(* The per-nameserver TCP virtual circuit of the DNS resolver (nsvc in    *)
(* src/dns_internal.cc): created lazily by idnsSendQueryVC for a query    *)
(* that needs TCP, connected by a ConnOpener, written one MemBuf at a     *)
(* time under the busy flag, closed on a read or write error, and removed *)
(* from its nameserver by the close handler.  Each handler runs to its    *)
(* end in the single-threaded event loop, so each is one action.          *)
(*                                                                         *)
(* A query is a model value; fate[q] is history: what became of the last  *)
(* frame of q handed to a circuit.  A nameserver answers a written frame *)
(* at most once; idnsReadVC reads the answer (its assert on vc->ns is     *)
(* kept, the reply itself goes to idnsGrokReply, modelled in DnsResolver) *)
(* and a failed read closes the circuit.                                   *)
(*                                                                         *)
(* On reconfigure dnsShutdown closes the open circuits and frees           *)
(* nameservers[], and dnsInit builds a new one; the circuits are not      *)
(* freed, so a circuit (circ[id]) and the slot naming it (slot[ns]) are   *)
(* separate, and a close handler may run against the new nameservers[].  *)
(***************************************************************************)
EXTENDS Integers, Sequences, FiniteSets

CONSTANTS
    NS,         \* nameserver indices 0..N-1: the slots nameservers[] can have
    Queries,    \* queries sent with need_vc set
    MaxSends,   \* frames handed to circuits in one behaviour
    MaxVCs,     \* nsvc objects allocated at once
    MaxReconf   \* reconfigurations (dnsShutdown then dnsInit) in one behaviour

ASSUME NS = 0..(Cardinality(NS) - 1)

VARIABLES
    circ,    \* circ[id]: the nsvc allocated id-th, st "free" before and after
    slot,    \* slot[ns]: nameservers[ns].vc, 0 for NULL
    nns,     \* nns: the entries of nameservers[] in use, 0 once it is freed
    fate,    \* fate[q]: "idle", "handed", "written", "closed" or "dropped"
    sends,   \* frames handed so far
    reconf,  \* reconfigurations so far
    bug,     \* idnsDoSendQueryVC read vc->conn while it was NULL
    crash    \* idnsReadVC's assert(vc->ns < nns) failed

vars == <<circ, slot, nns, fate, sends, reconf, bug, crash>>

VCIds == 1..MaxVCs

SeqSet(s) == {s[i] : i \in 1..Len(s)}

(***************************************************************************)
(* An nsvc: st is "connecting" (ConnOpener running or given up), "open",  *)
(* "closing" (conn->close() called, close handler not yet run), "free"    *)
(* (not allocated, or freed by idnsVCClosed); ns, the nameserver index    *)
(* it was made for; busy; queue, the frames waiting in vc->queue; wr, the *)
(* frames of writes not yet completed; opening, whether the connect       *)
(* callback is still due; owed, the frames written and not yet answered.  *)
(***************************************************************************)
VC == [st: {"free", "connecting", "open", "closing"}, ns: NS, busy: BOOLEAN,
       queue: Seq(Queries), wr: Seq(Seq(Queries)), opening: BOOLEAN, owed: Nat]

NoVC == [st |-> "free", ns |-> 0, busy |-> FALSE, queue |-> <<>>, wr |-> <<>>, opening |-> FALSE,
         owed |-> 0]

\* The slots of a freshly allocated nameservers[] (xcalloc): vc NULL.
NoSlots == [ns \in NS |-> 0]

\* Bug variant: the busy flag is not tested.
idnsDoSendQueryVCIgnoresBusy(v) ==
    IF v.queue = <<>> \/ v.st = "closing" THEN v
    ELSE [v EXCEPT !.wr = Append(@, v.queue), !.queue = <<>>, !.busy = TRUE]

\* Bug variant: an empty queue is written too.
idnsDoSendQueryVCSendsEmpty(v) ==
    IF v.busy \/ v.st = "closing" THEN v
    ELSE [v EXCEPT !.wr = Append(@, v.queue), !.queue = <<>>, !.busy = TRUE]

\* idnsDoSendQueryVC: unless busy, empty or closing, hand the whole queue
\* to one Comm::Write and mark the circuit busy.
idnsDoSendQueryVC(v) ==
    IF v.busy \/ v.queue = <<>> \/ v.st = "closing" THEN v
    ELSE [v EXCEPT !.wr = Append(@, v.queue), !.queue = <<>>, !.busy = TRUE]

\* Past the busy and empty tests, idnsDoSendQueryVC reads vc->conn->fd.
ReadsNullConn(v) == ~v.busy /\ v.queue # <<>> /\ v.st = "connecting"

\* Bug variant: the new circuit is not marked busy while it connects.
idnsInitVCNotBusy(ns) ==
    [NoVC EXCEPT !.st = "connecting", !.ns = ns, !.opening = TRUE]

\* idnsInitVC(ns): a new nsvc for nameserver ns, busy while the ConnOpener
\* connects.
idnsInitVC(ns) ==
    [NoVC EXCEPT !.st = "connecting", !.ns = ns, !.busy = TRUE, !.opening = TRUE]

\* Fates of frames that a step takes out of a circuit without writing them.
Lose(f, frames, how) == [x \in Queries |-> IF x \in frames THEN how ELSE f[x]]

\* The nsvc objects not allocated; cbdataAlloc takes one (the lowest).
FreeIds == {id \in VCIds : circ[id].st = "free"}

NewVC == CHOOSE id \in FreeIds : \A j \in FreeIds : id <= j

(***************************************************************************)
(* idnsSendQueryVC(q, ns), called by idnsSendQuery (with nns > 0 and      *)
(* ns = nsends % nns) for a query with need_vc: create the circuit if the *)
(* slot is empty, reset its queue, append the frame of q and try to send. *)
(***************************************************************************)
idnsSendQueryVC(q, ns) ==
    /\ ns < nns
    /\ sends < MaxSends
    /\ sends' = sends + 1
    /\ slot[ns] # 0 \/ FreeIds # {}
    /\ LET id == IF slot[ns] # 0 THEN slot[ns] ELSE NewVC
           v0 == IF slot[ns] # 0 THEN circ[id] ELSE idnsInitVC(ns)
           v1 == [v0 EXCEPT !.queue = <<q>>]
       IN  /\ circ' = [circ EXCEPT ![id] = idnsDoSendQueryVC(v1)]
           /\ slot' = [slot EXCEPT ![ns] = id]
           /\ bug' = (bug \/ ReadsNullConn(v1))
           /\ fate' = [Lose(fate, SeqSet(v0.queue), "dropped") EXCEPT ![q] = "handed"]
    /\ UNCHANGED <<nns, reconf, crash>>

\* idnsInitVCConnected: on failure (or connect timeout) only log, reading
\* nameservers[vc->ns] for the message when vc->ns < nns; on success keep
\* the connection, start reading, clear busy and send.
idnsInitVCConnected(id, ok) ==
    /\ circ[id].opening
    /\ LET v == [circ[id] EXCEPT !.opening = FALSE]
       IN  circ' = [circ EXCEPT ![id] = IF ok THEN idnsDoSendQueryVC([v EXCEPT !.st = "open", !.busy = FALSE])
                                        ELSE v]
    /\ UNCHANGED <<slot, nns, fate, sends, reconf, bug, crash>>

\* idnsSentQueryVC for the oldest write: on success its frames are
\* written, busy is cleared and the queue sent; on error the connection
\* is closed.  The callback of a write on a closing connection returns.
idnsSentQueryVC(id, ok) ==
    /\ circ[id].st = "open"
    /\ circ[id].wr # <<>>
    /\ LET v == circ[id]
       IN  IF ok
           THEN /\ circ' = [circ EXCEPT ![id] = idnsDoSendQueryVC([v EXCEPT !.wr = Tail(@), !.busy = FALSE,
                                                                      !.owed = @ + Len(Head(v.wr))])]
                /\ fate' = [x \in Queries |-> IF x \in SeqSet(Head(v.wr)) /\ fate[x] = "handed"
                                              THEN "written" ELSE fate[x]]
           ELSE /\ circ' = [circ EXCEPT ![id].st = "closing"]
                /\ UNCHANGED fate
    /\ UNCHANGED <<slot, nns, sends, reconf, bug, crash>>

\* idnsReadVCHeader / idnsReadVC failing, or the connection timing out:
\* the connection is closed.
idnsReadVCError(id) ==
    /\ circ[id].st = "open"
    /\ circ' = [circ EXCEPT ![id].st = "closing"]
    /\ UNCHANGED <<slot, nns, fate, sends, reconf, bug, crash>>

\* idnsReadVCHeader then idnsReadVC reading a whole answer to a written
\* frame: assert(vc->ns < nns), hand it to idnsGrokReply with vc->ns as
\* the nameserver index, and read the next length header.
idnsReadVC(id) ==
    /\ circ[id].st = "open"
    /\ circ[id].owed > 0
    /\ circ' = [circ EXCEPT ![id].owed = @ - 1]
    /\ crash' = (crash \/ ~(circ[id].ns < nns))
    /\ UNCHANGED <<slot, nns, fate, sends, reconf, bug>>

\* Bug variant: the close handler frees the circuit but leaves its slot.
idnsVCClosedKeepsSlot(id) ==
    /\ circ[id].st = "closing"
    /\ circ' = [circ EXCEPT ![id] = NoVC]
    /\ fate' = LET frames == SeqSet(circ[id].queue)
                             \cup UNION {SeqSet(circ[id].wr[i]) : i \in 1..Len(circ[id].wr)}
               IN  [x \in Queries |-> IF x \in frames /\ fate[x] = "handed"
                                      THEN "closed" ELSE fate[x]]
    /\ UNCHANGED <<slot, nns, sends, reconf, bug, crash>>

\* idnsVCClosed: free the queue and the circuit; clear nameservers[vc->ns].vc
\* unless dnsShutdown freed the array ("vc->ns < nns").  The slot cleared
\* is whatever nameservers[vc->ns] holds now.
idnsVCClosed(id) ==
    /\ circ[id].st = "closing"
    /\ circ' = [circ EXCEPT ![id] = NoVC]
    /\ slot' = IF circ[id].ns < nns THEN [slot EXCEPT ![circ[id].ns] = 0] ELSE slot
    /\ fate' = LET frames == SeqSet(circ[id].queue)
                             \cup UNION {SeqSet(circ[id].wr[i]) : i \in 1..Len(circ[id].wr)}
               IN  [x \in Queries |-> IF x \in frames /\ fate[x] = "handed"
                                      THEN "closed" ELSE fate[x]]
    /\ UNCHANGED <<nns, sends, reconf, bug, crash>>

(***************************************************************************)
(* dnsShutdown, on reconfigure: close the connection of every circuit     *)
(* whose conn is open (a circuit still connecting has none, one already   *)
(* closing has been closed), then idnsFreeNameservers: the array goes, and *)
(* nns = 0.  The circuits are not freed; their close handlers run later.  *)
(***************************************************************************)
dnsShutdown ==
    /\ nns > 0
    /\ reconf < MaxReconf
    /\ reconf' = reconf + 1
    /\ circ' = [id \in VCIds |->
                   IF circ[id].st = "open" /\ circ[id].ns < nns /\ slot[circ[id].ns] = id
                   THEN [circ[id] EXCEPT !.st = "closing"] ELSE circ[id]]
    /\ nns' = 0
    /\ slot' = NoSlots
    /\ UNCHANGED <<fate, sends, bug, crash>>

\* dnsInit: idnsParseNameservers (or resolv.conf, or the 127.0.0.1
\* fallback) fills a new nameservers[] of n >= 1 entries, vc NULL.
dnsInit(n) ==
    /\ nns = 0
    /\ nns' = n
    /\ slot' = NoSlots
    /\ UNCHANGED <<circ, fate, sends, reconf, bug, crash>>

Init ==
    /\ circ = [id \in VCIds |-> NoVC]
    /\ slot = NoSlots
    /\ nns \in 1..Cardinality(NS)
    /\ fate = [x \in Queries |-> "idle"]
    /\ sends = 0
    /\ reconf = 0
    /\ bug = FALSE
    /\ crash = FALSE

\* The bound on frames reached, the circuits settle.
Settled ==
    /\ sends = MaxSends
    /\ nns > 0
    /\ \A id \in VCIds : ~circ[id].opening /\ circ[id].wr = <<>> /\ circ[id].st # "closing"
    /\ UNCHANGED vars

Next ==
    \/ \E q \in Queries, ns \in NS : idnsSendQueryVC(q, ns)
    \/ \E id \in VCIds, ok \in BOOLEAN : idnsInitVCConnected(id, ok) \/ idnsSentQueryVC(id, ok)
    \/ \E id \in VCIds : idnsReadVCError(id) \/ idnsReadVC(id) \/ idnsVCClosed(id)
    \/ dnsShutdown
    \/ \E n \in 1..Cardinality(NS) : dnsInit(n)
    \/ Settled

\* Comm eventually calls back a pending connect or write, and runs a close
\* handler; none of these is promised to succeed.  The reconfiguration,
\* once started, finishes.
Fairness ==
    /\ \A id \in VCIds :
        /\ WF_vars(\E ok \in BOOLEAN : idnsInitVCConnected(id, ok))
        /\ WF_vars(\E ok \in BOOLEAN : idnsSentQueryVC(id, ok))
        /\ WF_vars(idnsVCClosed(id))
    /\ WF_vars(\E n \in 1..Cardinality(NS) : dnsInit(n))

Spec == Init /\ [][Next]_vars /\ Fairness

TypeOK ==
    /\ circ \in [VCIds -> VC]
    /\ \A id \in VCIds : \A i \in 1..Len(circ[id].wr) : circ[id].wr[i] # <<>>
    /\ slot \in [NS -> {0} \cup VCIds]
    /\ nns \in 0..Cardinality(NS)
    /\ fate \in [Queries -> {"idle", "handed", "written", "closed", "dropped"}]
    /\ sends \in 0..MaxSends /\ reconf \in 0..MaxReconf
    /\ bug \in BOOLEAN /\ crash \in BOOLEAN

\* The busy flag serialises a circuit: at most one Comm::Write is in
\* progress, none before the connection exists, and idnsDoSendQueryVC
\* never dereferences the NULL vc->conn of a circuit still connecting.
WritesSerialised ==
    /\ \A id \in VCIds : Len(circ[id].wr) <= 1
    /\ \A id \in VCIds : circ[id].wr # <<>> => circ[id].st \in {"open", "closing"} /\ circ[id].busy
    /\ ~bug

\* nameservers[ns].vc never dangles: across reconfigurations, and with
\* close handlers of circuits made for the old nameservers[] running after
\* dnsInit built the new one, a slot in use names an allocated nsvc made
\* for that nameserver index (idnsSendQueryVC writes to it through that
\* pointer without a check).
NoDanglingSlot ==
    \A ns \in NS :
        ns < nns /\ slot[ns] # 0 => circ[slot[ns]].st # "free" /\ circ[slot[ns]].ns = ns

\* idnsReadVC's assert(vc->ns < nns) holds: an answer is read only on a
\* circuit whose nameserver is in the nameservers[] in use, even when the
\* circuit was still connecting when dnsShutdown freed the array (it has
\* no conn to close) and connects after dnsInit built a shorter one.
ReadVCAssertHolds == ~crash

\* A frame waiting in a circuit's queue is written or lost with the
\* circuit, never discarded by a later idnsSendQueryVC.
QueuedFrameNotDropped ==
    \A x \in Queries : fate[x] # "dropped"

\* A frame handed to a circuit is eventually written or lost with a
\* closed circuit, even when the connect fails.
HandedFrameSettles ==
    \A x \in Queries : fate[x] = "handed" ~> fate[x] \in {"written", "closed", "dropped"}
=============================================================================
