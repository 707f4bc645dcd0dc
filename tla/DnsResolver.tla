---------------------------- MODULE DnsResolver ----------------------------
(***************************************************************************)
(* The internal DNS resolver (src/dns_internal.cc): lookups de-duplicated *)
(* through idns_lookup_hash and its waiter chain, the A master query and  *)
(* its AAAA slave, the lru_list of pending queries walked by               *)
(* idnsCheckQueue for retransmits and timeouts, and idnsGrokReply's        *)
(* handling of truncation, SERVFAIL and NXDOMAIN with the search path.    *)
(*                                                                         *)
(* Every query sent stays on the wire: a nameserver may answer it any     *)
(* number of times (duplicates), late, in any order, or never (loss).     *)
(* A query forced onto TCP (need_vc) is sent like any other; the circuit  *)
(* itself is modelled in DnsCircuit.                                      *)
(*                                                                         *)
(* Names are abstracted: a query name is the looked-up name plus the index *)
(* of the search-path domain appended to it (-1 for none).                *)
(***************************************************************************)
EXTENDS Integers, Sequences, FiniteSets

CONSTANTS
    Callers,       \* the callers of idnsALookup, each looks up once
    Names,         \* names they look up
    Unqualified,   \* names with fewer dots than ndots
    NPC,           \* number of search-path domains (npc)
    NNS,           \* number of nameservers (nns)
    IdSpace,       \* number of query ids (65536 in the code)
    Retransmit,    \* Config.Timeout.idns_retransmit, in clock ticks
    QueryTimeout,  \* Config.Timeout.idns_query, in clock ticks
    LookupBy,      \* last tick at which a caller may start a lookup
    MaxTime,       \* the clock stops here
    MaxReplies,    \* datagrams the nameservers answer in one behaviour
    EnableIpv6     \* Ip::EnableIpv6: send the AAAA slave query

ASSUME /\ Unqualified \subseteq Names /\ NPC \in Nat /\ NNS \in Nat \ {0}
       /\ IdSpace \in Nat \ {0} /\ EnableIpv6 \in BOOLEAN

VARIABLES
    lk,     \* lk[n]: callers of the in-flight lookup of n, hash entry's own first
    q,      \* q[<<n, k>>]: the idns_query of kind k ("A" master, "AAAA" slave) for n
    lru,    \* lru_list, head first
    wire,   \* every query datagram sent so far
    evq,    \* event_queued: an idnsCheckQueue event is scheduled ...
    evAt,   \* ... to run no earlier than this tick
    now,    \* current_time, in ticks
    cst,    \* cst[c]: "idle", "waiting" for its callback, or "done"
    res,    \* res[c]: what the callback gave caller c
    nrep    \* replies delivered so far

vars == <<lk, q, lru, wire, evq, evAt, now, cst, res, nrep>>

MAX_ATTEMPT == 3
Kinds == {"A", "AAAA"}
Refs == Names \X Kinds
DNames == -1..(NPC - 1)
IDs == 0..(IdSpace - 1)
Lesser(a, b) == IF a < b THEN a ELSE b
SetMin(S) == CHOOSE x \in S : \A y \in S : x <= y
SeqSet(s) == {s[i] : i \in 1..Len(s)}

(***************************************************************************)
(* An idns_query: live (allocated), pending, query_id, nsends, need_vc,   *)
(* attempt, rcode, domain (next search-path index), dname (domain in the *)
(* name sent), do_searchpath, sent_t, queue_t, start_t, error set,        *)
(* ancount, and the name and kind of the reply accepted for it.           *)
(***************************************************************************)
QRec ==
    [live: BOOLEAN, pending: BOOLEAN, id: IDs, nsends: Nat, needVC: BOOLEAN,
     attempt: 0..(MAX_ATTEMPT + 1), rcode: {0, 2, 3}, domain: 0..NPC, dname: DNames,
     sp: BOOLEAN, sent: 0..MaxTime, queued: 0..MaxTime, start: 0..MaxTime,
     err: BOOLEAN, an: -1..2, ansFrom: DNames, ansKind: Kinds]

Free ==
    [live |-> FALSE, pending |-> FALSE, id |-> 0, nsends |-> 0, needVC |-> FALSE,
     attempt |-> 0, rcode |-> 0, domain |-> 0, dname |-> -1, sp |-> FALSE,
     sent |-> 0, queued |-> 0, start |-> 0, err |-> FALSE, an |-> 0,
     ansFrom |-> -1, ansKind |-> "A"]

Msg == [id: IDs, name: Names, dname: DNames, kind: Kinds, ns: 0..(NNS - 1), via: {"udp", "tcp"}]

\* The variables the resolver's functions change, as one record; each
\* function below maps such a record to the one it leaves behind.
St == [lk |-> lk, q |-> q, lru |-> lru, wire |-> wire, evq |-> evq,
       evAt |-> evAt, cst |-> cst, res |-> res]

Commit(st) ==
    /\ lk' = st.lk /\ q' = st.q /\ lru' = st.lru /\ wire' = st.wire
    /\ evq' = st.evq /\ evAt' = st.evAt /\ cst' = st.cst /\ res' = st.res

LruDel(st, r) == [st EXCEPT !.lru = SelectSeq(@, LAMBDA x : x # r)]
LruAdd(st, r) == [st EXCEPT !.lru = <<r>> \o @]

\* Bug variant: the delay is left in milliseconds where eventAdd takes seconds.
idnsTickleQueueMs(st) ==
    IF st.evq \/ st.lru = <<>> THEN st
    ELSE [st EXCEPT !.evq = TRUE, !.evAt = now + 1000 * Lesser(QueryTimeout, Retransmit)]

idnsTickleQueue(st) ==
    IF st.evq \/ st.lru = <<>> THEN st
    ELSE [st EXCEPT !.evq = TRUE, !.evAt = now + Lesser(QueryTimeout, Retransmit)]

\* Bug variant: the id is not reduced to its 16 bits.
idnsQueryIDNoWrap(st, r) ==
    LET used == {st.q[x].id : x \in SeqSet(st.lru)}
        free == {k \in 0..(IdSpace - 1) : (r + k) % IdSpace \notin used}
    IN  IF free = {} THEN r ELSE r + SetMin(free)

\* Bug variant: the random id is used without looking for a clash.
idnsQueryIDUnchecked(st, r) == r

\* idnsQueryID with random start r: the first id from r upwards, modulo
\* 2^16, that no query in lru_list uses; after a full wrap, r itself.
idnsQueryID(st, r) ==
    LET used == {st.q[x].id : x \in SeqSet(st.lru)}
        free == {k \in 0..(IdSpace - 1) : (r + k) % IdSpace \notin used}
    IN  IF free = {} THEN r ELSE (r + SetMin(free)) % IdSpace

\* idnsSendQuery: send the query to nameservers[nsends % nns] (over the
\* circuit when need_vc), count the send, and put it at the head of
\* lru_list.  Its asserts that the query is off lru_list hold by its
\* callers, which take it off first or send a fresh one.  A failing
\* sendto is not modelled apart: it looks like a lost datagram.
idnsSendQuery(st, r) ==
    LET x == st.q[r]
        m == [id |-> x.id, name |-> r[1], dname |-> x.dname, kind |-> r[2],
              ns |-> x.nsends % NNS, via |-> IF x.needVC THEN "tcp" ELSE "udp"]
    IN  idnsTickleQueue(LruAdd(
            [st EXCEPT !.q[r].nsends = @ + 1, !.q[r].sent = now, !.q[r].queued = now,
                       !.q[r].pending = TRUE, !.wire = @ \cup {m}], r))

SetMax(S) == CHOOSE x \in S : \A y \in S : x >= y
Reversed(s) == [i \in 1..Len(s) |-> s[Len(s) - i + 1]]

\* Bug variant: the waiter chain is called with the master's own answers
\* rather than the merged ones; only the hash entry's caller gets those.
idnsCallbackMergeWaitersUnmerged(s0, n) ==
    LET a == s0.q[<<n, "A">>]
        s == s0.q[<<n, "AAAA">>]
        useS == s.live /\ ~s.err
        cnt == IF useS THEN (IF a.an > 0 THEN a.an + s.an ELSE s.an) ELSE a.an
        er == IF useS /\ ~(a.an > 0) THEN FALSE ELSE a.err
        from == (IF a.an > 0 THEN {a.ansFrom} ELSE {})
                \cup (IF useS /\ s.an > 0 THEN {s.ansFrom} ELSE {})
        own == [n |-> cnt, err |-> er, from |-> from]
        mast == [n |-> a.an, err |-> a.err, from |-> IF a.an > 0 THEN {a.ansFrom} ELSE {}]
        cbs == s0.lk[n]
        called(c) == c \in SeqSet(cbs)
    IN  [s0 EXCEPT
           !.lk[n] = <<>>, !.q[<<n, "A">>] = Free, !.q[<<n, "AAAA">>] = Free,
           !.cst = [c \in Callers |-> IF called(c) THEN "done" ELSE s0.cst[c]],
           !.res = [c \in Callers |->
                      IF ~called(c) THEN s0.res[c]
                      ELSE IF c = Head(cbs) THEN own ELSE mast]]

(***************************************************************************)
(* The second half of idnsCallback, once no query of the lookup of n is   *)
(* pending: merge the slave's answers into the master's (the slave's      *)
(* alone when the master has none), call the hash entry's caller and then *)
(* the waiter chain in chain order, drop the hash entry, free the queries. *)
(* Not modelled: a callback that looks its name up again finds the hash  *)
(* entry still linked (it is removed after the loop) and is answered in   *)
(* the same drain with the same answers; each caller here looks up once.  *)
(***************************************************************************)
idnsCallbackMerge(s0, n) ==
    LET a == s0.q[<<n, "A">>]
        s == s0.q[<<n, "AAAA">>]
        useS == s.live /\ ~s.err
        cnt == IF useS THEN (IF a.an > 0 THEN a.an + s.an ELSE s.an) ELSE a.an
        er == IF useS /\ ~(a.an > 0) THEN FALSE ELSE a.err
        from == (IF a.an > 0 THEN {a.ansFrom} ELSE {})
                \cup (IF useS /\ s.an > 0 THEN {s.ansFrom} ELSE {})
        cbs == s0.lk[n]
        called(c) == c \in SeqSet(cbs)
    IN  [s0 EXCEPT
           !.lk[n] = <<>>, !.q[<<n, "A">>] = Free, !.q[<<n, "AAAA">>] = Free,
           !.cst = [c \in Callers |-> IF called(c) THEN "done" ELSE s0.cst[c]],
           !.res = [c \in Callers |->
                      IF called(c) THEN [n |-> cnt, err |-> er, from |-> from]
                      ELSE s0.res[c]]]

\* Bug variant: the pending scan starts at the slave, not at the master.
idnsCallbackSkipsMaster(st, r, error) ==
    LET s0 == IF error THEN [st EXCEPT !.q[r].err = TRUE] ELSE st
        s == s0.q[<<r[1], "AAAA">>]
    IN  IF s.live /\ s.pending THEN s0 ELSE idnsCallbackMerge(s0, r[1])

\* idnsCallback: record the error on the query answered, go to the master
\* and return while the master or a slave is still pending; else merge.
idnsCallback(st, r, error) ==
    LET s0 == IF error THEN [st EXCEPT !.q[r].err = TRUE] ELSE st
        s == s0.q[<<r[1], "AAAA">>]
    IN  IF s0.q[<<r[1], "A">>].pending \/ (s.live /\ s.pending) THEN s0
        ELSE idnsCallbackMerge(s0, r[1])

\* Bug variant: the slave is built with the name as looked up, not the
\* name the master currently queries.
idnsSendSlaveAAAAQueryOrigName(st, r, r2) ==
    LET S == <<r[1], "AAAA">>
    IN  idnsSendQuery([st EXCEPT !.q[S] = [Free EXCEPT !.live = TRUE, !.id = idnsQueryID(st, r2),
                                           !.dname = -1, !.start = st.q[r].start]], S)

\* idnsSendSlaveAAAAQuery: a new AAAA query for the master's current name,
\* sharing its start_t.
idnsSendSlaveAAAAQuery(st, r, r2) ==
    LET S == <<r[1], "AAAA">>
    IN  idnsSendQuery([st EXCEPT !.q[S] = [Free EXCEPT !.live = TRUE, !.id = idnsQueryID(st, r2),
                                           !.dname = st.q[r].dname, !.start = st.q[r].start]], S)

\* The NXDOMAIN branch of idnsGrokReply for a master doing search-path
\* processing: back to the original name plus searchpath[domain] (and
\* ++domain) while domains remain, else the plain name and ++attempt;
\* drop the slave, take a fresh query_id, resend from nsends 0 and send a
\* new slave.
idnsSearchNext(st, r, r1, r2) ==
    LET x == st.q[r]
        more == x.domain < NPC
        s0 == [st EXCEPT !.q[r].dname = IF more THEN x.domain ELSE -1,
                         !.q[r].domain = IF more THEN @ + 1 ELSE @,
                         !.q[r].attempt = IF more THEN @ ELSE @ + 1]
        S == <<r[1], "AAAA">>
        s1 == [LruDel(s0, S) EXCEPT !.q[S] = Free]
        s2 == idnsSendQuery([s1 EXCEPT !.q[r].id = idnsQueryID(s1, r1), !.q[r].nsends = 0], r)
    IN  IF EnableIpv6 THEN idnsSendSlaveAAAAQuery(s2, r, r2) ELSE s2

NoQuery == <<>>

\* idnsFindQuery: walk lru_list from its tail (oldest) towards its head and
\* return the first query with this query_id, or NULL.
idnsFindQuery(st, id) ==
    LET hits == {i \in 1..Len(st.lru) : st.q[st.lru[i]].id = id}
    IN  IF hits = {} THEN NoQuery ELSE st.lru[SetMax(hits)]

\* Bug variant: replies are matched on query_id alone.
idnsGrokReplyNoCompare(st, m, rc, an, r1, r2) ==
    LET r == idnsFindQuery(st, m.id)
        x == st.q[r]
        s0 == [LruDel(st, r) EXCEPT !.q[r].pending = FALSE]
        s1 == IF rc = "SERVFAIL" THEN [s0 EXCEPT !.q[r].rcode = 2, !.q[r].attempt = @ + 1]
              ELSE IF rc = "NXDOMAIN" THEN [s0 EXCEPT !.q[r].rcode = 3] ELSE s0
    IN  IF r = NoQuery THEN st
        ELSE CASE rc = "TC" /\ ~x.needVC ->
                    idnsSendQuery([s0 EXCEPT !.q[r].needVC = TRUE, !.q[r].nsends = @ - 1], r)
               [] rc = "TC" -> idnsCallback(s0, r, TRUE)
               [] rc = "SERVFAIL" /\ s1.q[r].attempt < MAX_ATTEMPT -> idnsSendQuery(s1, r)
               [] rc = "NXDOMAIN" /\ r[2] = "A" /\ x.sp /\ x.attempt < MAX_ATTEMPT ->
                    idnsSearchNext(s1, r, r1, r2)
               [] OTHER ->
                    idnsCallback([s1 EXCEPT !.q[r].an = IF rc = "NOERROR" THEN an ELSE -1,
                                            !.q[r].ansFrom = m.dname, !.q[r].ansKind = m.kind],
                                 r, rc # "NOERROR")

(***************************************************************************)
(* idnsGrokReply for a reply m with rcode rc (or the TC bit) and an       *)
(* answers: drop it when no query in lru_list has its id (late) or the    *)
(* question differs; else take the query off lru_list and                 *)
(*   TC:       resend over TCP with the same nsends, or fail if on TCP;   *)
(*   SERVFAIL: ++attempt and resend while attempt < MAX_ATTEMPT;          *)
(*   NXDOMAIN: on a search-path master with attempts left, idnsSearchNext; *)
(*   else:     keep the answers and call back, with an error if rc # 0.   *)
(* r1, r2 are the random starts of the query ids idnsSearchNext takes.    *)
(***************************************************************************)
idnsGrokReply(st, m, rc, an, r1, r2) ==
    LET r == idnsFindQuery(st, m.id)
        x == st.q[r]
        s0 == [LruDel(st, r) EXCEPT !.q[r].pending = FALSE]
        s1 == IF rc = "SERVFAIL" THEN [s0 EXCEPT !.q[r].rcode = 2, !.q[r].attempt = @ + 1]
              ELSE IF rc = "NXDOMAIN" THEN [s0 EXCEPT !.q[r].rcode = 3] ELSE s0
    IN  IF r = NoQuery THEN st
        ELSE IF m.name # r[1] \/ m.dname # x.dname \/ m.kind # r[2] THEN st
        ELSE CASE rc = "TC" /\ ~x.needVC ->
                    idnsSendQuery([s0 EXCEPT !.q[r].needVC = TRUE, !.q[r].nsends = @ - 1], r)
               [] rc = "TC" -> idnsCallback(s0, r, TRUE)
               [] rc = "SERVFAIL" /\ s1.q[r].attempt < MAX_ATTEMPT -> idnsSendQuery(s1, r)
               [] rc = "NXDOMAIN" /\ r[2] = "A" /\ x.sp /\ x.attempt < MAX_ATTEMPT ->
                    idnsSearchNext(s1, r, r1, r2)
               [] OTHER ->
                    idnsCallback([s1 EXCEPT !.q[r].an = IF rc = "NOERROR" THEN an ELSE -1,
                                            !.q[r].ansFrom = m.dname, !.q[r].ansKind = m.kind],
                                 r, rc # "NOERROR")

(***************************************************************************)
(* The loop of idnsCheckQueue over lru_list from its tail (todo, oldest   *)
(* first): stop at a query queued less than idns_retransmit ago; requeue  *)
(* one whose backed-off timer (retransmit << ((nsends-1)/nns)) still runs; *)
(* else take it off the list and resend it while idns_query has not       *)
(* passed since start_t, or call back with its error.  Queries moved to   *)
(* the head are queued now, so the loop stops before it reaches them.     *)
(***************************************************************************)
RECURSIVE idnsCheckQueueWalk(_, _)
idnsCheckQueueWalk(st, todo) ==
    IF todo = <<>> THEN st
    ELSE LET r == Head(todo)
             x == st.q[r]
             s0 == [LruDel(st, r) EXCEPT !.q[r].pending = FALSE]
         IN  IF now - x.queued < Retransmit THEN st
             ELSE IF now - x.sent < Retransmit * 2 ^ ((x.nsends - 1) \div NNS)
             THEN idnsCheckQueueWalk(LruAdd([LruDel(st, r) EXCEPT !.q[r].queued = now], r),
                                     Tail(todo))
             ELSE idnsCheckQueueWalk(IF now - x.start < QueryTimeout
                                     THEN idnsSendQuery(s0, r)
                                     ELSE idnsCallback(s0, r, TRUE),
                                     Tail(todo))

(***************************************************************************)
(* Actions                                                                 *)
(***************************************************************************)

\* idnsALookup(n) by caller c, r1 and r2 the random starts of the query
\* ids: join the in-flight lookup of n (the new waiter goes first in the
\* chain), or start an A query, with the first search domain appended to
\* an unqualified name, then its AAAA slave.
idnsALookup(c, n, r1, r2) ==
    /\ cst[c] = "idle"
    /\ now <= LookupBy
    /\ LET A == <<n, "A">>
           sp == NPC > 0
           s0 == [St EXCEPT !.cst[c] = "waiting",
                            !.q[A] = [Free EXCEPT !.live = TRUE, !.id = idnsQueryID(St, r1),
                                                  !.sp = sp, !.start = now,
                                                  !.dname = IF sp /\ n \in Unqualified
                                                            THEN 0 ELSE -1],
                            !.lk[n] = <<c>>]
           s1 == idnsSendQuery(s0, A)
       IN  Commit(IF lk[n] # <<>>
                  THEN [St EXCEPT !.cst[c] = "waiting",
                                  !.lk[n] = <<Head(@), c>> \o Tail(@)]
                  ELSE IF EnableIpv6 THEN idnsSendSlaveAAAAQuery(s1, A, r2) ELSE s1)
    /\ UNCHANGED <<now, nrep>>

\* A datagram m answered by its nameserver (now, again, or after others),
\* read by idnsRead or idnsReadVC and handed to idnsGrokReply.
Reply(m, rc, an, r1, r2) ==
    /\ nrep < MaxReplies
    /\ nrep' = nrep + 1
    /\ Commit(idnsGrokReply(St, m, rc, an, r1, r2))
    /\ UNCHANGED now

\* The idnsCheckQueue event, once its time has come.
idnsCheckQueue ==
    /\ evq
    /\ now >= evAt
    /\ Commit(idnsTickleQueue(idnsCheckQueueWalk([St EXCEPT !.evq = FALSE], Reversed(lru))))
    /\ UNCHANGED <<now, nrep>>

\* Time passes; the event loop runs an event that is due before it does.
Tick ==
    /\ now < MaxTime
    /\ ~(evq /\ now >= evAt)
    /\ now' = now + 1
    /\ UNCHANGED <<lk, q, lru, wire, evq, evAt, cst, res, nrep>>

\* The behaviours checked end when the clock reaches its bound.
Finished ==
    /\ now = MaxTime
    /\ UNCHANGED vars

Init ==
    /\ lk = [n \in Names |-> <<>>]
    /\ q = [r \in Refs |-> Free]
    /\ lru = <<>>
    /\ wire = {}
    /\ evq = FALSE
    /\ evAt = 0
    /\ now = 0
    /\ cst = [c \in Callers |-> "idle"]
    /\ res = [c \in Callers |-> [n |-> 0, err |-> FALSE, from |-> {}]]
    /\ nrep = 0

RCodes == {"NOERROR", "SERVFAIL", "NXDOMAIN", "TC"}

Next ==
    \/ \E c \in Callers, n \in Names, r1, r2 \in IDs : idnsALookup(c, n, r1, r2)
    \/ \E m \in wire, rc \in RCodes, an \in 0..1, r1, r2 \in IDs :
          (rc = "NOERROR" \/ an = 0) /\ Reply(m, rc, an, r1, r2)
    \/ idnsCheckQueue
    \/ Tick
    \/ Finished

\* The check-queue event fires once due, and time passes; a nameserver
\* owes no answer.
Fairness == WF_vars(idnsCheckQueue) /\ WF_vars(Tick)

Spec == Init /\ [][Next]_vars /\ Fairness

(***************************************************************************)
(* Properties                                                              *)
(***************************************************************************)

TypeOK ==
    /\ lk \in [Names -> Seq(Callers)]
    /\ q \in [Refs -> QRec]
    /\ lru \in Seq(Refs)
    /\ wire \subseteq Msg
    /\ evq \in BOOLEAN /\ evAt \in Nat /\ now \in 0..MaxTime
    /\ cst \in [Callers -> {"idle", "waiting", "done"}]

\* No lookup is forgotten by the bookkeeping of idnsSendQuery, idnsGrokReply,
\* idnsCheckQueue and idnsCallback: lru_list holds exactly the pending
\* queries, each once and each of a lookup still in the hash; a check-queue
\* event is scheduled while the list is not empty; and every caller still
\* waiting is in the chain of a lookup with a query pending.
CallerNotForgotten ==
    /\ \A r \in Refs : q[r].pending <=> r \in SeqSet(lru)
    /\ Len(lru) = Cardinality(SeqSet(lru))
    /\ \A r \in SeqSet(lru) : q[r].live /\ lk[r[1]] # <<>>
    /\ lru # <<>> => evq
    /\ \A c \in Callers : cst[c] = "waiting" =>
          \E n \in Names : c \in SeqSet(lk[n])
                           /\ (q[<<n, "A">>].pending \/ q[<<n, "AAAA">>].pending)


\* Two pending queries never share a query_id, so idnsFindQuery finds the
\* query a reply was meant for (the ids suffice for the queries in flight).
UniquePendingIds ==
    \A r1, r2 \in SeqSet(lru) : r1 # r2 => q[r1].id # q[r2].id

\* A query keeps only a reply to its own question: a reply to a query
\* dropped by the search path, whose id has been given to another query,
\* is not taken as that query's answer.
AnswersMatchQuestion ==
    \A r \in Refs : q[r].live /\ q[r].an > 0 =>
        q[r].ansFrom = q[r].dname /\ q[r].ansKind = r[2]

\* The merged A and AAAA answers a caller gets are for one name, even when
\* idnsSearchNext moved the master to another name after the slave
\* answered.
MergedAnswersForOneName ==
    \A c \in Callers : cst[c] = "done" => Cardinality(res[c].from) <= 1

(***************************************************************************)
(* Refinement of DnsLookup: the callers' state and answers are cst and    *)
(* res; the name a caller waits on is the hash entry whose chain holds it. *)
(* A callback may be given a count of answers (-1 after an error reply)   *)
(* with the search-path domain of the name they are for: none when the    *)
(* count is not positive, at most one otherwise.                          *)
(***************************************************************************)
LookupOf == [c \in Callers |-> {n \in Names : c \in SeqSet(lk[n])}]

CallbackResults ==
    {a \in [n: -1..4, err: BOOLEAN, from: SUBSET DNames] :
        /\ Cardinality(a.from) <= 1
        /\ (a.n > 0 <=> a.from # {})}

DL == INSTANCE DnsLookup WITH want <- LookupOf, Answers <- CallbackResults

\* The resolver implements the lookup service: each caller is answered at
\* most once, in the same idnsCallback drain as every other caller waiting
\* on the same name (the hash entry's caller and its waiter chain), all
\* with the same merged answers, and with answers for a single name.
ImplementsLookup == DL!Spec

\* Every caller of idnsALookup is eventually called back, by an answer or
\* by idnsCheckQueue giving up.
AllAnswered ==
    \A c \in Callers : cst[c] = "waiting" ~> cst[c] = "done"

=============================================================================
