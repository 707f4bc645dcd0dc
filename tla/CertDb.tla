------------------------------- MODULE CertDb -------------------------------
(***************************************************************************)
(* The on-disk certificate database of ssl_crtd (src/ssl/certificate_db.cc)*)
(* : index.txt (a TXT_DB whose rows are kept in insertion order, indexed  *)
(* uniquely by serial and by name), one certs/<serial>.pem file per row   *)
(* and a "size" file holding the blocks the rows' files take.             *)
(*                                                                         *)
(* Several ssl_crtd processes share the directory.  Every public          *)
(* operation takes the flock on index.txt (Locker) and re-reads the index *)
(* (load), so operations are atomic with respect to one another and each  *)
(* is one action.  The operation is computed on a working record          *)
(*   mem    the in-memory TXT_DB, changed by row deletions and inserts    *)
(*   trail  the successive states of the disk, one more per write to it   *)
(* and the disk becomes the last state of the trail.  A process killed    *)
(* in the middle of an operation (Crashes) leaves the disk at an earlier  *)
(* state of its trail; the kernel releases its flock.                     *)
(*                                                                         *)
(* A certificate is a serial <<name, version>>; the serial of a generated *)
(* certificate is determined by the certificate, so two generations of    *)
(* one name differ in version.  Expiry (sslDateIsInTheFuture) is the set  *)
(* "expired", which grows as time passes.                                 *)
(***************************************************************************)
EXTENDS Integers, SequencesExt

CONSTANTS
    Names,       \* host names (the cnlName column)
    Versions,    \* certificates generated for one name
    CertBlocks,  \* [Versions -> Nat]: fs blocks a version's .pem file takes
    MaxDbSize,   \* max_db_size, in blocks
    SizeMod,     \* size_t arithmetic of the size file is modulo SizeMod
    Crashes,     \* whether a process may die in the middle of an operation
    NoCert       \* no certificate: a failed lookup or a failed operation

Serials == Names \X Versions
FileState == {"none", "partial", "ok"}
Disk == [index: Seq(Serials), files: [Serials -> FileState], size: 0..(SizeMod - 1)]
Results == [op: {"none", "add", "purge", "find"}, name: Names \cup {NoCert},
            cert: Serials \cup {NoCert}, why: {"ok", "absent", "evict", "insert", "write"}]
NoResult == [op |-> "none", name |-> NoCert, cert |-> NoCert, why |-> "ok"]

VARIABLES
    disk,      \* index.txt, certs/ and the size file
    expired,   \* serials whose notAfter date has passed
    last       \* what the last completed operation returned

vars == <<disk, expired, last>>

(***************************************************************************)
(* The operations' building blocks, on a working record w.                 *)
(***************************************************************************)

Now(w) == Last(w.trail)
Write(w, d) == [w EXCEPT !.trail = Append(@, d)]
Return(w, why, cert) == [w EXCEPT !.why = why, !.cert = cert]

\* load(): the in-memory TXT_DB is read from index.txt.
load(d) == [mem |-> d.index, trail |-> <<d>>, ok |-> TRUE, why |-> "ok", cert |-> NoCert]

\* save(): TXT_DB_write truncates index.txt and writes the rows one by one.
save(w) ==
    LET d == Now(w)
    IN  [w EXCEPT !.trail = @ \o [k \in 1..(Len(w.mem) + 1) |->
                                      [d EXCEPT !.index = SubSeq(w.mem, 1, k - 1)]]]

\* getFileSize(): a missing file's tellg() of -1 rounds up to 0 blocks.
getFileSize(d, s) == IF d.files[s] = "none" THEN 0 ELSE CertBlocks[s[2]]

\* size() and readSize(): the size file, as it is on disk now.
readSize(w) == Now(w).size

\* writeSize(), addSize(), subSize(): read the size file, add or subtract
\* the file's blocks, write it back as a size_t.
writeSize(w, v) == Write(w, [Now(w) EXCEPT !.size = v % SizeMod])
addSize(w, s) == writeSize(w, readSize(w) + getFileSize(Now(w), s))
subSize(w, s) == writeSize(w, readSize(w) - getFileSize(Now(w), s))

\* sq_TXT_DB_delete_row() and sq_TXT_DB_delete(): drop a row of the memory
\* TXT_DB, by position or by the row itself.
sq_TXT_DB_delete_row(w, i) == [w EXCEPT !.mem = RemoveAt(@, i)]
sq_TXT_DB_delete(w, s) ==
    LET i == SelectInSeq(w.mem, LAMBDA r : r = s)
    IN  IF i = 0 THEN w ELSE sq_TXT_DB_delete_row(w, i)

\* Bug variant: the file is removed before its size is subtracted.
deleteRowRemoveFirst(w, i) ==
    LET s == w.mem[i]
        x == Write(sq_TXT_DB_delete_row(w, i), [Now(w) EXCEPT !.files[s] = "none"])
    IN  subSize(x, s)

\* deleteRow(): delete the row in memory, subtract its file's size from
\* the size file, remove the file (ENOENT is ignored).
deleteRow(w, i) ==
    LET s == w.mem[i]
        x == subSize(sq_TXT_DB_delete_row(w, i), s)
    IN  Write(x, [Now(x) EXCEPT !.files[s] = "none"])

\* The first row satisfying Test, 0 if none (the loops over db->data).
FirstRow(w, Test(_)) == SelectInSeq(w.mem, Test)

deleteInvalidCertificate(w) ==
    LET i == FirstRow(w, LAMBDA s : s \in expired)
    IN  IF i = 0 THEN [w EXCEPT !.ok = FALSE] ELSE [deleteRow(w, i) EXCEPT !.ok = TRUE]

\* Bug variant: off by one in the emptiness test, the last row is kept.
deleteOldestCertificateKeepsLast(w) ==
    IF Len(w.mem) <= 1 THEN [w EXCEPT !.ok = FALSE] ELSE [deleteRow(w, 1) EXCEPT !.ok = TRUE]

deleteOldestCertificate(w) ==
    IF w.mem = <<>> THEN [w EXCEPT !.ok = FALSE] ELSE [deleteRow(w, 1) EXCEPT !.ok = TRUE]

deleteByHostname(w, n) ==
    LET i == FirstRow(w, LAMBDA s : s[1] = n)
    IN  IF i = 0 THEN [w EXCEPT !.ok = FALSE] ELSE [deleteRow(w, i) EXCEPT !.ok = TRUE]

\* Bug variant: the name column of the row is taken for its serial.
pure_findNameColumn(w, n) ==
    LET i == FirstRow(w, LAMBDA s : s[1] = n)
    IN  IF i = 0 \/ w.mem[i] \in expired \/ Now(w).files[w.mem[i]] # "ok"
        THEN NoCert ELSE w.mem[i][1]

\* pure_find(): the row of the name, if it has not expired and its file
\* reads back as a certificate and key; NoCert otherwise.
pure_find(w, n) ==
    LET i == FirstRow(w, LAMBDA s : s[1] = n)
    IN  IF i = 0 \/ w.mem[i] \in expired \/ Now(w).files[w.mem[i]] # "ok"
        THEN NoCert ELSE w.mem[i]

\* The do { deleteOldestCertificate } while (size() > max_db_size) loop of
\* addCertAndPrivateKey; when the database is empty it saves and fails.
RECURSIVE evictOldest(_)
evictOldest(w) ==
    LET x == deleteOldestCertificate(w)
    IN  IF ~x.ok THEN [save(x) EXCEPT !.ok = FALSE]
        ELSE IF readSize(x) > MaxDbSize THEN evictOldest(x) ELSE x

\* Bug variant: the loop breaks after one expired certificate is deleted.
RECURSIVE evictBreakAfterInvalid(_)
evictBreakAfterInvalid(w) ==
    IF readSize(w) <= MaxDbSize THEN [w EXCEPT !.ok = TRUE]
    ELSE LET x == deleteInvalidCertificate(w)
         IN  IF x.ok THEN [x EXCEPT !.ok = TRUE] ELSE evictOldest(x)

\* while (size() > max_db_size): expired certificates go first, then the
\* oldest ones.
RECURSIVE evict(_)
evict(w) ==
    IF readSize(w) <= MaxDbSize THEN [w EXCEPT !.ok = TRUE]
    ELSE LET x == deleteInvalidCertificate(w)
         IN  IF x.ok THEN evict(x) ELSE evictOldest(x)

(***************************************************************************)
(* The operations.  wrote: writeCertAndPrivateKeyToFile succeeds; partial: *)
(* when it fails, it leaves a truncated file behind.                       *)
(***************************************************************************)
\* Bug variant: the certificate found in the database does not replace the
\* one the caller generated (cert.reset(findCert.release()) is missing).
addCertAndPrivateKeyKeepsOwnCert(d, n, v, wrote, partial) ==
    LET s  == <<n, v>>
        w0 == load(d)
        found == pure_find(w0, n)
        w1 == evict(deleteByHostname(w0, n))
        w2 == [w1 EXCEPT !.mem = Append(@, s)]
        wf == IF partial THEN Write(w2, [Now(w2) EXCEPT !.files[s] = "partial"]) ELSE w2
    IN  IF s \in ToSet(w0.mem) THEN Return(w0, "ok", s)
        ELSE IF found # NoCert THEN Return(w0, "ok", s)
        ELSE IF ~w1.ok THEN Return(w1, "evict", NoCert)
        ELSE IF \E r \in ToSet(w1.mem) : r[1] = n \/ r = s THEN Return(save(w1), "insert", NoCert)
        ELSE IF ~wrote THEN Return(save(sq_TXT_DB_delete(wf, s)), "write", NoCert)
        ELSE Return(save(addSize(Write(w2, [Now(w2) EXCEPT !.files[s] = "ok"]), s)), "ok", s)

addCertAndPrivateKey(d, n, v, wrote, partial) ==
    LET s  == <<n, v>>
        w0 == load(d)
        found == pure_find(w0, n)
        w1 == evict(deleteByHostname(w0, n))
        w2 == [w1 EXCEPT !.mem = Append(@, s)]
        wf == IF partial THEN Write(w2, [Now(w2) EXCEPT !.files[s] = "partial"]) ELSE w2
    IN  IF s \in ToSet(w0.mem) THEN Return(w0, "ok", s)
        ELSE IF found # NoCert THEN Return(w0, "ok", found)
        ELSE IF ~w1.ok THEN Return(w1, "evict", NoCert)
        ELSE IF \E r \in ToSet(w1.mem) : r[1] = n \/ r = s THEN Return(save(w1), "insert", NoCert)
        ELSE IF ~wrote THEN Return(save(sq_TXT_DB_delete(wf, s)), "write", NoCert)
        ELSE Return(save(addSize(Write(w2, [Now(w2) EXCEPT !.files[s] = "ok"]), s)), "ok", s)

purgeCert(d, n) ==
    LET x == deleteByHostname(load(d), n)
    IN  IF ~x.ok THEN Return(x, "absent", NoCert) ELSE Return(save(x), "ok", NoCert)

find(d, n) ==
    LET f == pure_find(load(d), n)
    IN  Return(load(d), IF f = NoCert THEN "absent" ELSE "ok", f)
(***************************************************************************)
(* Actions                                                                 *)
(***************************************************************************)

\* The operation's writes reach the disk and the lock is released (Locker's
\* destructor); or the process dies after the first k - 1 of its writes.
Commit(op, n, w) ==
    /\ \/ /\ disk' = Now(w)
          /\ last' = [op |-> op, name |-> n, cert |-> w.cert, why |-> w.why]
       \/ /\ Crashes
          /\ \E k \in 1..(Len(w.trail) - 1) : disk' = w.trail[k]
          /\ last' = NoResult
    /\ UNCHANGED expired

\* create(): an empty index, an empty certs/ and a size file holding 0.
Init ==
    /\ disk = [index |-> <<>>, files |-> [s \in Serials |-> "none"], size |-> 0]
    /\ expired = {}
    /\ last = NoResult

\* An ssl_crtd process stores a certificate it generated for name n.
AddCert ==
    \E n \in Names, v \in Versions, wrote, partial \in BOOLEAN :
        /\ wrote => ~partial
        /\ Commit("add", n, addCertAndPrivateKey(disk, n, v, wrote, partial))

\* purgeCert(n).
Purge == \E n \in Names : Commit("purge", n, purgeCert(disk, n))

\* find(n): a lookup, which writes nothing.
Find == \E n \in Names : Commit("find", n, find(disk, n))

\* Time passes and a certificate's notAfter date goes by.
Expire ==
    /\ \E s \in Serials \ expired : expired' = expired \cup {s}
    /\ UNCHANGED <<disk, last>>

Next == AddCert \/ Purge \/ Find \/ Expire

Spec == Init /\ [][Next]_vars

(***************************************************************************)
(* Properties                                                              *)
(***************************************************************************)

TypeOK ==
    /\ disk \in Disk
    /\ expired \subseteq Serials
    /\ last \in Results

\* The blocks of the files the index names.
IndexedBlocks(d) == FoldSeq(LAMBDA s, acc : acc + getFileSize(d, s), 0, d.index)

\* addSize and subSize keep the size file equal to the blocks taken by the
\* files of the rows in index.txt, across every eviction, purge and failed
\* write.
SizeAccounted == disk.size = IndexedBlocks(disk)

\* The eviction loop of addCertAndPrivateKey keeps the database within
\* max_db_size before a certificate is added: every row but the newest
\* fits, by the size file's count.
DbSizeBounded ==
    disk.size - (IF disk.index = <<>> THEN 0 ELSE getFileSize(disk, Last(disk.index)))
        <= MaxDbSize

\* Every row of index.txt has a readable certificate file (a failed write
\* takes its row out again), and a certificate addCertAndPrivateKey
\* returned as stored is in the index.
CertsServable ==
    /\ \A s \in ToSet(disk.index) : disk.files[s] = "ok"
    /\ (last.op = "add" /\ last.why = "ok") => last.cert \in ToSet(disk.index)

\* Line 329: addCertAndPrivateKey fails to make room only when "errors
\* prevented us from freeing enough space"; deleteOldestCertificate's only
\* error is an empty database, which takes no space.
NotWedged == ~(last.op = "add" /\ last.why = "evict")
=============================================================================
