------------------------ MODULE WriteAheadLogProofs ------------------------
(***************************************************************************)
(* Snapshot isolation of the write-ahead log, for any handles, pages and   *)
(* read marks, with kills and power failures.                              *)
(***************************************************************************)
EXTENDS WriteAheadLog, TLAPS, SequenceTheorems, FiniteSetTheorems, WellFoundedInduction

-----------------------------------------------------------------------------
(* Numbers *)

(* A set of natural numbers has a least one.                               *)
LEMMA LeastNumber ==
  ASSUME NEW S \in SUBSET Nat, S # {}
  PROVE  Min(S) \in S /\ \A x \in S : Min(S) <= x
<1>1. \E x \in S : \A y \in S : ~(<<y, x>> \in OpToRel(<, Nat))
  BY NatLessThanWellFounded, WFMin
<1>2. PICK x \in S : \A y \in S : ~(<<y, x>> \in OpToRel(<, Nat))
  BY <1>1
<1>3. \A y \in S : x <= y
  <2> SUFFICES ASSUME NEW y \in S, y < x PROVE FALSE
    OBVIOUS
  <2>1. <<y, x>> \in Nat \X Nat /\ <<y, x>>[1] = y /\ <<y, x>>[2] = x
    OBVIOUS
  <2>2. <<y, x>> \in OpToRel(<, Nat)
    BY <2>1 DEF OpToRel
  <2> QED BY <1>2, <2>2
<1> QED BY <1>3 DEF Min

(* A bounded one has a greatest.                                           *)
LEMMA GreatestNumber ==
  ASSUME NEW S \in SUBSET Nat, NEW n \in Nat, \A x \in S : x <= n, S # {}
  PROVE  Max(S) \in S /\ \A x \in S : x <= Max(S)
<1> DEFINE T == {n - x : x \in S}
<1>1. T \in SUBSET Nat /\ T # {}
  <2>1. \A x \in S : n - x \in Nat
    OBVIOUS
  <2>2. \A t \in T : t \in Nat
    BY <2>1
  <2> QED BY <2>2
<1>2. PICK t \in T : \A u \in T : t <= u
  BY <1>1, LeastNumber
<1>3. PICK m \in S : t = n - m
  OBVIOUS
<1>4. \A x \in S : m >= x
  <2> SUFFICES ASSUME NEW x \in S PROVE m >= x
    OBVIOUS
  <2>1. n - x \in T
    OBVIOUS
  <2>2. n - m <= n - x
    BY <1>2, <1>3, <2>1
  <2> QED BY <2>2
<1> QED BY <1>4 DEF Max

-----------------------------------------------------------------------------
(* Finding a page *)

(* The page p in the frames lo .. hi of F over the database file D.        *)
Find(F, D, p, lo, hi) ==
  LET found == {i \in lo .. hi : F[i].page = p}
      last == IF found = {} THEN 0 ELSE Max(found)
  IN  IF last = 0 THEN D[p] ELSE F[last].val

(* sqlite3WalFindFrame looks in the log and the database file.             *)
LEMMA FindFrame ==
  \A p, lo, hi : sqlite3WalFindFrame(p, lo, hi) = Find(wal.frames, db, p, lo, hi)
BY DEF sqlite3WalFindFrame, newestFrame, Find

(* A page with no frame comes from the database file.                      *)
LEMMA FindMiss ==
  ASSUME NEW F, NEW D, NEW p, NEW lo, NEW hi, \A i \in lo .. hi : F[i].page # p
  PROVE  Find(F, D, p, lo, hi) = D[p]
<1>1. {i \in lo .. hi : F[i].page = p} = {}
  OBVIOUS
<1> QED BY <1>1 DEF Find

(* One with frames has a last one.                                         *)
LEMMA FindLast ==
  ASSUME NEW F, NEW p, NEW lo \in Nat \ {0}, NEW hi \in Nat, \E i \in lo .. hi : F[i].page = p
  PROVE  \E i \in lo .. hi :
           /\ F[i].page = p /\ \A j \in i + 1 .. hi : F[j].page # p
           /\ \A D : Find(F, D, p, lo, hi) = F[i].val
<1> DEFINE S == {i \in lo .. hi : F[i].page = p}
<1>1. S \in SUBSET Nat /\ S # {} /\ \A x \in S : x <= hi
  OBVIOUS
<1>2. Max(S) \in S /\ \A x \in S : x <= Max(S)
  BY <1>1, GreatestNumber
<1>3. \A D : Find(F, D, p, lo, hi) = F[Max(S)].val
  <2>1. Max(S) # 0
    BY <1>2
  <2> QED BY <1>1, <2>1 DEF Find
<1>4. \A j \in Max(S) + 1 .. hi : F[j].page # p
  <2> SUFFICES ASSUME NEW j \in Max(S) + 1 .. hi, F[j].page = p PROVE FALSE
    OBVIOUS
  <2>1. Max(S) \in Nat /\ Max(S) \in lo .. hi
    BY <1>2
  <2>2. j \in lo .. hi /\ j > Max(S)
    BY <2>1
  <2>3. j \in S
    BY <2>2
  <2> QED BY <1>2, <2>1, <2>2, <2>3
<1> QED BY <1>2, <1>3, <1>4

(* It is the one that is read.                                             *)
LEMMA FindHit ==
  ASSUME NEW F, NEW D, NEW p, NEW lo \in Nat \ {0}, NEW hi \in Nat, NEW i \in lo .. hi,
         F[i].page = p, \A j \in i + 1 .. hi : F[j].page # p
  PROVE  Find(F, D, p, lo, hi) = F[i].val
<1>1. PICK k \in lo .. hi : /\ F[k].page = p /\ \A j \in k + 1 .. hi : F[j].page # p
                            /\ \A E : Find(F, E, p, lo, hi) = F[k].val
  BY FindLast
<1>2. k = i
  BY <1>1
<1> QED BY <1>1, <1>2

(* What is read depends on the database file only for a page without a     *)
(* frame ...                                                               *)
LEMMA FindSame ==
  ASSUME NEW F, NEW D, NEW E, NEW p, NEW lo \in Nat \ {0}, NEW hi \in Nat,
         D[p] = E[p] \/ \E i \in lo .. hi : F[i].page = p
  PROVE  Find(F, E, p, lo, hi) = Find(F, D, p, lo, hi)
<1>1. CASE \E i \in lo .. hi : F[i].page = p
  <2>1. PICK i \in lo .. hi : /\ F[i].page = p /\ \A j \in i + 1 .. hi : F[j].page # p
                              /\ \A X : Find(F, X, p, lo, hi) = F[i].val
    BY ONLY <1>1, lo \in Nat \ {0}, hi \in Nat, FindLast
  <2> QED BY <2>1
<1>2. CASE \A i \in lo .. hi : F[i].page # p
  <2>1. Find(F, D, p, lo, hi) = D[p] /\ Find(F, E, p, lo, hi) = E[p]
    BY <1>2, FindMiss
  <2> QED BY <1>2, <2>1
<1> QED BY <1>1, <1>2

(* ... and otherwise on the frames it may be found in.                     *)
LEMMA FindSameFrames ==
  ASSUME NEW F, NEW G, NEW D, NEW p, NEW lo \in Nat \ {0}, NEW hi \in Nat,
         \A i \in lo .. hi : F[i] = G[i]
  PROVE  Find(G, D, p, lo, hi) = Find(F, D, p, lo, hi)
<1>1. CASE \E i \in lo .. hi : F[i].page = p
  <2>1. PICK i \in lo .. hi : /\ F[i].page = p /\ \A j \in i + 1 .. hi : F[j].page # p
                              /\ \A X : Find(F, X, p, lo, hi) = F[i].val
    BY ONLY <1>1, lo \in Nat \ {0}, hi \in Nat, FindLast
  <2>2. G[i].page = p /\ \A j \in i + 1 .. hi : G[j].page # p
    <3>1. \A j \in i + 1 .. hi : j \in lo .. hi
      OBVIOUS
    <3> QED BY <2>1, <3>1
  <2>3. Find(G, D, p, lo, hi) = G[i].val
    BY <2>2, FindHit
  <2> QED BY <2>1, <2>3
<1>2. CASE \A i \in lo .. hi : F[i].page # p
  <2>1. Find(F, D, p, lo, hi) = D[p] /\ Find(G, D, p, lo, hi) = D[p]
    BY <1>2, FindMiss
  <2> QED BY <2>1
<1> QED BY <1>1, <1>2

(* The frames below a later start do not matter for a page that has one    *)
(* from there on.                                                          *)
LEMMA FindFrom ==
  ASSUME NEW F, NEW D, NEW E, NEW p, NEW lo \in Nat \ {0}, NEW from \in Nat \ {0}, NEW hi \in Nat,
         lo <= from, \E i \in from .. hi : F[i].page = p
  PROVE  Find(F, D, p, from, hi) = Find(F, E, p, lo, hi)
<1>1. PICK i \in from .. hi : /\ F[i].page = p /\ \A j \in i + 1 .. hi : F[j].page # p
                              /\ \A X : Find(F, X, p, from, hi) = F[i].val
  BY FindLast
<1>2. i \in lo .. hi
  OBVIOUS
<1>3. Find(F, E, p, lo, hi) = F[i].val
  BY <1>1, <1>2, FindHit
<1> QED BY <1>1, <1>3

-----------------------------------------------------------------------------
(* The inductive invariant.  Its parts take what they speak of as          *)
(* arguments, F for the frames of the log, D for the database file, S for  *)
(* the wal-index, I for the last committed database, n for the salts drawn *)
(* and r for a handle's record, so that they apply before and after a step.*)

CkSums == Seq(Nat \cup (Nat \X Nat \X BOOLEAN))
Headers == [mxFrame : Nat, salt : Nat, cksum : CkSums]
FrameSet == [salt : Nat, page : Nat, val : Nat, commit : BOOLEAN, cksum : CkSums]
LogFiles == [header : Nat, frames : Seq(FrameSet)]
Images == [Pages -> Nat]
ConnPcs == {"idle", "begin", "lockZero", "scan", "claim", "lockMark", "check",
            "reading", "restart", "header", "frames"}
Handles ==
  [pc : ConnPcs, hdr : Headers, lock : -1 .. WAL_NREADER - 1, slot : 0 .. WAL_NREADER - 1,
   mark : Nat, minFrame : Nat, changed : BOOLEAN, stamp : Nat, pages : SUBSET Pages,
   todo : SUBSET Pages, seen : Images]
Indexes == [init : BOOLEAN, hdr : Headers, nBackfill : Nat, marks : [Slots -> Nat]]
CkptPcs == {"idle", "marks", "copy", "restart", "newHeader"}
Ckpts == [pc : CkptPcs, hdr : Headers, slot : Nat \ {0}, y : Nat \cup {-1}, safe : Nat,
          todo : SUBSET Nat]

FileTypes ==
  /\ wal \in LogFiles /\ db \in Images /\ disk \in [wal : LogFiles, db : Images]
  /\ log \in Seq(Images) /\ log # << >> /\ inflight \in Images
  /\ salts \in Nat /\ stamps \in Nat
SharedTypes ==
  /\ shm \in Indexes /\ ck \in Ckpts
  /\ con \in [Conns -> Handles] /\ writer \in Conns \cup {None, "ck"}

(* No salt in use is still to be drawn.                                    *)
SaltsDrawn == wal.header <= salts /\ disk.wal.header <= salts /\ shm.hdr.salt <= salts

(* Read from frame lo on, the log holds the last committed database.       *)
ImageFrom(F, D, m, I, lo) == \A p \in Pages : Find(F, D, p, lo, m) = I[p]
IndexOK(F, D, S, I) ==
  S.init => /\ S.nBackfill <= S.hdr.mxFrame /\ S.hdr.mxFrame <= Len(F)
            /\ ImageFrom(F, D, S.hdr.mxFrame, I, S.nBackfill + 1)

(* What a record says of its handle fits its place in the code ...         *)
Held(r) == r.pc \in {"reading", "restart", "header", "frames"} /\ r.lock >= 1
Placed(r) ==
  /\ r.pc \in {"idle", "begin", "lockZero", "scan", "claim", "lockMark"} => r.lock = -1
  /\ r.pc \in {"lockMark", "check"} => r.slot \in Slots
  /\ r.pc = "check" => r.lock = r.slot
  /\ r.pc \in {"reading", "restart"} => r.lock >= 0
  /\ r.pc \in {"header", "frames"} => r.lock >= 1
  /\ r.pc \in {"claim", "lockMark", "check"} /\ r.slot # 0 => r.mark <= r.hdr.mxFrame

(* ... a header that is still the last one stands for the last commit, and *)
(* with it a log found copied to its end still is ...                      *)
Same(h, S) == h.salt = S.hdr.salt /\ h.mxFrame = S.hdr.mxFrame
Version(r, S, I, n) ==
  /\ r.hdr.salt <= n
  /\ r.pc \notin {"idle", "frames"} =>
       /\ \/ r.hdr.salt < S.hdr.salt
          \/ r.hdr.salt = S.hdr.salt /\ r.hdr.mxFrame <= S.hdr.mxFrame
       /\ Same(r.hdr, S) => r.seen = I
       /\ Same(r.hdr, S) /\ (r.pc = "lockZero" \/ r.lock = 0) => S.nBackfill = S.hdr.mxFrame

(* ... a read lock keeps the log from starting again ...                   *)
Locked(r, F, D, S, I) ==
  r.lock >= 1 =>
    /\ 1 <= r.minFrame /\ r.minFrame <= S.nBackfill + 1
    /\ \A lo \in r.minFrame .. S.nBackfill + 1 : ImageFrom(F, D, S.hdr.mxFrame, I, lo)

(* ... and, once checked, what the snapshot needs from being copied over.  *)
Snapshot(r, F, D, S) ==
  /\ Held(r) =>
       /\ r.hdr.mxFrame <= S.hdr.mxFrame /\ S.marks[r.lock] <= r.hdr.mxFrame
       /\ ImageFrom(F, D, r.hdr.mxFrame, r.seen, r.minFrame)
  /\ r.lock = 0 => D = r.seen
Spared(r, K) ==
  /\ K.pc = "marks" /\ Held(r) =>
       /\ r.lock < K.slot => K.safe <= r.hdr.mxFrame
       /\ r.lock = K.slot /\ K.y >= 0 => K.y <= r.hdr.mxFrame \/ K.safe <= r.hdr.mxFrame
  /\ K.pc = "copy" => r.lock # 0 /\ (Held(r) => K.safe <= r.hdr.mxFrame)
  /\ K.pc = "newHeader" => r.lock <= 0

(* The writer has the last commit before it, and its k frames behind it.   *)
Written(r, F, m, k) ==
  /\ m + k <= Len(F)
  /\ \A i \in m + 1 .. m + k : F[i].page \in r.pages \ r.todo /\ F[i].val = r.stamp
  /\ \A p \in r.pages \ r.todo : \E i \in m + 1 .. m + k : F[i].page = p
Overlay(r, I) == [p \in Pages |-> IF p \in r.pages THEN r.stamp ELSE I[p]]
Writing(c, r, w, S, I) ==
  /\ r.pc \in {"restart", "header", "frames"} => w = c
  /\ w = c =>
       /\ r.pc \in {"restart", "scan", "claim", "lockMark", "check", "header", "frames"}
       /\ r.hdr.mxFrame = S.hdr.mxFrame /\ r.seen = I /\ r.hdr.salt >= S.hdr.salt
       /\ r.pages # {} /\ r.todo \subseteq r.pages
       /\ r.pc # "frames" => r.todo = r.pages
Appending(r, F, S, I, L) ==
  r.pc = "frames" =>
    /\ Written(r, F, S.hdr.mxFrame, Cardinality(r.pages \ r.todo))
    /\ r.todo = {} => L = Overlay(r, I)

Fits(c, r) ==
  /\ shm.init \/ r.pc = "idle"
  /\ Placed(r) /\ Version(r, shm, image, salts) /\ Locked(r, wal.frames, db, shm, image)
  /\ Snapshot(r, wal.frames, db, shm) /\ Spared(r, ck)
  /\ Writing(c, r, writer, shm, image) /\ Appending(r, wal.frames, shm, image, inflight)

(* The checkpointer copies committed frames that are not copied yet.  What *)
(* it has to copy are newest frames of their pages, and the pages of the   *)
(* others are in the database file already.                                *)
Newest(F, i, m) == \A j \in i + 1 .. m : F[j].page # F[i].page
Backfilling(F, D, S, K, w, n) ==
  /\ S.init \/ (K.pc = "idle" /\ w = None)
  /\ K.pc \in {"marks", "copy"} =>
       S.nBackfill < K.hdr.mxFrame /\ K.hdr.mxFrame <= S.hdr.mxFrame /\ K.safe <= K.hdr.mxFrame
  /\ K.pc = "copy" =>
       /\ S.nBackfill < K.safe /\ K.todo \subseteq S.nBackfill + 1 .. K.safe
       /\ \A i \in K.todo : Newest(F, i, K.hdr.mxFrame)
       /\ \A i \in S.nBackfill + 1 .. K.safe :
            Newest(F, i, K.hdr.mxFrame) /\ F[i].page \in Pages =>
              i \in K.todo \/ D[F[i].page] = F[i].val
  /\ K.pc = "newHeader" <=> w = "ck"
  /\ K.pc = "newHeader" => S.hdr.mxFrame = 0 /\ K.hdr.salt <= n

WalInv ==
  /\ FileTypes /\ SharedTypes /\ SaltsDrawn
  /\ IndexOK(wal.frames, db, shm, image)
  /\ Backfilling(wal.frames, db, shm, ck, writer, salts)
  /\ \A c \in Conns : Fits(c, con[c])

-----------------------------------------------------------------------------
(* Records *)

(* The last image is one.                                                  *)
LEMMA ImageType == FileTypes => image \in Images
<1> SUFFICES ASSUME FileTypes PROVE image \in Images
  OBVIOUS
<1>1. log \in Seq(Images) /\ Len(log) \in Nat /\ log # << >>
  BY LenProperties DEF FileTypes
<1>2. Len(log) \in 1 .. Len(log)
  BY <1>1, EmptySeq
<1> QED BY <1>1, <1>2, ElementOfSeq DEF image, Last

(* The checksum of a log under a header alone.                             *)
LEMMA CkSumTypes == \A n \in Nat : <<n>> \in CkSums
BY DEF CkSums

(* The records everything starts from are well typed.                      *)
LEMMA StartTypes ==
  /\ zeroHeader \in Headers /\ Torn \in FrameSet
  /\ idleConn \in Handles /\ READMARK_NOT_USED \in Nat /\ 1 \in Slots /\ Slots \subseteq Nat \ {0}
  /\ idleCkpt \in Ckpts
<1>2. << >> \in CkSums
  BY EmptySeq DEF CkSums
<1>3. zeroHeader \in Headers
  BY CkSumTypes DEF zeroHeader, Header, Headers
<1>4. Torn \in FrameSet
  BY <1>2 DEF Torn, FrameSet
<1>5. WAL_NREADER \in Nat /\ WAL_NREADER >= 2
  BY Shape
<1>6. idleConn \in Handles
  <2>1. [p \in Pages |-> 0] \in Images
    BY DEF Images
  <2>2. -1 \in -1 .. WAL_NREADER - 1 /\ 0 \in 0 .. WAL_NREADER - 1
    BY <1>5
  <2> QED BY <1>3, <2>1, <2>2 DEF idleConn, Handles, ConnPcs
<1>7. READMARK_NOT_USED \in Nat
  <2>1. maxStamp \in Nat /\ Cardinality(Pages) \in Nat
    BY Shape, FS_CardinalityType
  <2> QED BY <2>1 DEF READMARK_NOT_USED
<1>8. 1 \in Slots /\ Slots \subseteq Nat \ {0}
  BY <1>5 DEF Slots
<1>9. idleCkpt \in Ckpts
  BY <1>3 DEF idleCkpt, CkptPcs, Ckpts
<1> QED BY <1>3, <1>4, <1>6, <1>7, <1>8, <1>9

(* What the fields of a handle's record and of the wal-index are.          *)
LEMMA HandleFields ==
  ASSUME NEW r \in Handles
  PROVE  /\ r.pc \in ConnPcs /\ r.hdr \in Headers /\ r.hdr.mxFrame \in Nat /\ r.hdr.salt \in Nat
         /\ r.lock \in -1 .. WAL_NREADER - 1 /\ r.slot \in 0 .. WAL_NREADER - 1
         /\ r.mark \in Nat /\ r.minFrame \in Nat /\ r.stamp \in Nat /\ r.seen \in Images
         /\ r.lock \in Int /\ r.slot \in Nat /\ (r.lock >= 1 => r.lock \in Slots)
<1>1. WAL_NREADER \in Nat
  BY Shape
<1> QED BY <1>1 DEF Handles, Headers, Slots

(* ... and of the wal-index.                                               *)
LEMMA IndexFields ==
  ASSUME NEW S \in Indexes
  PROVE  /\ S.hdr \in Headers /\ S.hdr.mxFrame \in Nat /\ S.hdr.salt \in Nat /\ S.nBackfill \in Nat
         /\ S.marks \in [Slots -> Nat]
BY DEF Indexes, Headers

(* A handle that is out of the way fits wherever it does not write.        *)
LEMMA IdleFits ==
  ASSUME NEW r \in Handles, NEW c, NEW F, NEW D, NEW S, NEW I, NEW n, NEW K, NEW w, NEW L,
         r.pc = "idle", r.lock = -1, r.hdr.salt <= n, w # c
  PROVE  /\ Placed(r) /\ Version(r, S, I, n) /\ Locked(r, F, D, S, I) /\ Snapshot(r, F, D, S)
         /\ Spared(r, K) /\ Writing(c, r, w, S, I) /\ Appending(r, F, S, I, L)
<1>1. Placed(r) /\ ~Held(r)
  BY DEF Placed, Held
<1>2. Version(r, S, I, n) /\ Locked(r, F, D, S, I)
  BY DEF Version, Locked
<1>3. Snapshot(r, F, D, S) /\ Spared(r, K) /\ Writing(c, r, w, S, I) /\ Appending(r, F, S, I, L)
  BY <1>1 DEF Snapshot, Spared, Writing, Appending
<1> QED BY <1>1, <1>2, <1>3

(* The fresh record is such a one.                                         *)
LEMMA IdleConn ==
  ASSUME SharedTypes, salts \in Nat, NEW c \in Conns, writer # c PROVE Fits(c, idleConn)
<1>1. /\ idleConn.pc = "idle" /\ idleConn.lock = -1 /\ idleConn.hdr.salt <= salts
  BY DEF idleConn, zeroHeader, Header
<1> QED BY <1>1, StartTypes, IdleFits DEF Fits

(* A step that changes one handle only keeps the invariant if the handle   *)
(* fits.                                                                   *)
LEMMA HandleStep ==
  ASSUME WalInv, NEW c \in Conns, NEW r \in Handles, Fits(c, r), Step(c, r),
         UNCHANGED <<wal, db, disk, shm, ck, writer, salts, log, inflight>>, stamps' \in Nat
  PROVE  WalInv'
<1>1. con \in [Conns -> Handles] /\ con' = [con EXCEPT ![c] = r]
  BY DEF WalInv, SharedTypes, Step
<1>2. FileTypes' /\ SharedTypes' /\ SaltsDrawn' /\ image' = image
  BY <1>1 DEF WalInv, FileTypes, SharedTypes, SaltsDrawn, image
<1>3. IndexOK(wal.frames, db, shm, image)' /\ Backfilling(wal.frames, db, shm, ck, writer, salts)'
  BY <1>2 DEF WalInv
<1>4. ASSUME NEW d \in Conns PROVE Fits(d, con[d])'
  <2>1. Fits(d, con'[d])
    BY <1>1 DEF WalInv
  <2> QED BY <1>2, <2>1 DEF Fits
<1> QED BY <1>2, <1>3, <1>4 DEF WalInv

(* So it is with a step of a reader.                                       *)
LEMMA ReadStepKeeps ==
  ASSUME WalInv, NEW c \in Conns, NEW r \in Handles, Fits(c, r), ReadStep(c, r) PROVE WalInv'
BY HandleStep DEF ReadStep, files, bounds, history, WalInv, FileTypes

(* The header that has just been read fits.                                *)
LEMMA ReadHdrKeeps == ASSUME WalInv, NEW c \in Conns, walIndexReadHdr(c) PROVE WalInv'
<1> DEFINE r == [idleConn EXCEPT !.pc = "begin", !.hdr = shm.hdr, !.seen = image]
<1>1. con[c].pc = "idle" /\ shm.init /\ ReadStep(c, r)
  BY DEF walIndexReadHdr
<1>2. idleConn \in Handles /\ shm.hdr \in Headers /\ image \in Images
  BY StartTypes, ImageType, IndexFields DEF WalInv, SharedTypes
<1>3. r \in Handles /\ r.pc = "begin" /\ r.lock = -1 /\ r.hdr = shm.hdr /\ r.seen = image
  BY <1>2 DEF Handles, ConnPcs, idleConn
<1> HIDE DEF r
<1>4. writer # c
  BY <1>1 DEF WalInv, Fits, Writing
<1>5. Placed(r) /\ ~Held(r)
  BY <1>3 DEF Placed, Held
<1>6. Version(r, shm, image, salts)
  <2>1. shm.hdr.salt <= salts /\ shm.hdr.mxFrame \in Nat
    BY IndexFields DEF WalInv, SaltsDrawn, SharedTypes
  <2> QED BY <1>3, <2>1 DEF Version
<1>7. /\ Locked(r, wal.frames, db, shm, image) /\ Snapshot(r, wal.frames, db, shm) /\ Spared(r, ck)
      /\ Writing(c, r, writer, shm, image) /\ Appending(r, wal.frames, shm, image, inflight)
  BY <1>3, <1>4, <1>5 DEF Locked, Snapshot, Spared, Writing, Appending
<1> QED BY <1>1, <1>3, <1>5, <1>6, <1>7, ReadStepKeeps DEF Fits

(* A handle without a lock that only moves on in its search for one fits.  *)
LEMMA MovesOn ==
  ASSUME WalInv, NEW c \in Conns, NEW r \in Handles,
         con[c].pc \in {"begin", "lockZero", "scan", "claim", "lockMark", "check"},
         r.pc \in {"lockZero", "scan", "claim", "lockMark"}, r.hdr = con[c].hdr,
         r.lock = -1, r.seen = con[c].seen, r.pages = con[c].pages, r.todo = con[c].todo,
         Placed(r), r.pc = "lockZero" => shm.nBackfill = r.hdr.mxFrame /\ writer # c
  PROVE  Fits(c, r)
<1>1. con[c] \in Handles /\ Fits(c, con[c])
  BY DEF WalInv, SharedTypes
<1>2. shm.init /\ ~Held(r)
  BY <1>1 DEF Fits, Held
<1>3. Version(r, shm, image, salts)
  BY <1>1 DEF Fits, Version, Same
<1>4. /\ Locked(r, wal.frames, db, shm, image) /\ Snapshot(r, wal.frames, db, shm) /\ Spared(r, ck)
      /\ Appending(r, wal.frames, shm, image, inflight)
  BY <1>2 DEF Locked, Snapshot, Spared, Appending
<1>5. Writing(c, r, writer, shm, image)
  BY <1>1 DEF Fits, Writing
<1> QED BY <1>2, <1>3, <1>4, <1>5 DEF Fits

(* CheckBackfill chooses between the database file and a read mark.        *)
LEMMA CheckBackfillKeeps == ASSUME WalInv, NEW c \in Conns, CheckBackfill(c) PROVE WalInv'
<1> DEFINE pc == IF shm.nBackfill = con[c].hdr.mxFrame THEN "lockZero" ELSE "scan"
           r == [con[c] EXCEPT !.pc = pc]
<1>1. con[c] \in Handles /\ Fits(c, con[c]) /\ con[c].pc = "begin" /\ ReadStep(c, r)
  BY DEF WalInv, SharedTypes, CheckBackfill
<1>2. con[c].lock = -1 /\ writer # c
  BY <1>1 DEF Fits, Placed, Writing
<1>3. /\ r \in Handles /\ r.pc = pc /\ r.lock = -1 /\ r.hdr = con[c].hdr /\ r.seen = con[c].seen
      /\ r.pages = con[c].pages /\ r.todo = con[c].todo
  BY <1>1, <1>2 DEF Handles, ConnPcs
<1> HIDE DEF r
<1>4. Placed(r)
  BY <1>3 DEF Placed
<1> QED BY <1>1, <1>2, <1>3, <1>4, MovesOn, ReadStepKeeps

(* A log that is copied to its end is all in the database file.            *)
LEMMA CopiedLog == ASSUME WalInv, shm.init, shm.nBackfill = shm.hdr.mxFrame PROVE db = image
<1>1. shm.hdr.mxFrame \in Nat /\ ImageFrom(wal.frames, db, shm.hdr.mxFrame, image, shm.nBackfill + 1)
  BY IndexFields DEF WalInv, SharedTypes, IndexOK
<1>2. ASSUME NEW p \in Pages PROVE db[p] = image[p]
  <2>1. \A i \in shm.nBackfill + 1 .. shm.hdr.mxFrame : wal.frames[i].page # p
    BY <1>1
  <2>2. Find(wal.frames, db, p, shm.nBackfill + 1, shm.hdr.mxFrame) = db[p]
    BY <2>1, FindMiss
  <2> QED BY <1>1, <2>2 DEF ImageFrom
<1> QED BY <1>2, ImageType DEF WalInv, FileTypes, Images

(* The whole log is in the database file while that is locked.             *)
LEMMA LockZeroKeeps == ASSUME WalInv, NEW c \in Conns, LockZero(c) PROVE WalInv'
<1>1. con[c] \in Handles /\ Fits(c, con[c]) /\ con[c].pc = "lockZero"
  BY DEF WalInv, SharedTypes, LockZero
<1>2. con[c].lock = -1 /\ writer # c /\ shm.init
  BY <1>1 DEF Fits, Placed, Writing
<1>3. CASE lockedZero
  <2> DEFINE r == [con[c] EXCEPT !.pc = "scan"]
  <2>1. ReadStep(c, r)
    BY <1>3 DEF LockZero
  <2>2. /\ r \in Handles /\ r.pc = "scan" /\ r.lock = -1 /\ r.hdr = con[c].hdr
        /\ r.seen = con[c].seen /\ r.pages = con[c].pages /\ r.todo = con[c].todo
    BY <1>1, <1>2 DEF Handles, ConnPcs
  <2> HIDE DEF r
  <2>3. Placed(r)
    BY <2>2 DEF Placed
  <2> QED BY <1>1, <2>1, <2>2, <2>3, MovesOn, ReadStepKeeps
<1>4. CASE ~lockedZero /\ shm.hdr = con[c].hdr
  <2> DEFINE r == [con[c] EXCEPT !.pc = "reading", !.lock = 0]
  <2>1. ReadStep(c, r) /\ ck.pc # "copy"
    BY <1>4 DEF LockZero, lockedZero
  <2>2. WAL_NREADER \in Nat /\ WAL_NREADER >= 2
    BY Shape
  <2>3. 0 \in -1 .. WAL_NREADER - 1
    BY <2>2
  <2>4. r \in Handles /\ r.pc = "reading" /\ r.lock = 0 /\ r.hdr = con[c].hdr /\ r.seen = con[c].seen
    BY <1>1, <2>3 DEF Handles, ConnPcs
  <2> HIDE DEF r
  <2>5. Placed(r) /\ ~Held(r)
    BY <2>4 DEF Placed, Held
  <2>6. con[c].seen = image /\ shm.nBackfill = shm.hdr.mxFrame
    BY <1>1, <1>4 DEF Fits, Version, Same
  <2>7. Version(r, shm, image, salts)
    BY <1>1, <2>4, <2>6 DEF Fits, Version, Same
  <2>8. db = image
    BY <1>2, <2>6, CopiedLog
  <2>9. Snapshot(r, wal.frames, db, shm)
    BY <2>4, <2>5, <2>6, <2>8 DEF Snapshot
  <2>10. /\ Locked(r, wal.frames, db, shm, image) /\ Spared(r, ck)
         /\ Writing(c, r, writer, shm, image) /\ Appending(r, wal.frames, shm, image, inflight)
    BY <1>2, <2>1, <2>4, <2>5 DEF Locked, Spared, Writing, Appending
  <2> QED BY <1>2, <2>1, <2>4, <2>5, <2>7, <2>9, <2>10, ReadStepKeeps DEF Fits
<1>5. CASE ~lockedZero /\ shm.hdr # con[c].hdr
  <2>1. ReadStep(c, idleConn)
    BY <1>5 DEF LockZero
  <2> QED BY <1>2, <2>1, IdleConn, StartTypes, ReadStepKeeps DEF WalInv, FileTypes
<1> QED BY <1>3, <1>4, <1>5

(* What is said of the wal-index depends on its header's frame and salt,   *)
(* on nBackfill and on the marks that are held.                            *)
LEMMA SameIndex ==
  ASSUME NEW S, NEW T, T.init = S.init, T.nBackfill = S.nBackfill,
         T.hdr.mxFrame = S.hdr.mxFrame, T.hdr.salt = S.hdr.salt
  PROVE  /\ \A F, D, I : IndexOK(F, D, S, I) => IndexOK(F, D, T, I)
         /\ \A F, D, K, w, n : Backfilling(F, D, S, K, w, n) => Backfilling(F, D, T, K, w, n)
         /\ \A r, I, n : Version(r, S, I, n) => Version(r, T, I, n)
         /\ \A r, F, D, I : Locked(r, F, D, S, I) => Locked(r, F, D, T, I)
         /\ \A r, F, D : (r.lock >= 1 => T.marks[r.lock] = S.marks[r.lock]) /\ Snapshot(r, F, D, S)
                           => Snapshot(r, F, D, T)
         /\ \A c, r, w, I : Writing(c, r, w, S, I) => Writing(c, r, w, T, I)
         /\ \A r, F, I, L : Appending(r, F, S, I, L) => Appending(r, F, T, I, L)
<1>1. \A F, D, I : IndexOK(F, D, S, I) => IndexOK(F, D, T, I)
  BY DEF IndexOK
<1>2. \A F, D, K, w, n : Backfilling(F, D, S, K, w, n) => Backfilling(F, D, T, K, w, n)
  BY DEF Backfilling
<1>3. \A r, I, n : Version(r, S, I, n) => Version(r, T, I, n)
  BY DEF Version, Same
<1>4. \A r, F, D, I : Locked(r, F, D, S, I) => Locked(r, F, D, T, I)
  BY DEF Locked
<1>5. \A r, F, D : (r.lock >= 1 => T.marks[r.lock] = S.marks[r.lock]) /\ Snapshot(r, F, D, S)
                     => Snapshot(r, F, D, T)
  BY DEF Snapshot, Held
<1>6. \A c, r, w, I : Writing(c, r, w, S, I) => Writing(c, r, w, T, I)
  BY DEF Writing
<1>7. \A r, F, I, L : Appending(r, F, S, I, L) => Appending(r, F, T, I, L)
  BY DEF Appending
<1> QED BY <1>1, <1>2, <1>3, <1>4, <1>5, <1>6, <1>7

(* The mark that is chosen is one that is not beyond the snapshot.         *)
LEMMA ScanMarksKeeps == ASSUME WalInv, NEW c \in Conns, ScanMarks(c) PROVE WalInv'
<1> DEFINE usable == {i \in Slots : shm.marks[i] <= con[c].hdr.mxFrame}
           best == IF usable = {} THEN 0 ELSE Max({shm.marks[i] : i \in usable})
           slot == IF usable = {} THEN 0 ELSE Max({i \in usable : shm.marks[i] = best})
           pc == IF best < con[c].hdr.mxFrame \/ slot = 0 THEN "claim" ELSE "lockMark"
           r == [con[c] EXCEPT !.slot = slot, !.mark = best, !.pc = pc]
<1>1. con[c] \in Handles /\ Fits(c, con[c]) /\ con[c].pc = "scan" /\ ReadStep(c, r)
  BY DEF WalInv, SharedTypes, ScanMarks
<1>2. con[c].lock = -1
  BY <1>1 DEF Fits, Placed
<1>3. /\ con[c].hdr.mxFrame \in Nat /\ shm.marks \in [Slots -> Nat] /\ Slots \subseteq Nat \ {0}
      /\ WAL_NREADER \in Nat /\ WAL_NREADER >= 2
  BY <1>1, HandleFields, IndexFields, StartTypes, Shape DEF WalInv, SharedTypes
<1>4. /\ best \in Nat /\ slot \in 0 .. WAL_NREADER - 1
      /\ slot # 0 => slot \in Slots /\ best <= con[c].hdr.mxFrame
  <2>1. CASE usable = {}
    BY <1>3, <2>1
  <2>2. CASE usable # {}
    <3> DEFINE M == {shm.marks[i] : i \in usable}
               N == {i \in usable : shm.marks[i] = best}
    <3>1. M \in SUBSET Nat /\ M # {} /\ \A x \in M : x <= con[c].hdr.mxFrame
      BY <1>3, <2>2
    <3>2. best = Max(M)
      BY <2>2
    <3>3. best \in M
      BY <1>3, <3>1, <3>2, GreatestNumber
    <3> HIDE DEF best
    <3>4. N \in SUBSET Nat /\ N # {} /\ \A x \in N : x <= WAL_NREADER
      BY <1>3, <3>3 DEF Slots
    <3>5. slot = Max(N)
      BY <2>2
    <3>6. slot \in N
      BY <1>3, <3>4, <3>5, GreatestNumber
    <3>7. slot \in Slots
      BY <3>6
    <3> QED BY <1>3, <3>1, <3>3, <3>7 DEF Slots
  <2> QED BY <2>1, <2>2
<1>5. pc \in {"claim", "lockMark"} /\ (pc = "lockMark" => slot # 0)
  OBVIOUS
<1> HIDE DEF usable, best, slot, pc
<1>6. /\ r \in Handles /\ r.pc = pc /\ r.lock = -1 /\ r.hdr = con[c].hdr /\ r.seen = con[c].seen
      /\ r.pages = con[c].pages /\ r.todo = con[c].todo /\ r.slot = slot /\ r.mark = best
  BY <1>1, <1>2, <1>4, <1>5 DEF Handles, ConnPcs
<1> HIDE DEF r
<1>7. Placed(r)
  BY <1>4, <1>5, <1>6 DEF Placed
<1> QED BY <1>1, <1>5, <1>6, <1>7, MovesOn, ReadStepKeeps

(* A handle that has to try again fits.                                    *)
LEMMA RetryFits ==
  ASSUME WalInv, NEW c \in Conns, con[c].pc \in {"claim", "lockMark", "check"}
  PROVE  retry(c) \in Handles /\ Fits(c, retry(c))
<1>1. CASE writer = c
  <2> DEFINE r == [con[c] EXCEPT !.pc = "scan", !.lock = -1]
  <2>1. con[c] \in Handles /\ WAL_NREADER \in Nat /\ WAL_NREADER >= 2
    BY Shape DEF WalInv, SharedTypes
  <2>2. -1 \in -1 .. WAL_NREADER - 1
    BY <2>1
  <2>3. /\ r \in Handles /\ r.pc = "scan" /\ r.lock = -1 /\ r.hdr = con[c].hdr
        /\ r.seen = con[c].seen /\ r.pages = con[c].pages /\ r.todo = con[c].todo
    BY <2>1, <2>2 DEF Handles, ConnPcs
  <2>4. retry(c) = r
    BY <1>1 DEF retry
  <2> HIDE DEF r
  <2>5. Placed(r)
    BY <2>3 DEF Placed
  <2> QED BY <2>3, <2>4, <2>5, MovesOn
<1>2. CASE writer # c
  BY <1>2, IdleConn, StartTypes DEF retry, WalInv, FileTypes
<1> QED BY <1>1, <1>2

(* Only a mark that nobody holds is given another value.                   *)
LEMMA MarksStep ==
  ASSUME WalInv, NEW c \in Conns, NEW r \in Handles, Fits(c, r), Step(c, r), r.lock = -1,
         NEW M \in [Slots -> Nat], shm' = [shm EXCEPT !.marks = M],
         \A d \in Conns : con[d].lock >= 1 => M[con[d].lock] = shm.marks[con[d].lock],
         UNCHANGED <<wal, db, disk, ck, writer, salts, stamps, log, inflight>>
  PROVE  WalInv'
<1>1. con \in [Conns -> Handles] /\ con' = [con EXCEPT ![c] = r]
  BY DEF WalInv, SharedTypes, Step
<1>2. /\ shm \in Indexes /\ shm' \in Indexes /\ shm'.init = shm.init /\ shm'.hdr = shm.hdr
      /\ shm'.nBackfill = shm.nBackfill /\ shm'.marks = M
  BY DEF WalInv, SharedTypes, Indexes
<1>3. FileTypes' /\ SharedTypes' /\ SaltsDrawn' /\ image' = image
  BY <1>1, <1>2 DEF WalInv, FileTypes, SharedTypes, SaltsDrawn, image
<1>4. IndexOK(wal.frames, db, shm', image) /\ Backfilling(wal.frames, db, shm', ck, writer, salts)
  BY <1>2, SameIndex DEF WalInv
<1>5. ASSUME NEW d \in Conns PROVE Fits(d, con[d])'
  <2>1. Fits(d, con'[d]) /\ (con'[d].lock >= 1 => M[con'[d].lock] = shm.marks[con'[d].lock])
    BY <1>1 DEF WalInv
  <2> DEFINE q == con'[d]
  <2>2. /\ shm'.init \/ q.pc = "idle"
        /\ Placed(q) /\ Version(q, shm', image, salts) /\ Locked(q, wal.frames, db, shm', image)
        /\ Snapshot(q, wal.frames, db, shm') /\ Spared(q, ck)
        /\ Writing(d, q, writer, shm', image) /\ Appending(q, wal.frames, shm', image, inflight)
    BY <1>2, <2>1, SameIndex DEF Fits
  <2> QED BY <1>3, <2>2 DEF Fits
<1> QED BY <1>3, <1>4, <1>5 DEF WalInv

(* ClaimMark sets a mark nobody reads under to the end of the snapshot.    *)
LEMMA ClaimMarkKeeps == ASSUME WalInv, NEW c \in Conns, ClaimMark(c) PROVE WalInv'
<1> DEFINE free == {i \in Slots : markFree(i)}
<1>1. con[c] \in Handles /\ Fits(c, con[c]) /\ con[c].pc = "claim" /\ con[c].lock = -1
  BY DEF WalInv, SharedTypes, ClaimMark, Fits, Placed
<1>2. con[c].hdr.mxFrame \in Nat /\ shm.marks \in [Slots -> Nat] /\ Slots \subseteq Nat \ {0}
  BY <1>1, HandleFields, IndexFields, StartTypes DEF WalInv, SharedTypes
<1>3. CASE free # {} /\ shm' = [shm EXCEPT !.marks[Min(free)] = con[c].hdr.mxFrame]
  <2>1. Min(free) \in Slots /\ markFree(Min(free))
    <3>1. free \in SUBSET Nat
      BY <1>2
    <3>2. Min(free) \in free
      BY <1>3, <3>1, LeastNumber
    <3> QED BY <3>2
  <2>2. PICK i \in Slots : i = Min(free) /\ markFree(i)
    BY <2>1
  <2> DEFINE r == [con[c] EXCEPT !.slot = i, !.mark = con[c].hdr.mxFrame, !.pc = "lockMark"]
             M == [shm.marks EXCEPT ![i] = con[c].hdr.mxFrame]
  <2>3. Step(c, r) /\ UNCHANGED <<wal, db, disk, ck, writer, salts, stamps, log, inflight>>
    <3>1. ~(free = {})
      BY <1>3
    <3> QED BY <1>3, <2>2, <3>1 DEF ClaimMark, files, bounds, history
  <2>4. shm' = [shm EXCEPT !.marks = M] /\ M \in [Slots -> Nat]
    BY <1>2, <1>3, <2>2
  <2>5. i \in 0 .. WAL_NREADER - 1
    BY Shape DEF Slots
  <2>6. /\ r \in Handles /\ r.pc = "lockMark" /\ r.lock = -1 /\ r.hdr = con[c].hdr
        /\ r.seen = con[c].seen /\ r.pages = con[c].pages /\ r.todo = con[c].todo
        /\ r.slot = i /\ r.mark = con[c].hdr.mxFrame
    BY <1>1, <1>2, <2>5 DEF Handles, ConnPcs
  <2> HIDE DEF r
  <2>7. Placed(r)
    BY <1>2, <2>6 DEF Placed
  <2>8. Fits(c, r)
    BY <1>1, <2>6, <2>7, MovesOn
  <2>9. \A d \in Conns : con[d].lock >= 1 => M[con[d].lock] = shm.marks[con[d].lock]
    <3> SUFFICES ASSUME NEW d \in Conns, con[d].lock >= 1 PROVE M[con[d].lock] = shm.marks[con[d].lock]
      OBVIOUS
    <3>1. con[d].lock # i
      BY <2>2 DEF markFree, holders
    <3>2. con[d].lock \in Slots
      BY HandleFields DEF WalInv, SharedTypes
    <3> QED BY <1>2, <3>1, <3>2
  <2> HIDE DEF M
  <2> QED BY <2>3, <2>4, <2>6, <2>8, <2>9, MarksStep
<1>4. CASE con[c].slot # 0 /\ ReadStep(c, [con[c] EXCEPT !.pc = "lockMark"])
  <2> DEFINE r == [con[c] EXCEPT !.pc = "lockMark"]
  <2>1. /\ r \in Handles /\ r.pc = "lockMark" /\ r.lock = -1 /\ r.hdr = con[c].hdr
        /\ r.seen = con[c].seen /\ r.pages = con[c].pages /\ r.todo = con[c].todo
        /\ r.slot = con[c].slot /\ r.mark = con[c].mark
    BY <1>1 DEF Handles, ConnPcs
  <2>2. r.slot \in Slots /\ r.mark <= r.hdr.mxFrame
    <3>1. con[c].slot \in 0 .. WAL_NREADER - 1 /\ WAL_NREADER \in Nat
      BY <1>1, HandleFields, Shape
    <3>2. con[c].mark <= con[c].hdr.mxFrame
      BY <1>1, <1>4 DEF Fits, Placed
    <3> QED BY <1>4, <2>1, <3>1, <3>2 DEF Slots
  <2>3. ReadStep(c, r)
    BY <1>4
  <2> HIDE DEF r
  <2>4. Placed(r)
    BY <2>1, <2>2 DEF Placed
  <2> QED BY <1>1, <2>1, <2>3, <2>4, MovesOn, ReadStepKeeps
<1>5. CASE ReadStep(c, retry(c))
  BY <1>1, <1>5, RetryFits, ReadStepKeeps
<1> QED BY <1>3, <1>4, <1>5 DEF ClaimMark

(* A read lock holds on to the frames from nBackfill on.                   *)
LEMMA LockMarkKeeps == ASSUME WalInv, NEW c \in Conns, LockMark(c) PROVE WalInv'
<1>1. con[c] \in Handles /\ Fits(c, con[c]) /\ con[c].pc = "lockMark"
  BY DEF WalInv, SharedTypes, LockMark
<1>2. CASE lockedMarks
  BY <1>1, <1>2, RetryFits, ReadStepKeeps DEF LockMark
<1>3. CASE ~lockedMarks
  <2> DEFINE r == [con[c] EXCEPT !.pc = "check", !.lock = con[c].slot, !.minFrame = shm.nBackfill + 1]
  <2>1. ReadStep(c, r) /\ ck.pc # "newHeader"
    BY <1>3 DEF LockMark, lockedMarks
  <2>2. con[c].slot \in Slots /\ con[c].mark <= con[c].hdr.mxFrame /\ shm.init
    BY <1>1, StartTypes DEF Fits, Placed
  <2>3. /\ con[c].slot \in -1 .. WAL_NREADER - 1 /\ con[c].slot >= 1
        /\ shm.nBackfill \in Nat /\ shm.nBackfill + 1 \in Nat
    BY <2>2, Shape, IndexFields DEF Slots, WalInv, SharedTypes
  <2>4. /\ r \in Handles /\ r.pc = "check" /\ r.lock = con[c].slot /\ r.hdr = con[c].hdr
        /\ r.seen = con[c].seen /\ r.pages = con[c].pages /\ r.todo = con[c].todo
        /\ r.slot = con[c].slot /\ r.mark = con[c].mark /\ r.minFrame = shm.nBackfill + 1
    BY <1>1, <2>3 DEF Handles, ConnPcs
  <2> HIDE DEF r
  <2>5. Placed(r) /\ ~Held(r)
    BY <2>2, <2>4 DEF Placed, Held
  <2>6. Version(r, shm, image, salts)
    BY <1>1, <2>3, <2>4 DEF Fits, Version
  <2>7. Locked(r, wal.frames, db, shm, image)
    <3>1. ImageFrom(wal.frames, db, shm.hdr.mxFrame, image, shm.nBackfill + 1)
      BY <2>2 DEF WalInv, IndexOK
    <3>2. \A lo \in r.minFrame .. shm.nBackfill + 1 : lo = shm.nBackfill + 1
      BY <2>3, <2>4
    <3> QED BY <2>3, <2>4, <3>1, <3>2 DEF Locked
  <2>8. /\ Snapshot(r, wal.frames, db, shm) /\ Spared(r, ck)
        /\ Appending(r, wal.frames, shm, image, inflight)
    BY <2>1, <2>3, <2>4, <2>5 DEF Snapshot, Spared, Appending
  <2>9. Writing(c, r, writer, shm, image)
    BY <1>1, <2>4 DEF Fits, Writing
  <2> QED BY <2>1, <2>2, <2>4, <2>5, <2>6, <2>7, <2>8, <2>9, ReadStepKeeps DEF Fits
<1> QED BY <1>2, <1>3

(* A handle whose mark and header are still what they were reads the last  *)
(* commit.                                                                 *)
LEMMA CheckReadKeeps == ASSUME WalInv, NEW c \in Conns, CheckRead(c) PROVE WalInv'
<1> DEFINE same == shm.marks[con[c].slot] = con[c].mark /\ shm.hdr = con[c].hdr
<1>1. con[c] \in Handles /\ Fits(c, con[c]) /\ con[c].pc = "check" /\ shm.init
  BY DEF WalInv, SharedTypes, CheckRead, Fits
<1>2. CASE ~same
  BY <1>1, <1>2, RetryFits, ReadStepKeeps DEF CheckRead
<1>3. CASE same
  <2> DEFINE pc == IF writer = c THEN "header" ELSE "reading"
             r == [con[c] EXCEPT !.pc = pc]
  <2>1. ReadStep(c, r)
    BY <1>3 DEF CheckRead
  <2>2. /\ con[c].slot \in Slots /\ con[c].mark <= con[c].hdr.mxFrame /\ con[c].lock = con[c].slot
        /\ con[c].slot >= 1 /\ con[c].slot \in Nat
    <3>1. con[c].slot \in Slots /\ con[c].lock = con[c].slot
      BY <1>1 DEF Fits, Placed
    <3>2. con[c].slot >= 1 /\ con[c].slot \in Nat
      BY <3>1, Shape DEF Slots
    <3> QED BY <1>1, <3>1, <3>2 DEF Fits, Placed
  <2>3. /\ r \in Handles /\ r.pc = pc /\ r.lock = con[c].lock /\ r.hdr = con[c].hdr
        /\ r.seen = con[c].seen /\ r.pages = con[c].pages /\ r.todo = con[c].todo
        /\ r.minFrame = con[c].minFrame
    BY <1>1 DEF Handles, ConnPcs
  <2>4. pc \in {"header", "reading"} /\ (pc = "header" <=> writer = c)
    OBVIOUS
  <2> HIDE DEF r, pc
  <2>5. Placed(r) /\ Held(r)
    BY <2>2, <2>3, <2>4 DEF Placed, Held
  <2>6. Version(r, shm, image, salts) /\ con[c].seen = image
    BY <1>1, <1>3, <2>2, <2>3, <2>4 DEF Fits, Version, Same
  <2>7. Locked(r, wal.frames, db, shm, image)
    BY <1>1, <2>3 DEF Fits, Locked
  <2>8. Snapshot(r, wal.frames, db, shm)
    <3>1. con[c].minFrame \in con[c].minFrame .. shm.nBackfill + 1
      BY <1>1, <2>2, HandleFields, IndexFields DEF Fits, Locked, WalInv, SharedTypes
    <3>2. ImageFrom(wal.frames, db, shm.hdr.mxFrame, image, con[c].minFrame)
      BY <1>1, <2>2, <3>1 DEF Fits, Locked
    <3>3. r.lock # 0 /\ r.hdr.mxFrame <= shm.hdr.mxFrame /\ shm.marks[r.lock] <= r.hdr.mxFrame
      BY <1>1, <1>3, <2>2, <2>3, HandleFields
    <3>4. ImageFrom(wal.frames, db, r.hdr.mxFrame, r.seen, r.minFrame)
      BY <1>3, <2>3, <2>6, <3>2
    <3> QED BY <3>3, <3>4 DEF Snapshot
  <2>9. Spared(r, ck)
    <3>1. ck.pc \in {"marks", "copy"} => ck.safe <= r.hdr.mxFrame
      <4>1. /\ ck.safe \in Nat /\ ck.hdr.mxFrame \in Nat /\ shm.hdr.mxFrame \in Nat
            /\ r.hdr.mxFrame = shm.hdr.mxFrame
        BY <1>3, <2>3, IndexFields DEF WalInv, SharedTypes, Ckpts, Headers
      <4>2. ck.pc \in {"marks", "copy"} => ck.hdr.mxFrame <= shm.hdr.mxFrame /\ ck.safe <= ck.hdr.mxFrame
        BY DEF WalInv, Backfilling
      <4> QED BY <4>1, <4>2
    <3>2. (ck.pc = "newHeader" => r.lock <= 0) /\ r.lock # 0
      BY <1>1, <2>2, <2>3 DEF Fits, Spared
    <3> QED BY <3>1, <3>2 DEF Spared
  <2>10. Writing(c, r, writer, shm, image)
    BY <1>1, <2>3, <2>4 DEF Fits, Writing
  <2>11. Appending(r, wal.frames, shm, image, inflight)
    BY <2>3, <2>4 DEF Appending
  <2> QED BY <1>1, <2>1, <2>3, <2>5, <2>6, <2>7, <2>8, <2>9, <2>10, <2>11, ReadStepKeeps DEF Fits
<1> QED BY <1>2, <1>3

(* The end of a read transaction.                                          *)
LEMMA EndReadKeeps == ASSUME WalInv, NEW c \in Conns, sqlite3WalEndReadTransaction(c) PROVE WalInv'
<1>1. con[c].pc = "reading" /\ ReadStep(c, idleConn)
  BY DEF sqlite3WalEndReadTransaction
<1>2. writer # c
  BY <1>1 DEF WalInv, Fits, Writing
<1> QED BY <1>1, <1>2, IdleConn, StartTypes, ReadStepKeeps DEF WalInv, FileTypes

-----------------------------------------------------------------------------
(* The writer *)

(* What a change of the writer, by a handle or the checkpointer that is    *)
(* not one before or after, leaves to the other handles.                   *)
LEMMA OtherWriter ==
  ASSUME NEW d, NEW r, NEW w, NEW v, NEW S, NEW I, w # d, v # d, Writing(d, r, w, S, I)
  PROVE  \A T, J : Writing(d, r, v, T, J)
BY DEF Writing

(* Only the writer appends.                                                *)
LEMMA NotAppending ==
  ASSUME NEW d, NEW r, NEW w, NEW S, NEW I, w # d, Writing(d, r, w, S, I)
  PROVE  r.pc # "frames" /\ \A F, T, J, L : Appending(r, F, T, J, L)
BY DEF Writing, Appending

(* The lock is taken only with a snapshot that is the last commit.         *)
LEMMA BeginWriteKeeps ==
  ASSUME WalInv, NEW c \in Conns, sqlite3WalBeginWriteTransaction(c) PROVE WalInv'
<1>1. /\ con[c] \in Handles /\ Fits(c, con[c]) /\ con \in [Conns -> Handles]
      /\ con[c].pc = "reading" /\ writer = None /\ shm.hdr = con[c].hdr /\ writer' = c
  BY DEF WalInv, SharedTypes, sqlite3WalBeginWriteTransaction
<1>2. PICK s \in (SUBSET Pages) \ {{}} :
        Step(c, [con[c] EXCEPT !.pc = "restart", !.stamp = stamps', !.pages = s, !.todo = s])
  BY DEF sqlite3WalBeginWriteTransaction
<1>3. /\ stamps' = stamps + 1 /\ stamps' \in Nat
      /\ UNCHANGED <<wal, db, disk, shm, ck, salts, log, inflight>>
  BY DEF sqlite3WalBeginWriteTransaction, files, history, WalInv, FileTypes
<1>4. PICK r : r = [con[c] EXCEPT !.pc = "restart", !.stamp = stamps', !.pages = s, !.todo = s]
  OBVIOUS
<1>5. /\ r \in Handles /\ r.pc = "restart" /\ r.lock = con[c].lock /\ r.hdr = con[c].hdr
      /\ r.seen = con[c].seen /\ r.pages = s /\ r.todo = s /\ r.minFrame = con[c].minFrame
      /\ con' = [con EXCEPT ![c] = r]
  BY <1>1, <1>2, <1>3, <1>4 DEF Handles, ConnPcs, Step
<1>6. c # None /\ c # "ck" /\ None # "ck"
  BY Shape
<1>7. FileTypes' /\ SharedTypes' /\ SaltsDrawn' /\ image' = image
  BY <1>1, <1>3, <1>5 DEF WalInv, FileTypes, SharedTypes, SaltsDrawn, image
<1>8. IndexOK(wal.frames, db, shm, image) /\ Backfilling(wal.frames, db, shm, ck, c, salts)
  BY <1>1, <1>6 DEF WalInv, Backfilling, Fits
<1>9. /\ shm.init /\ Placed(r) /\ Version(r, shm, image, salts) /\ Locked(r, wal.frames, db, shm, image)
      /\ Snapshot(r, wal.frames, db, shm) /\ Spared(r, ck)
  <2>1. (Held(r) <=> Held(con[c])) /\ shm.init
    BY <1>1, <1>5 DEF Held, Fits
  <2>2. Placed(r) /\ Version(r, shm, image, salts) /\ Locked(r, wal.frames, db, shm, image)
    BY <1>1, <1>5 DEF Fits, Placed, Version, Locked
  <2>3. Snapshot(r, wal.frames, db, shm) /\ Spared(r, ck)
    BY <1>1, <1>5, <2>1 DEF Fits, Snapshot, Spared
  <2> QED BY <2>1, <2>2, <2>3
<1>10. Writing(c, r, c, shm, image) /\ Appending(r, wal.frames, shm, image, inflight)
  <2>1. con[c].seen = image /\ shm.hdr.salt \in Nat
    BY <1>1, IndexFields DEF Fits, Version, Same, WalInv, SharedTypes
  <2>2. s # {}
    OBVIOUS
  <2> QED BY <1>1, <1>5, <2>1, <2>2 DEF Writing, Appending
<1>11. ASSUME NEW d \in Conns PROVE Fits(d, con[d])'
  <2>1. CASE d = c
    <3>1. con'[d] = r
      BY <1>1, <1>5, <2>1
    <3> QED BY <1>1, <1>3, <1>7, <1>9, <1>10, <2>1, <3>1 DEF Fits
  <2>2. CASE d # c
    <3>1. con'[d] = con[d] /\ Fits(d, con[d]) /\ writer # d
      BY <1>1, <1>5, <2>2, Shape DEF WalInv
    <3>2. Writing(d, con[d], c, shm, image)
      BY <2>2, <3>1, OtherWriter DEF Fits
    <3> QED BY <1>1, <1>3, <1>7, <3>1, <3>2 DEF Fits
  <2> QED BY <2>1, <2>2
<1> QED BY <1>1, <1>3, <1>7, <1>8, <1>11 DEF WalInv

(* The log starts again: the new wal-index is well typed, and holds the    *)
(* last commit if the database file does.                                  *)
LEMMA Restarted ==
  ASSUME NEW h \in Headers, NEW m \in Nat, NEW T, T = walRestartHdr(h, m)
  PROVE  /\ T \in Indexes /\ T.init /\ T.hdr.mxFrame = 0 /\ T.hdr.salt = m /\ T.nBackfill = 0
         /\ T.hdr \in Headers
         /\ \A D \in Images, F \in Seq(FrameSet) : IndexOK(F, D, T, D)
<1>1. [h EXCEPT !.mxFrame = 0, !.salt = m] \in Headers
  BY DEF Headers
<1>2. [i \in Slots |-> IF i = 1 THEN 0 ELSE READMARK_NOT_USED] \in [Slots -> Nat]
  BY StartTypes
<1>3. T \in Indexes
  BY <1>1, <1>2 DEF walRestartHdr, Indexes
<1>4. T.init /\ T.hdr = [h EXCEPT !.mxFrame = 0, !.salt = m] /\ T.nBackfill = 0
  BY DEF walRestartHdr
<1>5. T.hdr.mxFrame = 0 /\ T.hdr.salt = m /\ T.hdr \in Headers
  BY <1>1, <1>4 DEF Headers
<1>6. ASSUME NEW D \in Images, NEW F \in Seq(FrameSet) PROVE IndexOK(F, D, T, D)
  <2>1. \A p \in Pages : Find(F, D, p, 1, 0) = D[p]
    BY FindMiss
  <2>2. Len(F) \in Nat
    BY LenProperties
  <2> QED BY <1>4, <1>5, <2>1, <2>2 DEF IndexOK, ImageFrom
<1> QED BY <1>3, <1>4, <1>5, <1>6

(* Handles without a mark are not disturbed by it.                         *)
LEMMA RestartedFits ==
  ASSUME NEW h \in Headers, NEW n \in Nat, NEW T, T = walRestartHdr(h, n + 1),
         NEW r \in Handles, NEW F, NEW D, NEW S, NEW I, NEW J,
         Version(r, S, I, n), Snapshot(r, F, D, S), r.lock < 1
  PROVE  Version(r, T, J, n + 1) /\ Locked(r, F, D, T, J) /\ Snapshot(r, F, D, T)
<1>1. T.hdr.salt = n + 1
  BY Restarted
<1>2. r.hdr.salt <= n /\ r.hdr.salt \in Nat /\ r.lock \in Int /\ ~Held(r)
  BY HandleFields DEF Version, Held
<1>3. r.hdr.salt < T.hdr.salt /\ r.hdr.salt <= n + 1
  BY <1>1, <1>2
<1>4. Version(r, T, J, n + 1)
  <2>1. ~Same(r.hdr, T)
    BY <1>3, <1>2, <1>1 DEF Same
  <2> QED BY <1>3, <2>1 DEF Version
<1>5. Locked(r, F, D, T, J) /\ Snapshot(r, F, D, T)
  BY <1>2 DEF Locked, Snapshot
<1> QED BY <1>4, <1>5

(* Starting the log again needs a writer that reads the database file, no  *)
(* handle that reads the log, and then no checkpoint is at work on it.     *)
LEMMA RestartLogKeeps == ASSUME WalInv, NEW c \in Conns, walRestartLog(c) PROVE WalInv'
<1>1. /\ con[c] \in Handles /\ Fits(c, con[c]) /\ con \in [Conns -> Handles]
      /\ con[c].pc = "restart" /\ writer = c /\ shm.init /\ con[c].seen = image
      /\ con[c].hdr.mxFrame = shm.hdr.mxFrame /\ con[c].hdr.salt >= shm.hdr.salt
      /\ con[c].pages # {} /\ con[c].todo = con[c].pages
  BY DEF WalInv, SharedTypes, walRestartLog, Fits, Writing
<1>2. UNCHANGED <<wal, db, disk, ck, writer, stamps, log, inflight>> /\ stamps' \in Nat
  BY DEF walRestartLog, files, history, WalInv, FileTypes
<1>3. -1 \in -1 .. WAL_NREADER - 1
  BY Shape
<1>4. CASE con[c].lock # 0 /\ Step(c, [con[c] EXCEPT !.pc = "header"]) /\ UNCHANGED <<shm, salts>>
  <2> DEFINE r == [con[c] EXCEPT !.pc = "header"]
  <2>1. /\ r \in Handles /\ r.pc = "header" /\ r.lock = con[c].lock /\ r.hdr = con[c].hdr
        /\ r.seen = con[c].seen /\ r.pages = con[c].pages /\ r.todo = con[c].todo
        /\ r.minFrame = con[c].minFrame /\ Step(c, r)
    BY <1>1, <1>4 DEF Handles, ConnPcs
  <2> HIDE DEF r
  <2>2. con[c].lock >= 1
    BY <1>1, <1>4, HandleFields DEF Fits, Placed
  <2>3. Placed(r) /\ (Held(r) <=> Held(con[c]))
    BY <1>1, <2>1, <2>2 DEF Placed, Held
  <2>4. Version(r, shm, image, salts) /\ Locked(r, wal.frames, db, shm, image)
    BY <1>1, <2>1 DEF Fits, Version, Locked
  <2>5. Snapshot(r, wal.frames, db, shm) /\ Spared(r, ck)
    BY <1>1, <2>1, <2>3 DEF Fits, Snapshot, Spared
  <2>6. Writing(c, r, writer, shm, image) /\ Appending(r, wal.frames, shm, image, inflight)
    BY <1>1, <2>1 DEF Writing, Appending
  <2> QED BY <1>1, <1>2, <1>4, <2>1, <2>3, <2>4, <2>5, <2>6, HandleStep DEF Fits
<1>5. CASE con[c].lock = 0 /\ Step(c, [con[c] EXCEPT !.pc = "scan", !.lock = -1]) /\ UNCHANGED <<shm, salts>>
  <2> DEFINE r == [con[c] EXCEPT !.pc = "scan", !.lock = -1]
  <2>1. /\ r \in Handles /\ r.pc = "scan" /\ r.lock = -1 /\ r.hdr = con[c].hdr
        /\ r.seen = con[c].seen /\ r.pages = con[c].pages /\ r.todo = con[c].todo /\ Step(c, r)
    BY <1>1, <1>3, <1>5 DEF Handles, ConnPcs
  <2> HIDE DEF r
  <2>2. Placed(r) /\ ~Held(r)
    BY <2>1 DEF Placed, Held
  <2>3. Version(r, shm, image, salts) /\ Locked(r, wal.frames, db, shm, image)
    BY <1>1, <2>1 DEF Fits, Version, Locked
  <2>4. Snapshot(r, wal.frames, db, shm) /\ Spared(r, ck)
    BY <2>1, <2>2 DEF Snapshot, Spared
  <2>5. Writing(c, r, writer, shm, image) /\ Appending(r, wal.frames, shm, image, inflight)
    BY <1>1, <2>1 DEF Writing, Appending
  <2> QED BY <1>1, <1>2, <1>5, <2>1, <2>2, <2>3, <2>4, <2>5, HandleStep DEF Fits
<1>6. CASE /\ con[c].lock = 0 /\ (\A i \in Slots : markFree(i)) /\ salts' = salts + 1
           /\ shm' = walRestartHdr(con[c].hdr, salts')
           /\ Step(c, [con[c] EXCEPT !.pc = "scan", !.lock = -1, !.hdr = shm'.hdr, !.changed = TRUE])
  <2>1. salts \in Nat /\ salts' \in Nat /\ con[c].hdr \in Headers
    BY <1>1, <1>6, HandleFields DEF WalInv, FileTypes
  <2>2. /\ shm' \in Indexes /\ shm'.init /\ shm'.hdr.mxFrame = 0 /\ shm'.hdr.salt = salts'
        /\ shm'.nBackfill = 0 /\ shm'.hdr \in Headers
        /\ \A D \in Images, F \in Seq(FrameSet) : IndexOK(F, D, shm', D)
    BY <1>6, <2>1, Restarted
  <2>3. PICK r : r = [con[c] EXCEPT !.pc = "scan", !.lock = -1, !.hdr = shm'.hdr, !.changed = TRUE]
    OBVIOUS
  <2>4. /\ r \in Handles /\ r.pc = "scan" /\ r.lock = -1 /\ r.hdr = shm'.hdr
        /\ r.seen = con[c].seen /\ r.pages = con[c].pages /\ r.todo = con[c].todo
        /\ con' = [con EXCEPT ![c] = r]
    BY <1>1, <1>3, <1>6, <2>2, <2>3 DEF Handles, ConnPcs, Step
  <2>5. FileTypes' /\ SharedTypes' /\ image' = image
    BY <1>1, <1>2, <2>1, <2>2, <2>4 DEF WalInv, FileTypes, SharedTypes, image
  <2>6. SaltsDrawn'
    <3>1. /\ wal.header \in Nat /\ disk.wal.header \in Nat /\ wal.header <= salts
          /\ disk.wal.header <= salts
      BY DEF WalInv, FileTypes, LogFiles, SaltsDrawn
    <3>2. wal.header <= salts' /\ disk.wal.header <= salts'
      BY <1>6, <2>1, <3>1
    <3> QED BY <1>2, <2>1, <2>2, <3>2 DEF SaltsDrawn
  <2>7. db = image /\ shm.nBackfill = shm.hdr.mxFrame
    <3>1. con[c].hdr.salt = shm.hdr.salt
      <4>1. con[c].hdr.salt < shm.hdr.salt \/ con[c].hdr.salt = shm.hdr.salt
        BY <1>1 DEF Fits, Version
      <4> QED BY <1>1, <4>1, HandleFields, IndexFields DEF WalInv, SharedTypes
    <3>2. shm.nBackfill = shm.hdr.mxFrame
      BY <1>1, <1>6, <3>1 DEF Fits, Version, Same
    <3> QED BY <1>1, <3>2, CopiedLog
  <2>8. IndexOK(wal.frames, db, shm', image)
    BY <2>2, <2>7 DEF WalInv, FileTypes, LogFiles
  <2>9. ck.pc \notin {"marks", "copy", "newHeader"}
    <3>1. c # "ck"
      BY Shape
    <3>2. ck.pc # "newHeader"
      BY <1>1, <3>1 DEF WalInv, Backfilling
    <3>3. ck.hdr.mxFrame \in Nat /\ shm.hdr.mxFrame \in Nat
      BY IndexFields DEF WalInv, SharedTypes, Ckpts, Headers
    <3>4. ck.pc \in {"marks", "copy"} =>
            shm.nBackfill < ck.hdr.mxFrame /\ ck.hdr.mxFrame <= shm.hdr.mxFrame
      BY DEF WalInv, Backfilling
    <3> QED BY <2>7, <3>2, <3>3, <3>4
  <2>10. Backfilling(wal.frames, db, shm', ck, writer, salts')
    <3>1. writer # "ck"
      BY <1>1, Shape
    <3> QED BY <2>2, <2>9, <3>1 DEF Backfilling
  <2>11. ASSUME NEW d \in Conns PROVE Fits(d, con[d])'
    <3>1. CASE d = c
      <4>1. con'[d] = r
        BY <1>1, <2>4, <3>1
      <4>2. Placed(r) /\ ~Held(r)
        BY <2>4 DEF Placed, Held
      <4>3. Version(r, shm', image, salts') /\ Locked(r, wal.frames, db, shm', image)
        BY <1>1, <2>1, <2>2, <2>4 DEF Version, Locked
      <4>4. Snapshot(r, wal.frames, db, shm') /\ Spared(r, ck)
        BY <2>4, <4>2 DEF Snapshot, Spared
      <4>5. Writing(c, r, writer, shm', image) /\ Appending(r, wal.frames, shm', image, inflight)
        BY <1>1, <2>1, <2>2, <2>4 DEF Writing, Appending
      <4> QED BY <1>2, <2>2, <2>5, <3>1, <4>1, <4>2, <4>3, <4>4, <4>5 DEF Fits
    <3>2. CASE d # c
      <4>1. con'[d] = con[d] /\ Fits(d, con[d]) /\ writer # d /\ con[d] \in Handles
        BY <1>1, <2>4, <3>2 DEF WalInv
      <4>2. con[d].lock < 1
        <5>1. \A i \in Slots : con[d].lock # i
          BY <1>6 DEF markFree, holders
        <5> QED BY <4>1, <5>1, HandleFields
      <4>3. /\ Version(con[d], shm', image, salts') /\ Locked(con[d], wal.frames, db, shm', image)
            /\ Snapshot(con[d], wal.frames, db, shm')
        BY <1>6, <2>1, <4>1, <4>2, RestartedFits DEF Fits
      <4>4. Writing(d, con[d], writer, shm', image) /\ Appending(con[d], wal.frames, shm', image, inflight)
        BY <4>1, OtherWriter, NotAppending DEF Fits
      <4> QED BY <1>2, <2>2, <2>5, <4>1, <4>3, <4>4 DEF Fits
    <3> QED BY <3>1, <3>2
  <2> QED BY <1>2, <2>5, <2>6, <2>8, <2>10, <2>11 DEF WalInv
<1> QED BY <1>4, <1>5, <1>6 DEF walRestartLog

(* A writer past the header has its frames still to write, whatever the    *)
(* header of the file says.                                                *)
LEMMA HeaderStep ==
  ASSUME WalInv, NEW c \in Conns, con[c].pc = "header", NEW r \in Handles, Step(c, r),
         r.pc = "frames", r.lock = con[c].lock, r.seen = con[c].seen, r.minFrame = con[c].minFrame,
         r.pages = con[c].pages, r.todo = con[c].todo, r.hdr.mxFrame = con[c].hdr.mxFrame,
         r.hdr.salt >= con[c].hdr.salt, r.hdr.salt <= salts',
         salts' \in Nat, salts <= salts', wal' \in LogFiles, wal'.frames = wal.frames,
         wal'.header <= salts', disk' \in [wal : LogFiles, db : Images], disk'.wal.header <= salts',
         UNCHANGED <<db, shm, ck, writer, stamps, log, inflight>>
  PROVE  WalInv'
<1>1. /\ con[c] \in Handles /\ Fits(c, con[c]) /\ con \in [Conns -> Handles] /\ shm.init
      /\ con' = [con EXCEPT ![c] = r] /\ salts \in Nat /\ writer = c
  BY DEF WalInv, SharedTypes, FileTypes, Fits, Writing, Step
<1>2. FileTypes' /\ SharedTypes' /\ image' = image
  BY <1>1 DEF WalInv, FileTypes, SharedTypes, image
<1>3. SaltsDrawn'
  <2>1. shm.hdr.salt \in Nat /\ shm.hdr.salt <= salts
    BY IndexFields DEF WalInv, SharedTypes, SaltsDrawn
  <2>2. shm.hdr.salt <= salts'
    BY <1>1, <2>1
  <2> QED BY <2>2 DEF SaltsDrawn
<1>4. Backfilling(wal.frames, db, shm, ck, writer, salts')
  <2>1. writer # "ck"
    BY <1>1, Shape
  <2> QED BY <2>1 DEF WalInv, Backfilling
<1>5. ASSUME NEW d \in Conns PROVE Fits(d, con[d])'
  <2>1. CASE d = c
    <3>1. con'[d] = r
      BY <1>1, <2>1
    <3>2. Placed(r) /\ (Held(r) <=> Held(con[c]))
      BY <1>1 DEF Fits, Placed, Held
    <3>3. Version(r, shm, image, salts') /\ Locked(r, wal.frames, db, shm, image)
      BY <1>1 DEF Fits, Version, Locked
    <3>4. Snapshot(r, wal.frames, db, shm) /\ Spared(r, ck)
      BY <1>1, <3>2 DEF Fits, Snapshot, Spared
    <3>5. Writing(c, r, writer, shm, image)
      <4>1. con[c].hdr.salt >= shm.hdr.salt /\ shm.hdr.salt \in Nat
        BY <1>1, IndexFields DEF Fits, Writing, WalInv, SharedTypes
      <4>2. r.hdr.salt >= shm.hdr.salt
        BY <1>1, <4>1, HandleFields
      <4> QED BY <1>1, <4>2 DEF Fits, Writing
    <3>6. Appending(r, wal.frames, shm, image, inflight)
      <4>1. r.todo = r.pages /\ r.todo # {}
        BY <1>1 DEF Fits, Writing
      <4>2. r.pages \ r.todo = {} /\ Cardinality(r.pages \ r.todo) = 0
        BY <4>1, FS_EmptySet
      <4>3. shm.hdr.mxFrame \in Nat /\ shm.hdr.mxFrame <= Len(wal.frames)
        BY <1>1, IndexFields DEF WalInv, SharedTypes, IndexOK
      <4>4. Written(r, wal.frames, shm.hdr.mxFrame, 0)
        BY <4>2, <4>3 DEF Written
      <4> QED BY <4>1, <4>2, <4>4 DEF Appending
    <3> QED BY <1>1, <1>2, <2>1, <3>1, <3>2, <3>3, <3>4, <3>5, <3>6 DEF Fits
  <2>2. CASE d # c
    <3>1. con'[d] = con[d] /\ Fits(d, con[d]) /\ con[d] \in Handles
      BY <1>1, <2>2 DEF WalInv
    <3>2. con[d].hdr.salt <= salts'
      <4>1. con[d].hdr.salt <= salts /\ con[d].hdr.salt \in Nat
        BY <3>1, HandleFields DEF Fits, Version
      <4> QED BY <1>1, <4>1
    <3>3. Version(con[d], shm, image, salts')
      BY <3>1, <3>2 DEF Fits, Version
    <3> QED BY <1>2, <3>1, <3>3 DEF Fits
  <2> QED BY <2>1, <2>2
<1> QED BY <1>2, <1>3, <1>4, <1>5 DEF WalInv

(* WriteHeader, with or without writing one.                               *)
LEMMA WriteHeaderKeeps == ASSUME WalInv, NEW c \in Conns, WriteHeader(c) PROVE WalInv'
<1>1. /\ con[c] \in Handles /\ con[c].pc = "header" /\ salts \in Nat
      /\ wal \in LogFiles /\ disk \in [wal : LogFiles, db : Images]
      /\ wal.header <= salts /\ disk.wal.header <= salts /\ con[c].hdr.salt <= salts
  BY DEF WalInv, SharedTypes, FileTypes, SaltsDrawn, Fits, Version, WriteHeader
<1>2. UNCHANGED <<db, shm, ck, writer, stamps, log, inflight>>
  BY DEF WriteHeader
<1>3. con[c].hdr \in Headers /\ con[c].hdr.salt \in Nat
  BY <1>1, HandleFields
<1>4. ASSUME NEW s \in Nat, s >= con[c].hdr.salt, salts' \in Nat, salts <= salts', s <= salts',
             wal' = [wal EXCEPT !.header = s], disk' = [disk EXCEPT !.wal = wal'],
             NEW h \in Headers, h.salt = s, h.mxFrame = con[c].hdr.mxFrame,
             con' = [con EXCEPT ![c] = [con[c] EXCEPT !.pc = "frames", !.hdr = h]]
      PROVE  WalInv'
  <2> DEFINE r == [con[c] EXCEPT !.pc = "frames", !.hdr = h]
  <2>1. /\ r \in Handles /\ r.pc = "frames" /\ r.lock = con[c].lock /\ r.seen = con[c].seen
        /\ r.minFrame = con[c].minFrame /\ r.pages = con[c].pages /\ r.todo = con[c].todo /\ r.hdr = h
    BY <1>1 DEF Handles, ConnPcs
  <2>2. Step(c, r)
    BY <1>4 DEF Step
  <2>3. /\ wal' \in LogFiles /\ wal'.frames = wal.frames /\ wal'.header = s
        /\ disk' \in [wal : LogFiles, db : Images] /\ disk'.wal.header = s
    BY <1>1, <1>4 DEF LogFiles
  <2> HIDE DEF r
  <2> QED BY <1>1, <1>2, <1>4, <2>1, <2>2, <2>3, HeaderStep
<1>5. CASE /\ walWriteHeader(con[c].hdr.salt) /\ UNCHANGED salts
           /\ Step(c, [con[c] EXCEPT !.pc = "frames", !.hdr.cksum = <<con[c].hdr.salt>>])
  <2>1. PICK s \in Nat : s = con[c].hdr.salt
    BY <1>3
  <2>2. PICK h : h = [con[c].hdr EXCEPT !.cksum = <<s>>]
    OBVIOUS
  <2>3. h \in Headers /\ h.salt = s /\ h.mxFrame = con[c].hdr.mxFrame
    BY <1>3, <2>1, <2>2, CkSumTypes DEF Headers
  <2>4. con' = [con EXCEPT ![c] = [con[c] EXCEPT !.pc = "frames", !.hdr = h]]
    BY <1>1, <1>5, <2>1, <2>2 DEF Step
  <2>5. wal' = [wal EXCEPT !.header = s] /\ disk' = [disk EXCEPT !.wal = wal']
    BY <1>5, <2>1 DEF walWriteHeader
  <2>6. s >= con[c].hdr.salt /\ salts' \in Nat /\ salts <= salts' /\ s <= salts'
    BY <1>1, <1>5, <2>1
  <2> QED BY <1>4, <2>3, <2>4, <2>5, <2>6
<1>6. CASE /\ salts' = salts + 1 /\ walWriteHeader(salts')
           /\ Step(c, [con[c] EXCEPT !.pc = "frames", !.hdr.salt = salts', !.hdr.cksum = <<salts'>>])
  <2>1. PICK s \in Nat : s = salts'
    BY <1>1, <1>6
  <2>2. PICK h : h = [con[c].hdr EXCEPT !.salt = s, !.cksum = <<s>>]
    OBVIOUS
  <2>3. h \in Headers /\ h.salt = s /\ h.mxFrame = con[c].hdr.mxFrame
    BY <1>3, <2>1, <2>2, CkSumTypes DEF Headers
  <2>4. con' = [con EXCEPT ![c] = [con[c] EXCEPT !.pc = "frames", !.hdr = h]]
    BY <1>1, <1>6, <2>1, <2>2 DEF Step
  <2>5. wal' = [wal EXCEPT !.header = s] /\ disk' = [disk EXCEPT !.wal = wal']
    BY <1>6, <2>1 DEF walWriteHeader
  <2>6. s >= con[c].hdr.salt /\ salts' \in Nat /\ salts <= salts' /\ s <= salts'
    BY <1>1, <1>3, <1>6, <2>1
  <2> QED BY <1>4, <2>3, <2>4, <2>5, <2>6
<1>7. CASE Step(c, [con[c] EXCEPT !.pc = "frames"]) /\ UNCHANGED <<wal, disk, salts>>
  <2> DEFINE r == [con[c] EXCEPT !.pc = "frames"]
  <2>1. /\ r \in Handles /\ r.pc = "frames" /\ r.lock = con[c].lock /\ r.seen = con[c].seen
        /\ r.minFrame = con[c].minFrame /\ r.pages = con[c].pages /\ r.todo = con[c].todo
        /\ r.hdr = con[c].hdr /\ Step(c, r)
    BY <1>1, <1>7 DEF Handles, ConnPcs
  <2> HIDE DEF r
  <2> QED BY <1>1, <1>2, <1>3, <1>7, <2>1, HeaderStep
<1> QED BY <1>5, <1>6, <1>7 DEF WriteHeader

(* A frame goes behind the last one or over one of an earlier log.         *)
LEMMA PutFrame ==
  ASSUME NEW F \in Seq(FrameSet), NEW f \in FrameSet, NEW k \in 1 .. Len(F) + 1,
         NEW G, G = putFrame(F, k, f)
  PROVE  /\ G \in Seq(FrameSet) /\ G[k] = f /\ Len(G) \in Nat /\ k <= Len(G)
         /\ Len(F) <= Len(G) /\ Len(F) \in Nat
         /\ \A i \in 1 .. Len(F) : i # k => G[i] = F[i]
<1>1. Len(F) \in Nat /\ F \in [1 .. Len(F) -> FrameSet]
  BY LenProperties
<1>2. CASE k <= Len(F)
  <2>1. putFrame(F, k, f) = [F EXCEPT ![k] = f]
    BY <1>2 DEF putFrame
  <2>2. k \in 1 .. Len(F)
    BY <1>1, <1>2
  <2>3. [F EXCEPT ![k] = f] \in Seq(FrameSet) /\ Len([F EXCEPT ![k] = f]) = Len(F)
    BY <2>2, ExceptSeq
  <2> QED BY <1>1, <1>2, <2>1, <2>2, <2>3
<1>3. CASE k = Len(F) + 1
  <2>1. putFrame(F, k, f) = Append(F, f)
    <3>1. ~(k <= Len(F))
      BY <1>1, <1>3
    <3> QED BY <3>1 DEF putFrame
  <2>2. /\ Append(F, f) \in Seq(FrameSet) /\ Len(Append(F, f)) = Len(F) + 1
        /\ \A i \in 1 .. Len(F) : Append(F, f)[i] = F[i]
        /\ Append(F, f)[Len(F) + 1] = f
    BY AppendProperties
  <2> QED BY <1>1, <1>3, <2>1, <2>2
<1> QED BY <1>1, <1>2, <1>3

(* Frames behind the last commit are nobody's but the writer's.            *)
LEMMA SameFrames ==
  ASSUME NEW F, NEW G, NEW S \in Indexes, Len(F) \in Nat, Len(G) \in Nat, Len(F) <= Len(G),
         \A i \in 1 .. S.hdr.mxFrame : G[i] = F[i]
  PROVE  /\ \A D, I : IndexOK(F, D, S, I) => IndexOK(G, D, S, I)
         /\ \A r \in Handles : \A D, I : Locked(r, F, D, S, I) => Locked(r, G, D, S, I)
         /\ \A r \in Handles : \A D, I :
              Locked(r, F, D, S, I) /\ Snapshot(r, F, D, S) => Snapshot(r, G, D, S)
         /\ \A K \in Ckpts : \A D, w, n : Backfilling(F, D, S, K, w, n) => Backfilling(G, D, S, K, w, n)
<1>1. S.hdr.mxFrame \in Nat /\ S.nBackfill \in Nat
  BY IndexFields
<1>2. ASSUME NEW D, NEW I, NEW lo \in Nat \ {0}, NEW k \in 0 .. S.hdr.mxFrame, ImageFrom(F, D, k, I, lo)
      PROVE  ImageFrom(G, D, k, I, lo)
  <2> SUFFICES ASSUME NEW p \in Pages PROVE Find(G, D, p, lo, k) = I[p]
    BY DEF ImageFrom
  <2>1. k \in Nat /\ \A i \in lo .. k : F[i] = G[i]
    BY <1>1
  <2>2. Find(G, D, p, lo, k) = Find(F, D, p, lo, k)
    BY <2>1, FindSameFrames
  <2> QED BY <1>2, <2>2 DEF ImageFrom
<1>3. ASSUME NEW D, NEW I, IndexOK(F, D, S, I) PROVE IndexOK(G, D, S, I)
  <2> SUFFICES ASSUME S.init
               PROVE  /\ S.nBackfill <= S.hdr.mxFrame /\ S.hdr.mxFrame <= Len(G)
                      /\ ImageFrom(G, D, S.hdr.mxFrame, I, S.nBackfill + 1)
    BY DEF IndexOK
  <2>1. /\ S.nBackfill <= S.hdr.mxFrame /\ S.hdr.mxFrame <= Len(F)
        /\ ImageFrom(F, D, S.hdr.mxFrame, I, S.nBackfill + 1)
    BY <1>3 DEF IndexOK
  <2>2. ImageFrom(G, D, S.hdr.mxFrame, I, S.nBackfill + 1)
    BY <1>1, <1>2, <2>1
  <2> QED BY <1>1, <2>1, <2>2
<1>4. ASSUME NEW r \in Handles, NEW D, NEW I, Locked(r, F, D, S, I) PROVE Locked(r, G, D, S, I)
  <2> SUFFICES ASSUME r.lock >= 1
               PROVE  /\ 1 <= r.minFrame /\ r.minFrame <= S.nBackfill + 1
                      /\ \A lo \in r.minFrame .. S.nBackfill + 1 : ImageFrom(G, D, S.hdr.mxFrame, I, lo)
    BY DEF Locked
  <2>1. 1 <= r.minFrame /\ r.minFrame <= S.nBackfill + 1 /\ r.minFrame \in Nat
    BY <1>4, HandleFields DEF Locked
  <2>2. ASSUME NEW lo \in r.minFrame .. S.nBackfill + 1 PROVE ImageFrom(G, D, S.hdr.mxFrame, I, lo)
    <3>1. lo \in Nat \ {0} /\ S.hdr.mxFrame \in 0 .. S.hdr.mxFrame
      BY <1>1, <2>1
    <3>2. ImageFrom(F, D, S.hdr.mxFrame, I, lo)
      BY <1>4 DEF Locked
    <3> QED BY <1>2, <3>1, <3>2
  <2> QED BY <2>1, <2>2
<1>5. ASSUME NEW r \in Handles, NEW D, NEW I, Locked(r, F, D, S, I), Snapshot(r, F, D, S)
      PROVE  Snapshot(r, G, D, S)
  <2>1. ASSUME Held(r) PROVE ImageFrom(G, D, r.hdr.mxFrame, r.seen, r.minFrame)
    <3>1. r.minFrame \in Nat /\ 1 <= r.minFrame /\ r.hdr.mxFrame \in Nat
      BY <1>5, <2>1, HandleFields DEF Held, Locked
    <3>2. r.hdr.mxFrame <= S.hdr.mxFrame /\ ImageFrom(F, D, r.hdr.mxFrame, r.seen, r.minFrame)
      BY <1>5, <2>1 DEF Snapshot
    <3>3. r.minFrame \in Nat \ {0} /\ r.hdr.mxFrame \in 0 .. S.hdr.mxFrame
      BY <1>1, <3>1, <3>2
    <3> QED BY <1>2, <3>2, <3>3
  <2> QED BY <1>5, <2>1 DEF Snapshot
<1>6. ASSUME NEW K \in Ckpts, NEW D, NEW w, NEW n, Backfilling(F, D, S, K, w, n)
      PROVE  Backfilling(G, D, S, K, w, n)
  <2>1. CASE K.pc # "copy"
    BY <1>6, <2>1 DEF Backfilling
  <2>2. CASE K.pc = "copy"
    <3>1. K.hdr.mxFrame \in Nat /\ K.safe \in Nat
      BY DEF Ckpts, Headers
    <3>2. /\ K.hdr.mxFrame <= S.hdr.mxFrame /\ K.safe <= K.hdr.mxFrame
          /\ K.todo \subseteq S.nBackfill + 1 .. K.safe
          /\ \A i \in K.todo : Newest(F, i, K.hdr.mxFrame)
          /\ \A i \in S.nBackfill + 1 .. K.safe :
               Newest(F, i, K.hdr.mxFrame) /\ F[i].page \in Pages =>
                 i \in K.todo \/ D[F[i].page] = F[i].val
      BY <1>6, <2>2 DEF Backfilling
    <3>3. \A i \in 1 .. K.hdr.mxFrame : G[i] = F[i]
      BY <1>1, <3>1, <3>2
    <3>4. ASSUME NEW i \in S.nBackfill + 1 .. K.safe
          PROVE  G[i] = F[i] /\ (Newest(G, i, K.hdr.mxFrame) <=> Newest(F, i, K.hdr.mxFrame))
      <4>1. i \in 1 .. K.hdr.mxFrame /\ \A j \in i + 1 .. K.hdr.mxFrame : j \in 1 .. K.hdr.mxFrame
        BY <1>1, <3>1, <3>2
      <4> QED BY <3>3, <4>1 DEF Newest
    <3>5. /\ \A i \in K.todo : Newest(G, i, K.hdr.mxFrame)
          /\ \A i \in S.nBackfill + 1 .. K.safe :
               Newest(G, i, K.hdr.mxFrame) /\ G[i].page \in Pages =>
                 i \in K.todo \/ D[G[i].page] = G[i].val
      BY <3>2, <3>4
    <3> QED BY <1>6, <2>2, <3>5 DEF Backfilling
  <2> QED BY <2>1, <2>2
<1> QED BY <1>3, <1>4, <1>5, <1>6

(* The page that is written next is one of those to write, and its frame   *)
(* follows those that have been.                                           *)
LEMMA NextFrame ==
  ASSUME WalInv, NEW c \in Conns, con[c].pc = "frames", con[c].todo # {}
  PROVE  /\ nextFrame(con[c]) \in 1 .. Len(wal.frames) + 1
         /\ Cardinality(con[c].pages \ con[c].todo) \in Nat
         /\ nextFrame(con[c]) = shm.hdr.mxFrame + Cardinality(con[c].pages \ con[c].todo) + 1
         /\ Min(con[c].todo) \in con[c].todo
<1>1. /\ con[c] \in Handles /\ Fits(c, con[c]) /\ shm.hdr.mxFrame \in Nat /\ writer = c
      /\ con[c].hdr.mxFrame = shm.hdr.mxFrame
  BY IndexFields DEF WalInv, SharedTypes, Fits, Writing
<1>2. con[c].pages \in SUBSET Pages /\ con[c].todo \in SUBSET Pages
  BY <1>1 DEF Handles
<1>3. IsFiniteSet(con[c].pages \ con[c].todo)
  BY <1>2, Shape, FS_Subset
<1>4. Cardinality(con[c].pages \ con[c].todo) \in Nat
  BY <1>3, FS_CardinalityType
<1>5. shm.hdr.mxFrame + Cardinality(con[c].pages \ con[c].todo) <= Len(wal.frames) /\ Len(wal.frames) \in Nat
  BY <1>1, LenProperties DEF Fits, Appending, Written, WalInv, FileTypes, LogFiles
<1>6. Min(con[c].todo) \in con[c].todo
  BY <1>2, Shape, LeastNumber
<1> QED BY <1>1, <1>4, <1>5, <1>6 DEF nextFrame

(* walWriteOneFrame writes beyond every snapshot.                          *)
LEMMA WriteFrameKeeps == ASSUME WalInv, NEW c \in Conns, walWriteOneFrame(c) PROVE WalInv'
<1>1. /\ con[c] \in Handles /\ Fits(c, con[c]) /\ con \in [Conns -> Handles] /\ shm \in Indexes
      /\ con[c].pc = "frames" /\ con[c].todo # {} /\ writer = c /\ shm.init /\ ck \in Ckpts
      /\ con[c].hdr.mxFrame = shm.hdr.mxFrame /\ con[c].todo \subseteq con[c].pages
      /\ con[c].pages \in SUBSET Pages /\ con[c].todo \in SUBSET Pages
  BY DEF WalInv, SharedTypes, walWriteOneFrame, Fits, Writing, Handles
<1>2. PICK page, k, n :
        /\ page = Min(con[c].todo) /\ page \in con[c].todo
        /\ k = nextFrame(con[c]) /\ k \in 1 .. Len(wal.frames) + 1
        /\ n = Cardinality(con[c].pages \ con[c].todo) /\ n \in Nat
        /\ k = shm.hdr.mxFrame + n + 1
  BY <1>1, NextFrame
<1>3. PICK f : f = walEncodeFrame(con[c].hdr, page, con[c].stamp, con[c].todo = {page})
  OBVIOUS
<1>4. f \in FrameSet /\ f.page = page /\ f.val = con[c].stamp /\ (f.commit <=> con[c].todo = {page})
  <2>1. con[c].hdr.salt \in Nat /\ con[c].hdr.cksum \in CkSums /\ con[c].stamp \in Nat /\ page \in Nat
    BY <1>1, <1>2, HandleFields, Shape DEF Headers
  <2>2. PICK b \in BOOLEAN : b = (con[c].todo = {page})
    OBVIOUS
  <2>3. Append(con[c].hdr.cksum, <<page, con[c].stamp, b>>) \in CkSums
    BY <2>1, <2>2, AppendProperties DEF CkSums
  <2>4. f = [salt |-> con[c].hdr.salt, page |-> page, val |-> con[c].stamp, commit |-> b,
             cksum |-> Append(con[c].hdr.cksum, <<page, con[c].stamp, b>>)]
    BY <1>3, <2>2 DEF walEncodeFrame
  <2> QED BY <2>1, <2>2, <2>3, <2>4 DEF FrameSet
<1>5. PICK r : r = [con[c] EXCEPT !.todo = @ \ {page}, !.hdr.cksum = f.cksum]
  OBVIOUS
<1>6. /\ wal' = [wal EXCEPT !.frames = putFrame(wal.frames, k, f)] /\ disk' = Unsynced(wal', db)
      /\ con' = [con EXCEPT ![c] = r]
      /\ inflight' = IF f.commit
                     THEN [p \in Pages |-> IF p \in con[c].pages THEN con[c].stamp ELSE image[p]]
                     ELSE inflight
      /\ UNCHANGED <<db, shm, ck, writer, salts, stamps, log>>
  BY <1>2, <1>3, <1>5 DEF walWriteOneFrame, Step, bounds
<1>7. /\ r \in Handles /\ r.pc = "frames" /\ r.lock = con[c].lock /\ r.seen = con[c].seen
      /\ r.minFrame = con[c].minFrame /\ r.pages = con[c].pages /\ r.todo = con[c].todo \ {page}
      /\ r.hdr.mxFrame = con[c].hdr.mxFrame /\ r.hdr.salt = con[c].hdr.salt /\ r.stamp = con[c].stamp
  <2>1. PICK h : h = [con[c].hdr EXCEPT !.cksum = f.cksum]
    OBVIOUS
  <2>2. /\ con[c].hdr \in Headers /\ h \in Headers /\ h.mxFrame = con[c].hdr.mxFrame
        /\ h.salt = con[c].hdr.salt
    BY <1>1, <1>4, <2>1, HandleFields DEF FrameSet, Headers
  <2>3. r = [con[c] EXCEPT !.todo = con[c].todo \ {page}, !.hdr = h]
    BY <1>1, <1>5, <2>1 DEF Handles
  <2>4. con[c].todo \ {page} \in SUBSET Pages
    BY <1>1
  <2> QED BY <1>1, <2>2, <2>3, <2>4 DEF Handles
<1>8. PICK G : G = putFrame(wal.frames, k, f)
  OBVIOUS
<1>9. /\ G \in Seq(FrameSet) /\ G[k] = f /\ Len(G) \in Nat /\ k <= Len(G)
      /\ Len(wal.frames) <= Len(G) /\ Len(wal.frames) \in Nat
      /\ \A i \in 1 .. Len(wal.frames) : i # k => G[i] = wal.frames[i]
  <2>1. wal.frames \in Seq(FrameSet)
    BY DEF WalInv, FileTypes, LogFiles
  <2>2. k \in 1 .. Len(wal.frames) + 1 /\ f \in FrameSet
    BY <1>2, <1>4
  <2> HIDE <1>2, <1>4
  <2> QED BY <1>8, <2>1, <2>2, PutFrame
<1>10. wal' \in LogFiles /\ wal'.frames = G /\ wal'.header = wal.header
  BY <1>6, <1>8, <1>9 DEF WalInv, FileTypes, LogFiles
<1>11. image' = image /\ image \in Images
  BY <1>6, ImageType DEF image, WalInv
<1>12. FileTypes' /\ SharedTypes' /\ SaltsDrawn'
  <2>1. inflight' \in Images
    BY <1>1, <1>6, <1>11, HandleFields DEF Images, WalInv, FileTypes
  <2>2. disk' \in [wal : LogFiles, db : Images] /\ disk'.wal.header <= salts
    BY <1>6, <1>10 DEF Unsynced, WalInv, FileTypes, SaltsDrawn
  <2>3. FileTypes'
    BY <1>6, <1>10, <2>1, <2>2 DEF WalInv, FileTypes
  <2>4. SharedTypes'
    BY <1>1, <1>6, <1>7 DEF WalInv, SharedTypes
  <2> QED BY <1>6, <1>10, <2>2, <2>3, <2>4 DEF WalInv, SaltsDrawn
<1>13. shm.hdr.mxFrame \in Nat /\ shm.hdr.mxFrame + n <= Len(wal.frames)
  BY <1>1, <1>2, IndexFields DEF Fits, Appending, Written
<1>14. \A i \in 1 .. shm.hdr.mxFrame + n : G[i] = wal.frames[i]
  <2>1. \A i \in 1 .. shm.hdr.mxFrame + n : i \in 1 .. Len(wal.frames) /\ i # k
    BY <1>2, <1>9, <1>13
  <2> QED BY <1>9, <2>1
<1>15. \A i \in 1 .. shm.hdr.mxFrame : G[i] = wal.frames[i]
  <2>1. \A i \in 1 .. shm.hdr.mxFrame : i \in 1 .. shm.hdr.mxFrame + n
    BY <1>2, <1>13
  <2> QED BY <1>14, <2>1
<1>16. IndexOK(G, db, shm, image) /\ Backfilling(G, db, shm, ck, writer, salts)
  BY <1>1, <1>9, <1>15, SameFrames DEF WalInv
<1>17. ASSUME NEW d \in Conns
       PROVE  Locked(con[d], G, db, shm, image) /\ Snapshot(con[d], G, db, shm)
  <2>1. con[d] \in Handles /\ Locked(con[d], wal.frames, db, shm, image) /\ Snapshot(con[d], wal.frames, db, shm)
    BY <1>1 DEF WalInv, Fits
  <2> QED BY <1>1, <1>9, <1>15, <2>1, SameFrames
<1>18. Appending(r, G, shm, image, inflight')
  <2>1. r.pages \ r.todo = (con[c].pages \ con[c].todo) \cup {page}
    BY <1>1, <1>2, <1>7
  <2>2. Cardinality(r.pages \ r.todo) = n + 1
    <3>1. IsFiniteSet(con[c].pages \ con[c].todo) /\ page \notin con[c].pages \ con[c].todo
      BY <1>1, <1>2, Shape, FS_Subset
    <3>2. Cardinality((con[c].pages \ con[c].todo) \cup {page}) = Cardinality(con[c].pages \ con[c].todo) + 1
      BY <3>1, FS_AddElement
    <3> QED BY <1>2, <2>1, <3>2
  <2>3. /\ \A i \in shm.hdr.mxFrame + 1 .. shm.hdr.mxFrame + n :
             /\ wal.frames[i].page \in con[c].pages \ con[c].todo
             /\ wal.frames[i].val = con[c].stamp
        /\ \A p \in con[c].pages \ con[c].todo :
             \E i \in shm.hdr.mxFrame + 1 .. shm.hdr.mxFrame + n : wal.frames[i].page = p
    BY <1>1, <1>2 DEF Fits, Appending, Written
  <2>4. Written(r, G, shm.hdr.mxFrame, n + 1)
    <3>1. shm.hdr.mxFrame + (n + 1) <= Len(G)
      BY <1>2, <1>9, <1>13
    <3>2. ASSUME NEW i \in shm.hdr.mxFrame + 1 .. shm.hdr.mxFrame + (n + 1)
          PROVE  G[i].page \in r.pages \ r.todo /\ G[i].val = r.stamp
      <4>1. CASE i = k
        BY <1>4, <1>7, <1>9, <2>1, <4>1
      <4>2. CASE i # k
        <5>1. i \in shm.hdr.mxFrame + 1 .. shm.hdr.mxFrame + n /\ i \in 1 .. shm.hdr.mxFrame + n
          BY <1>2, <1>13, <4>2
        <5>2. G[i] = wal.frames[i]
          BY <1>14, <5>1
        <5> QED BY <1>7, <2>1, <2>3, <5>1, <5>2
      <4> QED BY <4>1, <4>2
    <3>3. ASSUME NEW p \in r.pages \ r.todo
          PROVE  \E i \in shm.hdr.mxFrame + 1 .. shm.hdr.mxFrame + (n + 1) : G[i].page = p
      <4>1. CASE p = page
        <5>1. k \in shm.hdr.mxFrame + 1 .. shm.hdr.mxFrame + (n + 1)
          BY <1>2, <1>13
        <5> QED BY <1>4, <1>9, <4>1, <5>1
      <4>2. CASE p \in con[c].pages \ con[c].todo
        <5>1. PICK i \in shm.hdr.mxFrame + 1 .. shm.hdr.mxFrame + n : wal.frames[i].page = p
          BY <2>3, <4>2
        <5>2. i \in 1 .. shm.hdr.mxFrame + n /\ i \in shm.hdr.mxFrame + 1 .. shm.hdr.mxFrame + (n + 1)
          BY <1>2, <1>13
        <5>3. G[i].page = p
          BY <1>14, <5>1, <5>2
        <5> QED BY <5>2, <5>3
      <4> QED BY <2>1, <4>1, <4>2
    <3> QED BY <3>1, <3>2, <3>3 DEF Written
  <2>5. r.todo = {} => inflight' = Overlay(r, image)
    <3>1. r.todo = {} => con[c].todo = {page}
      BY <1>2, <1>7
    <3> QED BY <1>4, <1>6, <1>7, <3>1 DEF Overlay
  <2> QED BY <2>2, <2>4, <2>5 DEF Appending
<1>19. ASSUME NEW d \in Conns PROVE Fits(d, con[d])'
  <2>1. CASE d = c
    <3>1. con'[d] = r
      BY <1>1, <1>6, <2>1
    <3>2. Placed(r) /\ (Held(r) <=> Held(con[c]))
      BY <1>1, <1>7 DEF Fits, Placed, Held
    <3>3. Version(r, shm, image, salts) /\ Locked(r, G, db, shm, image)
      BY <1>1, <1>7, <1>17 DEF Fits, Version, Locked
    <3>4. Snapshot(r, G, db, shm) /\ Spared(r, ck)
      BY <1>1, <1>7, <1>17, <3>2 DEF Fits, Snapshot, Spared
    <3>5. Writing(c, r, writer, shm, image)
      BY <1>1, <1>7 DEF Fits, Writing
    <3> QED BY <1>1, <1>6, <1>10, <1>11, <1>18, <2>1, <3>1, <3>2, <3>3, <3>4, <3>5 DEF Fits
  <2>2. CASE d # c
    <3>1. con'[d] = con[d] /\ Fits(d, con[d]) /\ writer # d
      BY <1>1, <1>6, <2>2 DEF WalInv
    <3>2. Appending(con[d], G, shm, image, inflight')
      BY <3>1, NotAppending DEF Fits
    <3> QED BY <1>6, <1>10, <1>11, <1>17, <3>1, <3>2 DEF Fits
  <2> QED BY <2>1, <2>2
<1> QED BY <1>6, <1>10, <1>11, <1>12, <1>16, <1>19 DEF WalInv

(* The frames of a transaction over the last commit are the next one.      *)
LEMMA Extended ==
  ASSUME NEW F, NEW D, NEW I, NEW r, NEW m \in Nat, NEW k \in Nat, NEW h, h = m + k,
         NEW lo \in Nat \ {0}, lo <= m + 1, Written(r, F, m, k), r.todo = {}, ImageFrom(F, D, m, I, lo)
  PROVE  ImageFrom(F, D, h, Overlay(r, I), lo)
<1> SUFFICES ASSUME NEW p \in Pages PROVE Find(F, D, p, lo, h) = Overlay(r, I)[p]
  BY DEF ImageFrom
<1>1. /\ \A i \in m + 1 .. h : F[i].page \in r.pages /\ F[i].val = r.stamp
      /\ \A q \in r.pages : \E i \in m + 1 .. h : F[i].page = q
  BY DEF Written
<1>2. Overlay(r, I)[p] = IF p \in r.pages THEN r.stamp ELSE I[p]
  BY DEF Overlay
<1>3. Find(F, D, p, lo, m) = I[p]
  BY DEF ImageFrom
<1>4. h \in Nat /\ m <= h
  OBVIOUS
<1> USE <1>4
<1>5. CASE p \in r.pages
  <2>1. PICK i \in m + 1 .. h : F[i].page = p
    BY <1>1, <1>5
  <2>2. i \in lo .. h
    OBVIOUS
  <2>3. \E j \in lo .. h : F[j].page = p
    BY <2>1, <2>2
  <2>4. PICK j \in lo .. h : /\ F[j].page = p /\ \A l \in j + 1 .. h : F[l].page # p
                             /\ \A E : Find(F, E, p, lo, h) = F[j].val
    BY ONLY <2>3, lo \in Nat \ {0}, h \in Nat, FindLast
  <2>5. j >= i
    <3> SUFFICES ASSUME j < i PROVE FALSE
      BY <2>2
    <3>1. i \in j + 1 .. h
      BY <2>2
    <3> QED BY <2>1, <2>4, <3>1
  <2>6. j \in m + 1 .. h
    BY <2>5
  <2>7. Find(F, D, p, lo, h) = F[j].val
    BY <2>4
  <2>8. F[j].val = r.stamp
    BY <1>1, <2>6
  <2> QED BY <1>2, <1>5, <2>7, <2>8
<1>6. CASE p \notin r.pages
  <2>1. \A i \in m + 1 .. h : F[i].page # p
    BY <1>1, <1>6
  <2>2. CASE \E i \in lo .. m : F[i].page = p
    <3>1. PICK i \in lo .. m : /\ F[i].page = p /\ \A l \in i + 1 .. m : F[l].page # p
                               /\ \A E : Find(F, E, p, lo, m) = F[i].val
      BY ONLY <2>2, lo \in Nat \ {0}, m \in Nat, FindLast
    <3>2. i \in lo .. h /\ \A l \in i + 1 .. h : F[l].page # p
      <4>1. \A l \in i + 1 .. h : l \in i + 1 .. m \/ l \in m + 1 .. h
        OBVIOUS
      <4> QED BY <2>1, <3>1, <4>1
    <3>3. Find(F, D, p, lo, h) = F[i].val
      BY ONLY <3>1, <3>2, lo \in Nat \ {0}, h \in Nat, FindHit
    <3> QED BY <1>2, <1>3, <1>6, <3>1, <3>3
  <2>3. CASE \A i \in lo .. m : F[i].page # p
    <3>1. \A i \in lo .. h : i \in lo .. m \/ i \in m + 1 .. h
      OBVIOUS
    <3>2. \A i \in lo .. h : F[i].page # p
      BY <2>1, <2>3, <3>1
    <3>3. Find(F, D, p, lo, m) = D[p] /\ Find(F, D, p, lo, h) = D[p]
      BY <2>3, <3>2, FindMiss
    <3> QED BY <1>2, <1>3, <1>6, <3>3
  <2> QED BY <2>2, <2>3
<1> QED BY <1>5, <1>6

(* The commit moves the last image on for everybody, and no snapshot.      *)
LEMMA CommitKeeps == ASSUME WalInv, NEW c \in Conns, Commit(c) PROVE WalInv'
<1>1. /\ con[c] \in Handles /\ Fits(c, con[c]) /\ con \in [Conns -> Handles] /\ shm \in Indexes
      /\ con[c].pc = "frames" /\ con[c].todo = {} /\ writer = c /\ shm.init /\ ck \in Ckpts
      /\ con[c].hdr.mxFrame = shm.hdr.mxFrame /\ con[c].pages \in SUBSET Pages
      /\ con[c].hdr.salt >= shm.hdr.salt /\ con[c].hdr.salt <= salts
  BY DEF WalInv, SharedTypes, Commit, Fits, Writing, Version, Handles
<1>2. PICK m, k, r : /\ m = shm.hdr.mxFrame /\ m \in Nat
                     /\ k = Cardinality(con[c].pages) /\ k \in Nat /\ k > 0
                     /\ r = con[c]
  <2>1. IsFiniteSet(con[c].pages) /\ con[c].pages # {}
    BY <1>1, Shape, FS_Subset DEF Fits, Writing
  <2>2. Cardinality(con[c].pages) \in Nat /\ Cardinality(con[c].pages) # 0
    BY <2>1, FS_CardinalityType, FS_EmptySet
  <2> QED BY <1>1, <2>2, IndexFields
<1>3. /\ con' = [con EXCEPT ![c] = idleConn] /\ writer' = None
      /\ shm' = [shm EXCEPT !.hdr = [r.hdr EXCEPT !.mxFrame = r.hdr.mxFrame + k]]
      /\ log' = (IF Power THEN Append(log, inflight) ELSE <<inflight>>)
      /\ UNCHANGED <<wal, db, disk, ck, salts, stamps, inflight>>
  BY <1>1, <1>2 DEF Commit, Step, files, bounds, Handles, Headers
<1>4. /\ shm' \in Indexes /\ shm'.init = shm.init /\ shm'.nBackfill = shm.nBackfill
      /\ shm'.marks = shm.marks /\ shm'.hdr.mxFrame = m + k /\ shm'.hdr.salt = r.hdr.salt
  <2>1. PICK h : h = [r.hdr EXCEPT !.mxFrame = r.hdr.mxFrame + k]
    OBVIOUS
  <2>2. r.hdr \in Headers /\ r.hdr.mxFrame = m
    BY <1>1, <1>2, HandleFields
  <2>3. m + k \in Nat
    BY <1>2
  <2>4. h \in Headers /\ h.mxFrame = m + k /\ h.salt = r.hdr.salt
    BY <2>1, <2>2, <2>3 DEF Headers
  <2>5. shm' = [shm EXCEPT !.hdr = h]
    BY <1>3, <2>1
  <2> QED BY <1>1, <2>4, <2>5 DEF Indexes
<1>5. log' \in Seq(Images) /\ log' # << >> /\ image' = inflight
  <2>1. inflight \in Images /\ log \in Seq(Images)
    BY DEF WalInv, FileTypes
  <2>2. CASE Power
    <3>1. log' = Append(log, inflight)
      BY <1>3, <2>2
    <3>2. /\ Append(log, inflight) \in Seq(Images) /\ Append(log, inflight) # << >>
          /\ Len(Append(log, inflight)) = Len(log) + 1
          /\ Append(log, inflight)[Len(log) + 1] = inflight
      BY <2>1, AppendProperties
    <3> QED BY <3>1, <3>2 DEF image, Last
  <2>3. CASE ~Power
    <3>1. log' = <<inflight>>
      BY <1>3, <2>3
    <3> QED BY <2>1, <3>1 DEF image, Last
  <2> QED BY <2>2, <2>3
<1>6. Written(r, wal.frames, m, k) /\ inflight = Overlay(r, image) /\ r.todo = {}
  <2>1. con[c].pages \ con[c].todo = con[c].pages
    BY <1>1
  <2> QED BY <1>1, <1>2, <2>1 DEF Fits, Appending
<1>7. FileTypes' /\ SharedTypes' /\ SaltsDrawn'
  <2>1. FileTypes'
    BY <1>3, <1>5 DEF WalInv, FileTypes
  <2>2. SharedTypes'
    BY <1>1, <1>3, <1>4, StartTypes DEF WalInv, SharedTypes
  <2> QED BY <1>1, <1>2, <1>3, <1>4, <2>1, <2>2 DEF WalInv, SaltsDrawn
<1>8. /\ m <= Len(wal.frames) /\ m + k <= Len(wal.frames) /\ shm.nBackfill <= m /\ shm.nBackfill \in Nat
      /\ ImageFrom(wal.frames, db, m, image, shm.nBackfill + 1)
  BY <1>1, <1>2, <1>6, IndexFields DEF WalInv, IndexOK, Written
<1>9. ASSUME NEW lo \in Nat \ {0}, lo <= shm.nBackfill + 1, ImageFrom(wal.frames, db, m, image, lo)
      PROVE  ImageFrom(wal.frames, db, m + k, inflight, lo)
  <2>1. lo <= m + 1
    BY <1>2, <1>8, <1>9
  <2> QED BY <1>2, <1>6, <1>9, <2>1, Extended
<1>10. IndexOK(wal.frames, db, shm', inflight)
  <2>1. shm.nBackfill + 1 \in Nat \ {0} /\ shm.nBackfill <= m + k
    BY <1>2, <1>8
  <2>2. ImageFrom(wal.frames, db, m + k, inflight, shm.nBackfill + 1)
    BY <1>8, <1>9, <2>1
  <2> QED BY <1>4, <1>8, <2>1, <2>2 DEF IndexOK
<1>11. Backfilling(wal.frames, db, shm', ck, None, salts)
  <2>1. c # "ck" /\ None # "ck"
    BY Shape
  <2>2. ck.pc # "newHeader"
    BY <1>1, <2>1 DEF WalInv, Backfilling
  <2>3. ck.pc \in {"marks", "copy"} => ck.hdr.mxFrame <= m + k
    <3>1. ck.hdr.mxFrame \in Nat
      BY <1>1 DEF Ckpts, Headers
    <3>2. ck.pc \in {"marks", "copy"} => ck.hdr.mxFrame <= m
      BY <1>2 DEF WalInv, Backfilling
    <3> QED BY <1>2, <3>1, <3>2
  <2> QED BY <1>1, <1>4, <2>1, <2>2, <2>3 DEF WalInv, Backfilling
<1>12. ASSUME NEW d \in Conns PROVE Fits(d, con[d])'
  <2>1. None # d
    BY Shape
  <2>2. CASE d = c
    <3>1. con'[d] = idleConn
      BY <1>1, <1>3, <2>2
    <3>2. idleConn.pc = "idle" /\ idleConn.lock = -1 /\ idleConn.hdr.salt <= salts /\ idleConn \in Handles
      BY StartTypes DEF idleConn, zeroHeader, Header, WalInv, FileTypes
    <3>3. /\ Placed(idleConn) /\ Version(idleConn, shm', inflight, salts)
          /\ Locked(idleConn, wal.frames, db, shm', inflight) /\ Snapshot(idleConn, wal.frames, db, shm')
          /\ Spared(idleConn, ck) /\ Writing(d, idleConn, None, shm', inflight)
          /\ Appending(idleConn, wal.frames, shm', inflight, inflight)
      BY <2>1, <3>2, IdleFits
    <3> QED BY <1>3, <1>5, <3>1, <3>2, <3>3 DEF Fits
  <2>3. CASE d # c
    <3>1. con'[d] = con[d] /\ Fits(d, con[d]) /\ con[d] \in Handles /\ writer # d
      BY <1>1, <1>3, <2>3 DEF WalInv
    <3>2. Writing(d, con[d], None, shm', inflight) /\ Appending(con[d], wal.frames, shm', inflight, inflight)
      BY <2>1, <3>1, OtherWriter, NotAppending DEF Fits
    <3>3. Version(con[d], shm', inflight, salts)
      <4>1. con[d].hdr.salt \in Nat /\ con[d].hdr.mxFrame \in Nat /\ r.hdr.salt \in Nat /\ shm.hdr.salt \in Nat
        BY <1>1, <1>2, <3>1, HandleFields, IndexFields
      <4>2. con[d].hdr.salt <= salts
        BY <3>1 DEF Fits, Version
      <4>3. con[d].pc \notin {"idle", "frames"} =>
              \/ con[d].hdr.salt < shm.hdr.salt
              \/ con[d].hdr.salt = shm.hdr.salt /\ con[d].hdr.mxFrame <= m
        BY <1>2, <3>1 DEF Fits, Version
      <4>4. shm.hdr.salt <= r.hdr.salt
        BY <1>1, <1>2, <4>1
      <4>5. con[d].pc \notin {"idle", "frames"} =>
              \/ con[d].hdr.salt < r.hdr.salt
              \/ con[d].hdr.salt = r.hdr.salt /\ con[d].hdr.mxFrame < m + k
        BY <1>2, <4>1, <4>3, <4>4
      <4>6. con[d].pc \notin {"idle", "frames"} => ~Same(con[d].hdr, shm')
        BY <1>2, <1>4, <4>1, <4>5 DEF Same
      <4>7. con[d].hdr.mxFrame < m + k => con[d].hdr.mxFrame <= m + k
        BY <1>2, <4>1
      <4> QED BY <1>4, <4>2, <4>5, <4>6, <4>7 DEF Version
    <3>4. Locked(con[d], wal.frames, db, shm', inflight)
      <4> SUFFICES ASSUME con[d].lock >= 1
                   PROVE  /\ 1 <= con[d].minFrame /\ con[d].minFrame <= shm.nBackfill + 1
                          /\ \A lo \in con[d].minFrame .. shm.nBackfill + 1 :
                               ImageFrom(wal.frames, db, m + k, inflight, lo)
        BY <1>4 DEF Locked
      <4>1. /\ 1 <= con[d].minFrame /\ con[d].minFrame <= shm.nBackfill + 1 /\ con[d].minFrame \in Nat
            /\ \A lo \in con[d].minFrame .. shm.nBackfill + 1 : ImageFrom(wal.frames, db, m, image, lo)
        BY <1>2, <3>1, HandleFields DEF Fits, Locked
      <4>2. ASSUME NEW lo \in con[d].minFrame .. shm.nBackfill + 1
            PROVE  ImageFrom(wal.frames, db, m + k, inflight, lo)
        <5>1. lo \in Nat \ {0} /\ lo <= shm.nBackfill + 1
          BY <1>8, <4>1
        <5> QED BY <1>9, <4>1, <5>1
      <4> QED BY <4>1, <4>2
    <3>5. Snapshot(con[d], wal.frames, db, shm')
      <4>1. Held(con[d]) => con[d].hdr.mxFrame <= m /\ con[d].hdr.mxFrame \in Nat
        BY <1>2, <3>1, HandleFields DEF Fits, Snapshot
      <4>2. Held(con[d]) => con[d].hdr.mxFrame <= m + k
        BY <1>2, <4>1
      <4> QED BY <1>4, <3>1, <4>2 DEF Fits, Snapshot
    <3> QED BY <1>1, <1>3, <1>4, <1>5, <3>1, <3>2, <3>3, <3>4, <3>5 DEF Fits
  <2> QED BY <2>2, <2>3
<1> QED BY <1>3, <1>5, <1>7, <1>10, <1>11, <1>12 DEF WalInv

(* A transaction that is given up leaves no trace in the committed log.    *)
LEMMA UndoKeeps == ASSUME WalInv, NEW c \in Conns, sqlite3WalUndo(c) PROVE WalInv'
<1>1. /\ con \in [Conns -> Handles] /\ writer = c /\ Fits(c, con[c])
      /\ con' = [con EXCEPT ![c] = idleConn] /\ writer' = None
      /\ UNCHANGED <<wal, db, disk, shm, ck, salts, stamps, log, inflight>>
  BY DEF WalInv, SharedTypes, sqlite3WalUndo, Fits, Writing, Step, files, bounds, history
<1>2. FileTypes' /\ SharedTypes' /\ SaltsDrawn' /\ image' = image
  BY <1>1, StartTypes DEF WalInv, FileTypes, SharedTypes, SaltsDrawn, image
<1>3. IndexOK(wal.frames, db, shm, image) /\ Backfilling(wal.frames, db, shm, ck, None, salts)
  <2>1. c # "ck" /\ None # "ck"
    BY Shape
  <2> QED BY <1>1, <2>1 DEF WalInv, Backfilling
<1>4. ASSUME NEW d \in Conns PROVE Fits(d, con[d])'
  <2>1. None # d
    BY Shape
  <2>2. CASE d = c
    <3>1. con'[d] = idleConn
      BY <1>1, <2>2
    <3>2. idleConn.pc = "idle" /\ idleConn.lock = -1 /\ idleConn.hdr.salt <= salts /\ idleConn \in Handles
      BY StartTypes DEF idleConn, zeroHeader, Header, WalInv, FileTypes
    <3> QED BY <1>1, <2>1, <3>1, <3>2, IdleFits DEF Fits
  <2>3. CASE d # c
    <3>1. con'[d] = con[d] /\ Fits(d, con[d]) /\ writer # d
      BY <1>1, <2>3 DEF WalInv
    <3>2. Writing(d, con[d], None, shm, image)
      BY <2>1, <3>1, OtherWriter DEF Fits
    <3> QED BY <1>1, <1>2, <3>1, <3>2 DEF Fits
  <2> QED BY <2>2, <2>3
<1> QED BY <1>1, <1>2, <1>3, <1>4 DEF WalInv

-----------------------------------------------------------------------------
(* The checkpointer *)

(* A step of the checkpointer that at most gives a free mark another value *)
(* keeps the invariant if the checkpointer spares every snapshot.          *)
LEMMA CkptStep ==
  ASSUME WalInv, NEW K \in Ckpts, ck' = K, Backfilling(wal.frames, db, shm, K, writer, salts),
         \A d \in Conns : Spared(con[d], K),
         NEW M \in [Slots -> Nat], shm' = [shm EXCEPT !.marks = M],
         \A d \in Conns : con[d].lock >= 1 => M[con[d].lock] = shm.marks[con[d].lock],
         disk' \in [wal : LogFiles, db : Images], disk'.wal.header <= salts,
         UNCHANGED <<wal, db, con, writer, salts, stamps, log, inflight>>
  PROVE  WalInv'
<1>1. /\ shm \in Indexes /\ shm' \in Indexes /\ shm'.init = shm.init /\ shm'.hdr = shm.hdr
      /\ shm'.nBackfill = shm.nBackfill /\ shm'.marks = M
  BY DEF WalInv, SharedTypes, Indexes
<1>2. FileTypes' /\ SharedTypes' /\ SaltsDrawn' /\ image' = image
  BY <1>1 DEF WalInv, FileTypes, SharedTypes, SaltsDrawn, image
<1>3. IndexOK(wal.frames, db, shm', image) /\ Backfilling(wal.frames, db, shm', K, writer, salts)
  BY <1>1, SameIndex DEF WalInv
<1>4. ASSUME NEW d \in Conns PROVE Fits(d, con[d])'
  <2>1. Fits(d, con[d]) /\ (con[d].lock >= 1 => M[con[d].lock] = shm.marks[con[d].lock])
    BY DEF WalInv
  <2>2. /\ shm'.init \/ con[d].pc = "idle"
        /\ Placed(con[d]) /\ Version(con[d], shm', image, salts)
        /\ Locked(con[d], wal.frames, db, shm', image)
        /\ Snapshot(con[d], wal.frames, db, shm') /\ Spared(con[d], K)
        /\ Writing(d, con[d], writer, shm', image)
        /\ Appending(con[d], wal.frames, shm', image, inflight)
    BY <1>1, <2>1, SameIndex DEF Fits
  <2> QED BY <1>2, <2>2 DEF Fits
<1> QED BY <1>2, <1>3, <1>4 DEF WalInv

(* One that leaves the marks alone.                                        *)
LEMMA CkptOnly ==
  ASSUME WalInv, NEW K \in Ckpts, ck' = K, Backfilling(wal.frames, db, shm, K, writer, salts),
         \A d \in Conns : Spared(con[d], K),
         disk' \in [wal : LogFiles, db : Images], disk'.wal.header <= salts,
         UNCHANGED <<wal, db, shm, con, writer, salts, stamps, log, inflight>>
  PROVE  WalInv'
<1>1. shm.marks \in [Slots -> Nat] /\ shm' = [shm EXCEPT !.marks = shm.marks]
  BY DEF WalInv, SharedTypes, Indexes
<1> QED BY <1>1, CkptStep

(* What is on disk has its type.                                           *)
LEMMA DiskTypes ==
  ASSUME WalInv PROVE disk \in [wal : LogFiles, db : Images] /\ disk.wal.header <= salts
BY DEF WalInv, FileTypes, SaltsDrawn

(* What the fields of the checkpointer's record are.                       *)
LEMMA CkptFields ==
  ASSUME NEW K \in Ckpts
  PROVE  /\ K.pc \in CkptPcs /\ K.hdr \in Headers /\ K.hdr.mxFrame \in Nat /\ K.hdr.salt \in Nat
         /\ K.slot \in Nat \ {0} /\ K.safe \in Nat /\ K.y \in Nat \cup {-1} /\ K.todo \in SUBSET Nat
BY DEF Ckpts, Headers

(* A checkpointer that is between checkpoints disturbs nobody.             *)
LEMMA CkptRests ==
  ASSUME WalInv, NEW K \in Ckpts, K.pc \in {"idle", "restart"}, ck.pc # "newHeader", K.pc = "idle" \/ shm.init
  PROVE  /\ Backfilling(wal.frames, db, shm, K, writer, salts)
         /\ \A d \in Conns : Spared(con[d], K)
BY DEF WalInv, Backfilling, Spared

(* The checkpoint begins with the header of this moment.                   *)
LEMMA CheckpointKeeps == ASSUME WalInv, sqlite3WalCheckpoint PROVE WalInv'
<1>1. PICK K : /\ ck' = K
               /\ K = [idleCkpt EXCEPT !.hdr = shm.hdr, !.safe = shm.hdr.mxFrame,
                         !.pc = IF shm.nBackfill < shm.hdr.mxFrame THEN "marks" ELSE "restart"]
  BY DEF sqlite3WalCheckpoint
<1>2. /\ ck.pc = "idle" /\ shm.init
      /\ UNCHANGED <<wal, db, disk, shm, con, writer, salts, stamps, log, inflight>>
  BY DEF sqlite3WalCheckpoint, files, bounds, history
<1>3. shm.hdr \in Headers /\ shm.hdr.mxFrame \in Nat /\ shm.nBackfill \in Nat
  BY IndexFields DEF WalInv, SharedTypes
<1>4. /\ K \in Ckpts /\ K.hdr = shm.hdr /\ K.safe = shm.hdr.mxFrame /\ K.slot = 1 /\ K.y = -1
      /\ K.pc = IF shm.nBackfill < shm.hdr.mxFrame THEN "marks" ELSE "restart"
  BY <1>1, <1>3, StartTypes DEF Ckpts, CkptPcs, idleCkpt
<1>5. CASE K.pc = "restart"
  BY <1>1, <1>2, <1>4, <1>5, CkptRests, CkptOnly, DiskTypes
<1>6. CASE K.pc = "marks"
  <2>1. shm.nBackfill < shm.hdr.mxFrame
    BY <1>4, <1>6
  <2>2. writer # "ck"
    BY <1>2 DEF WalInv, Backfilling
  <2>3. Backfilling(wal.frames, db, shm, K, writer, salts)
    BY <1>2, <1>3, <1>4, <1>6, <2>1, <2>2 DEF Backfilling
  <2>4. ASSUME NEW d \in Conns PROVE Spared(con[d], K)
    <3>1. Held(con[d]) => ~(con[d].lock < 1)
      BY HandleFields DEF Held, WalInv, SharedTypes
    <3> QED BY <1>4, <1>6, <3>1 DEF Spared
  <2> QED BY <1>1, <1>2, <1>4, <2>3, <2>4, CkptOnly, DiskTypes
<1> QED BY <1>4, <1>5, <1>6

(* ReadMark takes a mark, which may be set anew before PassMark.           *)
LEMMA ReadMarkKeeps == ASSUME WalInv, ReadMark PROVE WalInv'
<1>1. PICK K : ck' = K /\ K = [ck EXCEPT !.y = shm.marks[ck.slot]]
  BY DEF ReadMark
<1>2. /\ ck.pc = "marks" /\ ck.slot \in Slots /\ ck \in Ckpts /\ shm.marks \in [Slots -> Nat]
      /\ UNCHANGED <<wal, db, disk, shm, con, writer, salts, stamps, log, inflight>>
  BY IndexFields DEF ReadMark, files, bounds, history, WalInv, SharedTypes
<1>3. /\ K \in Ckpts /\ K.hdr = ck.hdr /\ K.safe = ck.safe /\ K.slot = ck.slot /\ K.pc = "marks"
      /\ K.y = shm.marks[ck.slot]
  BY <1>1, <1>2 DEF Ckpts
<1>4. Backfilling(wal.frames, db, shm, K, writer, salts)
  BY <1>2, <1>3 DEF WalInv, Backfilling
<1>5. ASSUME NEW d \in Conns PROVE Spared(con[d], K)
  <2>1. Fits(d, con[d])
    BY DEF WalInv
  <2>2. Held(con[d]) => shm.marks[con[d].lock] <= con[d].hdr.mxFrame
    BY <2>1 DEF Fits, Snapshot
  <2> QED BY <1>2, <1>3, <2>1, <2>2 DEF Fits, Spared
<1> QED BY <1>1, <1>2, <1>3, <1>4, <1>5, CkptOnly, DiskTypes

(* Passing a mark brings the safe frame down to what its readers need.     *)
LEMMA PassMarkKeeps == ASSUME WalInv, PassMark PROVE WalInv'
<1>1. /\ ck.pc = "marks" /\ ck.slot \in Slots /\ ck.y >= 0 /\ ck \in Ckpts
      /\ UNCHANGED <<wal, db, disk, con, writer, salts, stamps, log, inflight>>
  BY DEF PassMark, files, bounds, history, WalInv, SharedTypes
<1>2. ck.y \in Nat /\ ck.safe \in Nat /\ ck.slot \in Nat \ {0} /\ ck.hdr.mxFrame \in Nat
  BY <1>1, CkptFields
<1>3. ASSUME NEW K \in Ckpts, K.pc = "marks", K.hdr = ck.hdr, K.slot = ck.slot + 1, K.y = -1,
             K.safe <= ck.safe,
             \A d \in Conns : Held(con[d]) /\ con[d].lock = ck.slot => K.safe <= con[d].hdr.mxFrame
      PROVE  Backfilling(wal.frames, db, shm, K, writer, salts) /\ \A d \in Conns : Spared(con[d], K)
  <2>1. K.safe \in Nat /\ ck.safe <= ck.hdr.mxFrame
    BY <1>1, <1>3, CkptFields DEF WalInv, Backfilling
  <2>2. K.safe <= K.hdr.mxFrame
    BY <1>2, <1>3, <2>1
  <2>3. Backfilling(wal.frames, db, shm, K, writer, salts)
    BY <1>1, <1>3, <2>2 DEF WalInv, Backfilling
  <2>4. ASSUME NEW d \in Conns PROVE Spared(con[d], K)
    <3>1. con[d] \in Handles /\ Spared(con[d], ck) /\ con[d].hdr.mxFrame \in Nat /\ con[d].lock \in Int
      BY HandleFields DEF WalInv, SharedTypes, Fits
    <3>2. Held(con[d]) /\ con[d].lock < ck.slot => ck.safe <= con[d].hdr.mxFrame
      BY <1>1, <3>1 DEF Spared
    <3>3. Held(con[d]) /\ con[d].lock < K.slot => K.safe <= con[d].hdr.mxFrame
      <4>1. con[d].lock < K.slot => con[d].lock < ck.slot \/ con[d].lock = ck.slot
        BY <1>2, <1>3, <3>1
      <4>2. ck.safe <= con[d].hdr.mxFrame => K.safe <= con[d].hdr.mxFrame
        BY <1>2, <1>3, <2>1, <3>1
      <4> QED BY <1>3, <3>2, <4>1, <4>2
    <3> QED BY <1>3, <3>3 DEF Spared
  <2> QED BY <2>3, <2>4
<1>4. ASSUME NEW d \in Conns, Held(con[d]), con[d].lock = ck.slot
      PROVE  ck.y <= con[d].hdr.mxFrame \/ ck.safe <= con[d].hdr.mxFrame
  BY <1>1, <1>4 DEF WalInv, Fits, Spared
<1>5. PICK K : K = [ck EXCEPT !.slot = ck.slot + 1, !.y = -1]
  OBVIOUS
<1>6. K \in Ckpts /\ K.pc = "marks" /\ K.hdr = ck.hdr /\ K.slot = ck.slot + 1 /\ K.y = -1 /\ K.safe = ck.safe
  <2>1. ck.slot + 1 \in Nat \ {0} /\ -1 \in Nat \cup {-1}
    BY <1>2
  <2> QED BY <1>1, <1>5, <2>1 DEF Ckpts
<1>7. CASE ck.safe <= ck.y /\ ck' = K /\ UNCHANGED shm
  <2>1. \A d \in Conns : Held(con[d]) /\ con[d].lock = ck.slot => K.safe <= con[d].hdr.mxFrame
    BY <1>2, <1>4, <1>6, <1>7, HandleFields DEF WalInv, SharedTypes
  <2> QED BY <1>1, <1>2, <1>3, <1>6, <1>7, <2>1, CkptOnly, DiskTypes
<1>8. CASE /\ markFree(ck.slot) /\ ck' = K
           /\ shm' = [shm EXCEPT !.marks[ck.slot] = IF ck.slot = 1 THEN ck.safe ELSE READMARK_NOT_USED]
  <2>1. \A d \in Conns : con[d].lock # ck.slot
    BY <1>8 DEF markFree, holders
  <2>2. PICK M : M = [shm.marks EXCEPT ![ck.slot] = IF ck.slot = 1 THEN ck.safe ELSE READMARK_NOT_USED]
    OBVIOUS
  <2>3. shm' = [shm EXCEPT !.marks = M] /\ M \in [Slots -> Nat]
    <3>1. shm.marks \in [Slots -> Nat] /\ READMARK_NOT_USED \in Nat
      BY IndexFields, StartTypes DEF WalInv, SharedTypes
    <3> QED BY <1>1, <1>2, <1>8, <2>2, <3>1
  <2>4. \A d \in Conns : con[d].lock >= 1 => M[con[d].lock] = shm.marks[con[d].lock]
    <3> SUFFICES ASSUME NEW d \in Conns, con[d].lock >= 1 PROVE M[con[d].lock] = shm.marks[con[d].lock]
      OBVIOUS
    <3>1. con[d].lock \in Slots /\ shm.marks \in [Slots -> Nat]
      BY HandleFields, IndexFields DEF WalInv, SharedTypes
    <3> QED BY <2>1, <2>2, <3>1
  <2>5. Backfilling(wal.frames, db, shm, K, writer, salts) /\ \A d \in Conns : Spared(con[d], K)
    BY <1>2, <1>3, <1>6, <2>1
  <2> QED BY <1>1, <1>6, <1>8, <2>3, <2>4, <2>5, CkptStep, DiskTypes
<1>9. CASE ck.safe > ck.y /\ ck' = [K EXCEPT !.safe = ck.y] /\ UNCHANGED shm
  <2>1. PICK L : L = [K EXCEPT !.safe = ck.y]
    OBVIOUS
  <2>2. L \in Ckpts /\ L.pc = "marks" /\ L.hdr = ck.hdr /\ L.slot = ck.slot + 1 /\ L.y = -1 /\ L.safe = ck.y
    BY <1>2, <1>6, <2>1 DEF Ckpts
  <2>3. \A d \in Conns : Held(con[d]) /\ con[d].lock = ck.slot => L.safe <= con[d].hdr.mxFrame
    BY <1>2, <1>4, <1>9, <2>2, HandleFields DEF WalInv, SharedTypes
  <2>4. L.safe <= ck.safe
    BY <1>2, <1>9, <2>2
  <2> QED BY <1>1, <1>3, <1>9, <2>1, <2>2, <2>3, <2>4, CkptOnly, DiskTypes
<1> QED BY <1>5, <1>7, <1>8, <1>9 DEF PassMark

(* The newest frame of a page is the last one.                             *)
LEMMA NewestFrame ==
  ASSUME NEW lo \in Nat \ {0}, NEW m \in Nat, NEW i \in lo .. m
  PROVE  i = newestFrame(wal.frames[i].page, lo, m) <=> Newest(wal.frames, i, m)
<1> DEFINE S == {j \in lo .. m : wal.frames[j].page = wal.frames[i].page}
<1>1. S \in SUBSET Nat /\ i \in S /\ \A x \in S : x <= m
  OBVIOUS
<1>2. Max(S) \in S /\ \A x \in S : x <= Max(S)
  BY <1>1, GreatestNumber
<1>3. newestFrame(wal.frames[i].page, lo, m) = Max(S)
  BY <1>1 DEF newestFrame
<1>4. ASSUME i = Max(S) PROVE Newest(wal.frames, i, m)
  <2> SUFFICES ASSUME NEW j \in i + 1 .. m, wal.frames[j].page = wal.frames[i].page PROVE FALSE
    BY DEF Newest
  <2>1. j \in S /\ j > i
    OBVIOUS
  <2>2. j <= i
    BY <1>2, <1>4, <2>1
  <2> HIDE DEF S
  <2> QED BY <2>1, <2>2
<1>5. ASSUME Newest(wal.frames, i, m) PROVE i = Max(S)
  <2>1. Max(S) \in lo .. m /\ wal.frames[Max(S)].page = wal.frames[i].page /\ i <= Max(S)
    BY <1>1, <1>2
  <2>2. ~(Max(S) \in i + 1 .. m)
    BY <1>5, <2>1 DEF Newest
  <2> QED BY <2>1, <2>2
<1> QED BY <1>3, <1>4, <1>5

(* With all marks passed no snapshot is below the safe frame.              *)
LEMMA BeginBackfillKeeps == ASSUME WalInv, BeginBackfill PROVE WalInv'
<1>1. /\ ck.pc = "marks" /\ ck.slot \notin Slots /\ ck \in Ckpts /\ shm.init
      /\ UNCHANGED <<wal, db, shm, con, writer, salts, stamps, log, inflight>>
  BY DEF BeginBackfill, bounds, WalInv, SharedTypes, Backfilling
<1>2. CASE shm.nBackfill < ck.safe /\ holders(0) = {} /\ disk' = [disk EXCEPT !.wal = wal]
           /\ ck' = [ck EXCEPT !.pc = "copy", !.todo = walIterator]
  <2>1. PICK K : K = [ck EXCEPT !.pc = "copy", !.todo = walIterator]
    OBVIOUS
  <2>2. /\ ck.slot \in Nat \ {0} /\ ck.safe \in Nat /\ ck.hdr.mxFrame \in Nat /\ shm.nBackfill \in Nat
        /\ ck.safe <= ck.hdr.mxFrame
    BY <1>1, CkptFields, IndexFields DEF WalInv, SharedTypes, Backfilling
  <2>3. walIterator \subseteq shm.nBackfill + 1 .. ck.safe /\ walIterator \in SUBSET Nat
    BY <2>2 DEF walIterator
  <2>4. /\ K \in Ckpts /\ K.pc = "copy" /\ K.hdr = ck.hdr /\ K.safe = ck.safe /\ K.todo = walIterator
    BY <1>1, <2>1, <2>3 DEF Ckpts, CkptPcs
  <2>5. \A i \in shm.nBackfill + 1 .. ck.safe : i \in walIterator <=> Newest(wal.frames, i, ck.hdr.mxFrame)
    <3> SUFFICES ASSUME NEW i \in shm.nBackfill + 1 .. ck.safe
                 PROVE  i \in walIterator <=> Newest(wal.frames, i, ck.hdr.mxFrame)
      OBVIOUS
    <3>1. shm.nBackfill + 1 \in Nat \ {0} /\ i \in shm.nBackfill + 1 .. ck.hdr.mxFrame
      BY <2>2
    <3>2. i = newestFrame(wal.frames[i].page, shm.nBackfill + 1, ck.hdr.mxFrame)
            <=> Newest(wal.frames, i, ck.hdr.mxFrame)
      BY <2>2, <3>1, NewestFrame
    <3> QED BY <3>2 DEF walIterator
  <2>6. Backfilling(wal.frames, db, shm, K, writer, salts)
    <3>1. /\ \A i \in walIterator : Newest(wal.frames, i, ck.hdr.mxFrame)
          /\ \A i \in shm.nBackfill + 1 .. ck.safe :
               Newest(wal.frames, i, ck.hdr.mxFrame) /\ wal.frames[i].page \in Pages =>
                 i \in walIterator \/ db[wal.frames[i].page] = wal.frames[i].val
      BY <2>3, <2>5
    <3> QED BY <1>1, <1>2, <2>3, <2>4, <3>1 DEF WalInv, Backfilling
  <2>7. ASSUME NEW d \in Conns PROVE Spared(con[d], K)
    <3>1. con[d] \in Handles /\ Spared(con[d], ck)
      BY DEF WalInv, SharedTypes, Fits
    <3>2. con[d].lock # 0
      BY <1>2 DEF holders
    <3>3. Held(con[d]) => con[d].lock < ck.slot
      <4>1. Held(con[d]) => con[d].lock \in 1 .. WAL_NREADER - 1
        BY <3>1, HandleFields DEF Held, Slots
      <4>2. ck.slot >= WAL_NREADER /\ WAL_NREADER \in Nat
        BY <1>1, <2>2, Shape DEF Slots
      <4> QED BY <2>2, <4>1, <4>2
    <3> QED BY <1>1, <2>4, <3>1, <3>2, <3>3 DEF Spared
  <2>8. disk' \in [wal : LogFiles, db : Images] /\ disk'.wal.header <= salts
    BY <1>2 DEF WalInv, FileTypes, SaltsDrawn
  <2> QED BY <1>1, <1>2, <2>1, <2>4, <2>6, <2>7, <2>8, CkptOnly
<1>3. CASE ck' = [ck EXCEPT !.pc = "restart"] /\ UNCHANGED disk
  <2>1. PICK K : K = [ck EXCEPT !.pc = "restart"]
    OBVIOUS
  <2>2. K \in Ckpts /\ K.pc = "restart"
    BY <1>1, <2>1 DEF Ckpts, CkptPcs
  <2> QED BY <1>1, <1>3, <2>1, <2>2, CkptRests, CkptOnly, DiskTypes
<1> QED BY <1>2, <1>3 DEF BeginBackfill

(* A page that is copied is in the frames of everyone who reads the log.   *)
LEMMA CopyPageKeeps == ASSUME WalInv, CopyPage PROVE WalInv'
<1>1. /\ ck.pc = "copy" /\ ck \in Ckpts /\ shm.init /\ shm \in Indexes /\ con \in [Conns -> Handles]
      /\ disk' = Unsynced(wal, db')
      /\ UNCHANGED <<wal, shm, con, writer, salts, stamps, log, inflight>>
  BY DEF CopyPage, bounds, history, WalInv, SharedTypes, Backfilling
<1>2. PICK i \in ck.todo : /\ db' = [db EXCEPT ![wal.frames[i].page] = wal.frames[i].val]
                           /\ ck' = [ck EXCEPT !.todo = ck.todo \ {i}]
  BY DEF CopyPage
<1>3. PICK K : K = [ck EXCEPT !.todo = ck.todo \ {i}]
  OBVIOUS
<1>4. PICK F, D, E : F = wal.frames /\ D = db /\ E = db'
  OBVIOUS
<1>5. /\ K \in Ckpts /\ K.pc = "copy" /\ K.hdr = ck.hdr /\ K.safe = ck.safe /\ K.slot = ck.slot
      /\ K.y = ck.y /\ K.todo = ck.todo \ {i}
  BY <1>1, <1>3 DEF Ckpts
<1>6. /\ ck.safe \in Nat /\ ck.hdr.mxFrame \in Nat /\ shm.nBackfill \in Nat /\ shm.hdr.mxFrame \in Nat
      /\ ck.safe <= ck.hdr.mxFrame /\ ck.hdr.mxFrame <= shm.hdr.mxFrame
      /\ ck.todo \subseteq shm.nBackfill + 1 .. ck.safe
      /\ \A j \in ck.todo : Newest(F, j, ck.hdr.mxFrame)
      /\ \A j \in shm.nBackfill + 1 .. ck.safe :
           Newest(F, j, ck.hdr.mxFrame) /\ F[j].page \in Pages => j \in ck.todo \/ D[F[j].page] = F[j].val
  BY <1>1, <1>4, CkptFields, IndexFields DEF WalInv, Backfilling
<1>7. i \in shm.nBackfill + 1 .. ck.safe /\ i \in Nat /\ Newest(F, i, ck.hdr.mxFrame)
  BY <1>6
<1>8. D \in Images /\ E = [D EXCEPT ![F[i].page] = F[i].val] /\ F \in Seq(FrameSet)
  BY <1>2, <1>4 DEF WalInv, FileTypes, LogFiles
<1>9. i <= Len(F) /\ Len(F) \in Nat /\ F[i].val \in Nat
  <2>1. shm.hdr.mxFrame <= Len(F) /\ Len(F) \in Nat
    BY <1>1, <1>4, <1>8, LenProperties DEF WalInv, IndexOK
  <2>2. i \in 1 .. Len(F)
    BY <1>6, <1>7, <2>1
  <2>3. F[i] \in FrameSet
    BY <1>8, <2>2, ElementOfSeq
  <2> QED BY <2>1, <2>2, <2>3 DEF FrameSet
<1>10. E \in Images
  BY <1>8, <1>9 DEF Images
<1>11. FileTypes' /\ SharedTypes' /\ SaltsDrawn' /\ image' = image
  <2>1. disk' \in [wal : LogFiles, db : Images] /\ disk'.wal.header <= salts
    BY <1>1, <1>4, <1>10 DEF Unsynced, WalInv, FileTypes, SaltsDrawn
  <2>2. ck' \in Ckpts
    BY <1>2, <1>3, <1>5
  <2> QED BY <1>1, <1>4, <1>10, <2>1, <2>2 DEF WalInv, FileTypes, SharedTypes, SaltsDrawn, image
<1>12. ASSUME NEW I, NEW lo \in Nat \ {0}, NEW m \in Nat, lo <= i, i <= m, ImageFrom(F, D, m, I, lo)
       PROVE  ImageFrom(F, E, m, I, lo)
  <2> SUFFICES ASSUME NEW p \in Pages PROVE Find(F, E, p, lo, m) = I[p]
    BY DEF ImageFrom
  <2>1. Find(F, D, p, lo, m) = I[p]
    BY <1>12 DEF ImageFrom
  <2>2. D[p] = E[p] \/ \E j \in lo .. m : F[j].page = p
    <3>1. i \in lo .. m
      BY <1>7, <1>12
    <3> QED BY <1>8, <3>1 DEF Images
  <2>3. Find(F, E, p, lo, m) = Find(F, D, p, lo, m)
    BY ONLY <2>2, lo \in Nat \ {0}, m \in Nat, FindSame
  <2> QED BY <2>1, <2>3
<1>13. IndexOK(F, E, shm, image)
  <2>1. /\ shm.nBackfill <= shm.hdr.mxFrame /\ shm.hdr.mxFrame <= Len(F)
        /\ ImageFrom(F, D, shm.hdr.mxFrame, image, shm.nBackfill + 1)
    BY <1>1, <1>4 DEF WalInv, IndexOK
  <2>2. /\ shm.nBackfill + 1 \in Nat \ {0} /\ shm.nBackfill + 1 <= i /\ i <= shm.hdr.mxFrame
    BY <1>6, <1>7
  <2>3. ImageFrom(F, E, shm.hdr.mxFrame, image, shm.nBackfill + 1)
    BY <1>6, <1>12, <2>1, <2>2
  <2> QED BY <2>1, <2>3 DEF IndexOK
<1>14. Backfilling(F, E, shm, K, writer, salts)
  <2>1. \A j \in K.todo : Newest(F, j, K.hdr.mxFrame)
    BY <1>5, <1>6
  <2>2. ASSUME NEW j \in shm.nBackfill + 1 .. ck.safe, Newest(F, j, ck.hdr.mxFrame), F[j].page \in Pages
        PROVE  j \in K.todo \/ E[F[j].page] = F[j].val
    <3>1. CASE j = i
      BY <1>8, <2>2, <3>1 DEF Images
    <3>2. CASE j # i /\ j \in ck.todo
      BY <1>5, <3>2
    <3>3. CASE j # i /\ D[F[j].page] = F[j].val
      <4>1. F[j].page # F[i].page
        <5>1. j \in Int /\ j <= ck.hdr.mxFrame /\ i <= ck.hdr.mxFrame
          BY <1>6, <1>7
        <5>2. j \in i + 1 .. ck.hdr.mxFrame \/ i \in j + 1 .. ck.hdr.mxFrame
          BY <1>6, <1>7, <3>3, <5>1
        <5> QED BY <1>7, <2>2, <5>2 DEF Newest
      <4> QED BY <1>8, <2>2, <3>3, <4>1 DEF Images
    <3> QED BY <1>6, <2>2, <3>1, <3>2, <3>3
  <2>3. K.todo \subseteq shm.nBackfill + 1 .. K.safe
    BY <1>5, <1>6
  <2> QED BY <1>1, <1>5, <2>1, <2>2, <2>3 DEF WalInv, Backfilling
<1>15. ASSUME NEW d \in Conns PROVE Fits(d, con[d])'
  <2>1. /\ con[d] \in Handles /\ Fits(d, con[d]) /\ con[d].minFrame \in Nat /\ con[d].hdr.mxFrame \in Nat
    BY <1>1, HandleFields DEF WalInv
  <2>2. con[d].lock # 0 /\ (Held(con[d]) => ck.safe <= con[d].hdr.mxFrame)
    BY <1>1, <2>1 DEF Fits, Spared
  <2>3. Spared(con[d], K)
    BY <1>5, <2>2 DEF Spared
  <2>4. con[d].lock >= 1 => /\ 1 <= con[d].minFrame /\ con[d].minFrame <= shm.nBackfill + 1
                            /\ \A lo \in con[d].minFrame .. shm.nBackfill + 1 :
                                 ImageFrom(F, D, shm.hdr.mxFrame, image, lo)
    BY <1>4, <2>1 DEF Fits, Locked
  <2>5. ASSUME con[d].lock >= 1, NEW lo \in con[d].minFrame .. shm.nBackfill + 1
        PROVE  ImageFrom(F, E, shm.hdr.mxFrame, image, lo)
    <3>1. lo \in Nat \ {0} /\ lo <= i /\ i <= shm.hdr.mxFrame
      BY <1>6, <1>7, <2>1, <2>4, <2>5
    <3>2. ImageFrom(F, D, shm.hdr.mxFrame, image, lo)
      BY <2>4, <2>5
    <3> QED BY <1>6, <1>12, <3>1, <3>2
  <2>6. Locked(con[d], F, E, shm, image)
    BY <2>4, <2>5 DEF Locked
  <2>7. ASSUME Held(con[d]) PROVE ImageFrom(F, E, con[d].hdr.mxFrame, con[d].seen, con[d].minFrame)
    <3>1. con[d].lock >= 1
      BY <2>7 DEF Held
    <3>2. con[d].minFrame \in Nat \ {0} /\ con[d].minFrame <= i /\ i <= con[d].hdr.mxFrame
      BY <1>6, <1>7, <2>1, <2>2, <2>4, <2>7, <3>1
    <3>3. ImageFrom(F, D, con[d].hdr.mxFrame, con[d].seen, con[d].minFrame)
      BY <1>4, <2>1, <2>7 DEF Fits, Snapshot
    <3> QED BY <1>12, <2>1, <3>2, <3>3
  <2>8. Snapshot(con[d], F, E, shm)
    BY <2>1, <2>2, <2>7 DEF Fits, Snapshot
  <2>9. Fits(d, con[d])
    BY <2>1
  <2> QED BY <1>1, <1>2, <1>3, <1>4, <1>11, <2>3, <2>6, <2>8, <2>9 DEF Fits
<1> QED BY <1>1, <1>2, <1>3, <1>4, <1>11, <1>13, <1>14, <1>15 DEF WalInv

(* A checkpoint that stops has copied pages nobody reads from the file.    *)
LEMMA BackfillStopsKeeps == ASSUME WalInv, BackfillStops PROVE WalInv'
<1>1. ck.pc = "copy" /\ ck' = idleCkpt /\ UNCHANGED <<wal, db, disk, shm, con, writer, salts, stamps, log, inflight>>
  BY DEF BackfillStops, files, bounds, history
<1>2. idleCkpt \in Ckpts /\ idleCkpt.pc = "idle"
  BY StartTypes DEF idleCkpt
<1> QED BY <1>1, <1>2, CkptRests, CkptOnly, DiskTypes

(* Once all is copied, the log can be read from anywhere up to behind the  *)
(* safe frame.                                                             *)
LEMMA CopiedUpTo ==
  ASSUME WalInv, ck.pc = "copy", ck.todo = {}, NEW lo \in shm.nBackfill + 1 .. ck.safe + 1
  PROVE  ImageFrom(wal.frames, db, shm.hdr.mxFrame, image, lo)
<1>1. PICK F, D, m, b : F = wal.frames /\ D = db /\ m = shm.hdr.mxFrame /\ b = shm.nBackfill + 1
  OBVIOUS
<1>2. /\ ck.safe \in Nat /\ ck.hdr.mxFrame \in Nat /\ b \in Nat \ {0} /\ m \in Nat
      /\ ck.safe <= ck.hdr.mxFrame /\ ck.hdr.mxFrame <= m
      /\ \A i \in b .. ck.safe :
           Newest(F, i, ck.hdr.mxFrame) /\ F[i].page \in Pages => D[F[i].page] = F[i].val
      /\ ImageFrom(F, D, m, image, b)
  <2>1. shm.nBackfill \in Nat /\ shm.init
    BY IndexFields DEF WalInv, SharedTypes, Backfilling
  <2> QED BY <1>1, <2>1, CkptFields, IndexFields DEF WalInv, SharedTypes, Backfilling, IndexOK
<1>3. lo \in Nat \ {0} /\ b <= lo /\ lo <= ck.safe + 1
  BY <1>1, <1>2
<1> SUFFICES ASSUME NEW p \in Pages PROVE Find(F, D, p, lo, m) = image[p]
  BY <1>1 DEF ImageFrom
<1>4. Find(F, D, p, b, m) = image[p]
  BY <1>2 DEF ImageFrom
<1>5. CASE \E i \in lo .. m : F[i].page = p
  <2>1. Find(F, D, p, lo, m) = Find(F, D, p, b, m)
    BY ONLY <1>2, <1>3, <1>5, FindFrom
  <2> QED BY <1>4, <2>1
<1>6. CASE \A i \in lo .. m : F[i].page # p
  <2>1. Find(F, D, p, lo, m) = D[p]
    BY <1>6, FindMiss
  <2>2. CASE \E i \in b .. m : F[i].page = p
    <3>1. PICK i \in b .. m : /\ F[i].page = p /\ \A j \in i + 1 .. m : F[j].page # p
                              /\ \A X : Find(F, X, p, b, m) = F[i].val
      <4>1. b \in Nat \ {0} /\ m \in Nat
        BY <1>2
      <4> QED BY ONLY <2>2, <4>1, FindLast
    <3>2. ~(i \in lo .. m)
      BY <1>6, <3>1
    <3>3. i \in b .. ck.safe
      BY <1>2, <1>3, <3>2
    <3>4. Newest(F, i, ck.hdr.mxFrame)
      <4>1. \A j \in i + 1 .. ck.hdr.mxFrame : j \in i + 1 .. m
        BY <1>2, <3>3
      <4> QED BY <3>1, <4>1 DEF Newest
    <3>5. D[p] = F[i].val
      BY <1>2, <3>1, <3>3, <3>4
    <3> QED BY <1>4, <2>1, <3>1, <3>5
  <2>3. CASE \A i \in b .. m : F[i].page # p
    <3>1. Find(F, D, p, b, m) = D[p]
      BY <2>3, FindMiss
    <3> QED BY <1>4, <2>1, <3>1
  <2> QED BY <2>2, <2>3
<1> QED BY <1>5, <1>6

(* EndBackfill counts the copied frames.                                   *)
LEMMA EndBackfillKeeps == ASSUME WalInv, EndBackfill PROVE WalInv'
<1>1. /\ ck.pc = "copy" /\ ck.todo = {} /\ ck \in Ckpts /\ shm.init /\ shm \in Indexes
      /\ con \in [Conns -> Handles]
      /\ disk' = [disk EXCEPT !.db = db] /\ shm' = [shm EXCEPT !.nBackfill = ck.safe]
      /\ ck' = [ck EXCEPT !.pc = "restart"]
      /\ UNCHANGED <<wal, db, con, writer, salts, stamps, log, inflight>>
  BY DEF EndBackfill, bounds, WalInv, SharedTypes, Backfilling
<1>2. /\ ck.safe \in Nat /\ ck.hdr.mxFrame \in Nat /\ shm.hdr.mxFrame \in Nat /\ shm.nBackfill \in Nat
      /\ shm.nBackfill < ck.safe /\ ck.safe <= ck.hdr.mxFrame /\ ck.hdr.mxFrame <= shm.hdr.mxFrame
      /\ writer # "ck"
  BY <1>1, CkptFields, IndexFields DEF WalInv, Backfilling
<1>3. /\ shm' \in Indexes /\ shm'.init /\ shm'.hdr = shm.hdr /\ shm'.nBackfill = ck.safe
      /\ shm'.marks = shm.marks
  BY <1>1, <1>2 DEF Indexes
<1>4. ck' \in Ckpts /\ ck'.pc = "restart"
  BY <1>1 DEF Ckpts, CkptPcs
<1>5. FileTypes' /\ SharedTypes' /\ SaltsDrawn' /\ image' = image
  BY <1>1, <1>3, <1>4 DEF WalInv, FileTypes, SharedTypes, SaltsDrawn, image
<1>6. IndexOK(wal.frames, db, shm', image)
  <2>1. ck.safe <= shm.hdr.mxFrame /\ ck.safe + 1 \in shm.nBackfill + 1 .. ck.safe + 1
    BY <1>2
  <2>2. shm.hdr.mxFrame <= Len(wal.frames)
    BY <1>1 DEF WalInv, IndexOK
  <2>3. ImageFrom(wal.frames, db, shm.hdr.mxFrame, image, ck.safe + 1)
    BY <1>1, <2>1, CopiedUpTo
  <2> QED BY <1>3, <2>1, <2>2, <2>3 DEF IndexOK
<1>7. Backfilling(wal.frames, db, shm', ck', writer, salts)
  BY <1>2, <1>3, <1>4 DEF Backfilling
<1>8. ASSUME NEW d \in Conns PROVE Fits(d, con[d])'
  <2>1. con[d] \in Handles /\ Fits(d, con[d]) /\ con[d].minFrame \in Nat
    BY <1>1, HandleFields DEF WalInv
  <2>2. con[d].lock # 0
    BY <1>1, <2>1 DEF Fits, Spared
  <2>3. Version(con[d], shm', image, salts)
    <3>1. con[d].pc = "lockZero" => ~Same(con[d].hdr, shm)
      <4>1. shm.nBackfill # shm.hdr.mxFrame
        BY <1>2
      <4> QED BY <2>1, <4>1 DEF Fits, Version
    <3> QED BY <1>3, <2>1, <2>2, <3>1 DEF Fits, Version, Same
  <2>4. Locked(con[d], wal.frames, db, shm', image)
    <3> SUFFICES ASSUME con[d].lock >= 1
                 PROVE  /\ 1 <= con[d].minFrame /\ con[d].minFrame <= ck.safe + 1
                        /\ \A lo \in con[d].minFrame .. ck.safe + 1 :
                             ImageFrom(wal.frames, db, shm.hdr.mxFrame, image, lo)
      BY <1>3 DEF Locked
    <3>1. /\ 1 <= con[d].minFrame /\ con[d].minFrame <= shm.nBackfill + 1
          /\ \A lo \in con[d].minFrame .. shm.nBackfill + 1 :
               ImageFrom(wal.frames, db, shm.hdr.mxFrame, image, lo)
      BY <2>1 DEF Fits, Locked
    <3>2. con[d].minFrame <= ck.safe + 1
      BY <1>2, <2>1, <3>1
    <3>3. ASSUME NEW lo \in con[d].minFrame .. ck.safe + 1
          PROVE  ImageFrom(wal.frames, db, shm.hdr.mxFrame, image, lo)
      <4>1. lo \in con[d].minFrame .. shm.nBackfill + 1 \/ lo \in shm.nBackfill + 1 .. ck.safe + 1
        BY <1>2, <2>1
      <4> QED BY <1>1, <3>1, <4>1, CopiedUpTo
    <3> QED BY <3>1, <3>2, <3>3
  <2>5. Snapshot(con[d], wal.frames, db, shm') /\ Spared(con[d], ck')
    BY <1>3, <1>4, <2>1 DEF Fits, Snapshot, Spared
  <2>6. Writing(d, con[d], writer, shm', image) /\ Appending(con[d], wal.frames, shm', image, inflight)
    BY <1>3, <2>1 DEF Fits, Writing, Appending
  <2> QED BY <1>1, <1>3, <1>5, <2>1, <2>3, <2>4, <2>5, <2>6 DEF Fits
<1> QED BY <1>1, <1>5, <1>6, <1>7, <1>8 DEF WalInv

(* The checkpointer starts the log again only when it is copied and nobody *)
(* reads or writes it.                                                     *)
LEMMA CkptRestartKeeps == ASSUME WalInv, RestartLog PROVE WalInv'
<1>1. /\ ck.pc = "restart" /\ ck \in Ckpts /\ shm \in Indexes /\ con \in [Conns -> Handles] /\ salts \in Nat
      /\ shm.init
      /\ UNCHANGED <<wal, db, disk, con, stamps, log, inflight>>
  BY DEF RestartLog, files, history, WalInv, SharedTypes, FileTypes, Backfilling
<1>2. CASE ck' = idleCkpt /\ UNCHANGED <<shm, salts, writer>>
  <2>1. idleCkpt \in Ckpts /\ idleCkpt.pc = "idle"
    BY StartTypes DEF idleCkpt
  <2> QED BY <1>1, <1>2, <2>1, CkptRests, CkptOnly, DiskTypes
<1>3. CASE /\ shm.nBackfill = ck.hdr.mxFrame /\ writer = None /\ shm.hdr = ck.hdr
           /\ (\A i \in Slots : holders(i) = {}) /\ salts' = salts + 1
           /\ shm' = walRestartHdr(ck.hdr, salts') /\ writer' = "ck"
           /\ ck' = [ck EXCEPT !.pc = "newHeader", !.hdr = shm'.hdr]
  <2>1. salts' \in Nat /\ ck.hdr \in Headers
    BY <1>1, <1>3, CkptFields
  <2>2. /\ shm' \in Indexes /\ shm'.init /\ shm'.hdr.mxFrame = 0 /\ shm'.hdr.salt = salts'
        /\ shm'.nBackfill = 0 /\ shm'.hdr \in Headers
        /\ \A D \in Images, F \in Seq(FrameSet) : IndexOK(F, D, shm', D)
    BY <1>3, <2>1, Restarted
  <2>3. ck' \in Ckpts /\ ck'.pc = "newHeader" /\ ck'.hdr = shm'.hdr
    BY <1>1, <1>3, <2>2 DEF Ckpts, CkptPcs
  <2>4. FileTypes' /\ SharedTypes' /\ image' = image
    BY <1>1, <1>3, <2>1, <2>2, <2>3 DEF WalInv, FileTypes, SharedTypes, image
  <2>5. SaltsDrawn'
    <3>1. /\ wal.header \in Nat /\ disk.wal.header \in Nat /\ wal.header <= salts
          /\ disk.wal.header <= salts
      BY DEF WalInv, FileTypes, LogFiles, SaltsDrawn
    <3>2. wal.header <= salts' /\ disk.wal.header <= salts'
      BY <1>1, <1>3, <3>1
    <3> QED BY <1>1, <2>1, <2>2, <3>2 DEF SaltsDrawn
  <2>6. db = image
    <3>1. shm.nBackfill = shm.hdr.mxFrame
      BY <1>3
    <3> QED BY <1>1, <3>1, CopiedLog
  <2>7. IndexOK(wal.frames, db, shm', image)
    BY <2>2, <2>6 DEF WalInv, FileTypes, LogFiles
  <2>8. Backfilling(wal.frames, db, shm', ck', writer', salts')
    BY <1>3, <2>1, <2>2, <2>3 DEF Backfilling
  <2>9. ASSUME NEW d \in Conns PROVE Fits(d, con[d])'
    <3>1. Fits(d, con[d]) /\ writer # d /\ writer' # d /\ con[d] \in Handles
      BY <1>1, <1>3, Shape DEF WalInv
    <3>2. con[d].lock < 1
      <4>1. \A i \in Slots : con[d].lock # i
        BY <1>3 DEF holders
      <4> QED BY <3>1, <4>1, HandleFields
    <3>3. /\ Version(con[d], shm', image, salts') /\ Locked(con[d], wal.frames, db, shm', image)
          /\ Snapshot(con[d], wal.frames, db, shm')
      BY <1>1, <1>3, <2>1, <3>1, <3>2, RestartedFits DEF Fits
    <3>4. Writing(d, con[d], writer', shm', image) /\ Appending(con[d], wal.frames, shm', image, inflight)
      BY <3>1, OtherWriter, NotAppending DEF Fits
    <3>5. Spared(con[d], ck')
      BY <2>3, <3>1, <3>2, HandleFields DEF Spared
    <3> QED BY <1>1, <2>2, <2>4, <3>1, <3>3, <3>4, <3>5 DEF Fits
  <2> QED BY <1>1, <2>4, <2>5, <2>7, <2>8, <2>9 DEF WalInv
<1> QED BY <1>2, <1>3 DEF RestartLog

(* The end of the checkpointer's restart: nothing but the header and its   *)
(* checksum may change.                                                    *)
LEMMA NewHeaderEnds ==
  ASSUME WalInv, ck.pc = "newHeader", ck' = idleCkpt, writer' = None,
         wal' \in LogFiles, wal'.frames = wal.frames, wal'.header <= salts,
         disk' \in [wal : LogFiles, db : Images], disk'.wal.header <= salts,
         NEW h \in Headers, shm' = [shm EXCEPT !.hdr = h],
         h.mxFrame = shm.hdr.mxFrame, h.salt = shm.hdr.salt,
         UNCHANGED <<db, con, salts, stamps, log, inflight>>
  PROVE  WalInv'
<1>1. /\ writer = "ck" /\ shm \in Indexes /\ shm' \in Indexes /\ shm'.init = shm.init /\ shm'.hdr = h
      /\ shm'.nBackfill = shm.nBackfill /\ shm'.marks = shm.marks
  BY DEF WalInv, SharedTypes, Indexes, Backfilling
<1>2. idleCkpt \in Ckpts /\ idleCkpt.pc = "idle" /\ None # "ck"
  BY StartTypes, Shape DEF idleCkpt
<1>3. FileTypes' /\ SharedTypes' /\ SaltsDrawn' /\ image' = image
  BY <1>1, <1>2 DEF WalInv, FileTypes, SharedTypes, SaltsDrawn, image
<1>4. IndexOK(wal.frames, db, shm', image)
  BY <1>1, SameIndex DEF WalInv
<1>5. Backfilling(wal.frames, db, shm', idleCkpt, None, salts)
  BY <1>2 DEF Backfilling
<1>6. ASSUME NEW d \in Conns PROVE Fits(d, con[d])'
  <2>1. Fits(d, con[d]) /\ writer # d /\ None # d
    BY <1>1, Shape DEF WalInv
  <2>2. /\ Version(con[d], shm', image, salts) /\ Locked(con[d], wal.frames, db, shm', image)
        /\ Snapshot(con[d], wal.frames, db, shm')
    BY <1>1, <2>1, SameIndex DEF Fits
  <2>3. Writing(d, con[d], None, shm', image) /\ Appending(con[d], wal.frames, shm', image, inflight)
    BY <2>1, OtherWriter, NotAppending DEF Fits
  <2>4. Spared(con[d], idleCkpt)
    BY <1>2 DEF Spared
  <2> QED BY <1>1, <1>3, <2>1, <2>2, <2>3, <2>4 DEF Fits
<1> QED BY <1>3, <1>4, <1>5, <1>6 DEF WalInv

(* The new header is written, or not.                                      *)
LEMMA NewHeaderKeeps == ASSUME WalInv, NewHeader \/ NewHeaderFails PROVE WalInv'
<1>1. /\ ck.pc = "newHeader" /\ ck' = idleCkpt /\ writer' = None /\ shm \in Indexes /\ shm.hdr \in Headers
      /\ UNCHANGED <<db, con, salts, stamps, log, inflight>>
      /\ wal \in LogFiles /\ disk \in [wal : LogFiles, db : Images]
      /\ wal.header <= salts /\ disk.wal.header <= salts
  BY IndexFields DEF NewHeader, NewHeaderFails, files, bounds, history, WalInv, SharedTypes, FileTypes, SaltsDrawn
<1>2. CASE NewHeader
  <2>1. PICK s : s = ck.hdr.salt /\ s \in Nat /\ s <= salts
    BY <1>1, CkptFields DEF WalInv, SharedTypes, Backfilling
  <2>2. wal' = [wal EXCEPT !.header = s] /\ disk' = [disk EXCEPT !.wal = wal']
    BY <1>2, <2>1 DEF NewHeader, walWriteHeader
  <2>3. PICK h : h = [shm.hdr EXCEPT !.cksum = <<s>>]
    OBVIOUS
  <2>4. h \in Headers /\ h.mxFrame = shm.hdr.mxFrame /\ h.salt = shm.hdr.salt
    BY <1>1, <2>1, <2>3, CkSumTypes DEF Headers
  <2>5. shm' = [shm EXCEPT !.hdr = h]
    BY <1>1, <1>2, <2>1, <2>3 DEF NewHeader
  <2>6. /\ wal' \in LogFiles /\ wal'.frames = wal.frames /\ wal'.header <= salts
        /\ disk' \in [wal : LogFiles, db : Images] /\ disk'.wal.header <= salts
    BY <1>1, <2>1, <2>2 DEF LogFiles
  <2> QED BY <1>1, <2>4, <2>5, <2>6, NewHeaderEnds
<1>3. CASE NewHeaderFails
  <2>1. shm' = [shm EXCEPT !.hdr = shm.hdr] /\ UNCHANGED <<wal, disk>>
    BY <1>1, <1>3 DEF NewHeaderFails, files, Indexes
  <2> QED BY <1>1, <2>1, NewHeaderEnds
<1> QED BY <1>2, <1>3

-----------------------------------------------------------------------------
(* Faults and recovery.  With every handle idle the invariant is that of   *)
(* the files and the wal-index.                                            *)
Quiet ==
  /\ FileTypes /\ SharedTypes /\ SaltsDrawn /\ IndexOK(wal.frames, db, shm, image)
  /\ ck.pc = "idle" /\ writer = None
  /\ \A c \in Conns : con[c].pc = "idle" /\ con[c].lock = -1 /\ con[c].hdr.salt <= salts

(* It is all of the invariant, ...                                         *)
LEMMA QuietFits == Quiet => WalInv
<1> SUFFICES ASSUME Quiet PROVE WalInv
  OBVIOUS
<1>1. Backfilling(wal.frames, db, shm, ck, writer, salts)
  BY Shape DEF Quiet, Backfilling
<1>2. ASSUME NEW c \in Conns PROVE Fits(c, con[c])
  <2>1. con[c] \in Handles /\ writer # c
    BY Shape DEF Quiet, SharedTypes
  <2>2. con[c].pc = "idle" /\ con[c].lock = -1 /\ con[c].hdr.salt <= salts
    BY DEF Quiet
  <2> QED BY <2>1, <2>2, IdleFits DEF Fits
<1> QED BY <1>1, <1>2 DEF Quiet, WalInv

(* ... after a step as well.                                               *)
LEMMA QuietNext == Quiet' => WalInv'
BY QuietFits, PTL

(* The log starts empty, over an empty database.                           *)
LEMMA WalInit == Init => WalInv
<1> SUFFICES ASSUME Init PROVE Quiet
  BY QuietFits
<1>1. db \in Images /\ wal \in LogFiles
  BY EmptySeq DEF Init, Images, LogFiles
<1>2. FileTypes
  <2>1. <<db>> \in Seq(Images) /\ <<db>> # << >>
    BY <1>1
  <2> QED BY <1>1, <2>1 DEF Init, FileTypes
<1>3. shm \in Indexes /\ ~shm.init /\ shm.hdr.salt = 0
  BY StartTypes DEF Init, Indexes, zeroHeader, Header
<1>4. SharedTypes
  BY <1>3, StartTypes DEF Init, SharedTypes
<1>5. SaltsDrawn /\ IndexOK(wal.frames, db, shm, image)
  BY <1>3 DEF Init, SaltsDrawn, IndexOK
<1>6. ASSUME NEW c \in Conns PROVE con[c].pc = "idle" /\ con[c].lock = -1 /\ con[c].hdr.salt <= salts
  BY DEF Init, idleConn, zeroHeader, Header
<1> QED BY <1>2, <1>4, <1>5, <1>6 DEF Quiet, Init, idleCkpt

(* After a fault nothing is left but the files, whatever they hold.        *)
LEMMA FaultKeeps ==
  ASSUME WalInv, NEW k, Fault(k), wal' \in LogFiles, db' \in Images,
         disk' \in [wal : LogFiles, db : Images], wal'.header <= salts, disk'.wal.header <= salts
  PROVE  WalInv'
<1> SUFFICES Quiet'
  BY QuietNext
<1>1. /\ con' = [c \in Conns |-> idleConn] /\ ck' = idleCkpt /\ writer' = None
      /\ shm' = [shm EXCEPT !.init = FALSE] /\ UNCHANGED <<salts, stamps, log, inflight>>
  BY DEF Fault
<1>2. FileTypes'
  BY <1>1 DEF WalInv, FileTypes
<1>3. shm \in Indexes /\ shm' \in Indexes /\ ~shm'.init /\ shm'.hdr = shm.hdr
  BY <1>1 DEF WalInv, SharedTypes, Indexes
<1>4. SharedTypes'
  BY <1>1, <1>3, StartTypes DEF SharedTypes
<1>5. SaltsDrawn' /\ IndexOK(wal.frames, db, shm, image)'
  BY <1>1, <1>3 DEF WalInv, SaltsDrawn, IndexOK
<1>6. salts \in Nat
  BY DEF WalInv, FileTypes
<1>7. ASSUME NEW c \in Conns
      PROVE  con'[c].pc = "idle" /\ con'[c].lock = -1 /\ con'[c].hdr.salt <= salts'
  BY <1>1, <1>6 DEF idleConn, zeroHeader, Header
<1> QED BY <1>1, <1>2, <1>4, <1>5, <1>7 DEF Quiet, idleCkpt

(* A kill tears one frame at most.                                         *)
LEMMA KillKeeps == ASSUME WalInv, Kill PROVE WalInv'
<1>1. /\ Fault("kill") /\ UNCHANGED db /\ disk' = Unsynced(wal', db)
      /\ wal \in LogFiles /\ db \in Images /\ disk \in [wal : LogFiles, db : Images]
      /\ wal.header <= salts /\ disk.wal.header <= salts
  BY DEF Kill, WalInv, FileTypes, SaltsDrawn
<1>2. wal' \in LogFiles /\ wal'.header = wal.header
  <2>1. CASE UNCHANGED wal
    BY <1>1, <2>1
  <2>2. CASE ~UNCHANGED wal
    <3>1. PICK c \in Conns :
            /\ con[c].pc = "frames" /\ con[c].todo # {}
            /\ wal' = [wal EXCEPT !.frames = putFrame(@, nextFrame(con[c]), Torn)]
      BY <2>2 DEF Kill
    <3>2. PICK F, G, k : F = wal.frames /\ k = nextFrame(con[c]) /\ G = putFrame(F, k, Torn)
      OBVIOUS
    <3>3. F \in Seq(FrameSet) /\ Torn \in FrameSet /\ k \in 1 .. Len(F) + 1
      BY <1>1, <3>1, <3>2, NextFrame, StartTypes DEF LogFiles
    <3>4. G \in Seq(FrameSet)
      BY ONLY <3>2, <3>3, PutFrame
    <3>5. wal' = [wal EXCEPT !.frames = G]
      BY <3>1, <3>2
    <3> QED BY <1>1, <3>4, <3>5 DEF LogFiles
  <2> QED BY <2>1, <2>2
<1>3. disk' \in [wal : LogFiles, db : Images] /\ disk'.wal.header <= salts
  BY <1>1, <1>2 DEF Unsynced
<1> QED BY <1>1, <1>2, <1>3, FaultKeeps

(* A power failure leaves any part of what was not synced.                 *)
LEMMA PowerKeeps == ASSUME WalInv, PowerFails PROVE WalInv'
<1>1. /\ Fault("power") /\ disk' = [wal |-> wal', db |-> db']
      /\ wal \in LogFiles /\ db \in Images /\ disk \in [wal : LogFiles, db : Images]
      /\ wal.header <= salts /\ disk.wal.header <= salts
  BY DEF PowerFails, WalInv, FileTypes, SaltsDrawn
<1>2. wal' \in LogFiles /\ wal'.header <= salts
  <2>1. PICK header \in {disk.wal.header, wal.header}, n \in Len(disk.wal.frames) .. Len(wal.frames) :
          \E kept \in [1 .. n -> BOOLEAN] :
            wal' = [header |-> header, frames |-> [i \in 1 .. n |->
              IF kept[i] THEN wal.frames[i]
              ELSE IF i <= Len(disk.wal.frames) THEN disk.wal.frames[i] ELSE Torn]]
    BY DEF PowerFails
  <2>2. PICK kept \in [1 .. n -> BOOLEAN] :
          wal' = [header |-> header, frames |-> [i \in 1 .. n |->
            IF kept[i] THEN wal.frames[i]
            ELSE IF i <= Len(disk.wal.frames) THEN disk.wal.frames[i] ELSE Torn]]
    BY <2>1
  <2>3. PICK F, E, G : /\ F = wal.frames /\ E = disk.wal.frames
                       /\ G = [i \in 1 .. n |-> IF kept[i] THEN F[i]
                                                ELSE IF i <= Len(E) THEN E[i] ELSE Torn]
    OBVIOUS
  <2>4. /\ F \in Seq(FrameSet) /\ E \in Seq(FrameSet) /\ Len(F) \in Nat /\ Len(E) \in Nat
        /\ n \in Len(E) .. Len(F) /\ n \in Nat /\ header \in Nat /\ header <= salts
    <3>1. F \in Seq(FrameSet) /\ E \in Seq(FrameSet) /\ header \in Nat /\ header <= salts
      BY <1>1, <2>1, <2>3 DEF LogFiles
    <3>2. Len(F) \in Nat /\ Len(E) \in Nat
      BY <3>1, LenProperties
    <3> QED BY <2>1, <2>3, <3>1, <3>2
  <2>5. ASSUME NEW i \in 1 .. n PROVE G[i] \in FrameSet
    <3>1. i \in 1 .. Len(F) /\ F[i] \in FrameSet
      BY <2>4, ElementOfSeq
    <3>2. i <= Len(E) => E[i] \in FrameSet
      BY <2>4, ElementOfSeq
    <3> QED BY <2>3, <3>1, <3>2, StartTypes
  <2>6. G \in Seq(FrameSet)
    BY <2>3, <2>4, <2>5, IsASeq
  <2>7. wal' = [header |-> header, frames |-> G]
    BY <2>2, <2>3
  <2> QED BY <2>4, <2>6, <2>7 DEF LogFiles
<1>3. db' \in Images
  BY <1>1 DEF PowerFails, Images
<1> QED BY <1>1, <1>2, <1>3, FaultKeeps

(* What is found of a page is a page's content.                            *)
LEMMA FoundTypes ==
  ASSUME NEW F, NEW D, NEW p, NEW lo \in Nat \ {0}, NEW hi \in Nat,
         F \in Seq(FrameSet), D \in Images, p \in Pages, hi <= Len(F)
  PROVE  Find(F, D, p, lo, hi) \in Nat
<1>1. CASE \E i \in lo .. hi : F[i].page = p
  <2>1. PICK i \in lo .. hi : /\ F[i].page = p /\ \A j \in i + 1 .. hi : F[j].page # p
                              /\ \A X : Find(F, X, p, lo, hi) = F[i].val
    BY ONLY <1>1, lo \in Nat \ {0}, hi \in Nat, FindLast
  <2>2. i \in 1 .. Len(F)
    BY LenProperties
  <2>3. F[i] \in FrameSet
    BY <2>2, ElementOfSeq
  <2> QED BY <2>1, <2>3 DEF FrameSet
<1>2. CASE \A i \in lo .. hi : F[i].page # p
  <2>1. Find(F, D, p, lo, hi) = D[p]
    BY <1>2, FindMiss
  <2> QED BY <2>1 DEF Images
<1> QED BY <1>1, <1>2

(* The header recovery makes up belongs to the log and ends within it.     *)
LEMMA RecoveredHeader ==
  ASSUME wal \in LogFiles
  PROVE  /\ recoveredHdr \in Headers /\ recoveredHdr.mxFrame <= Len(wal.frames)
         /\ recoveredHdr.salt <= wal.header
<1>0. PICK V : V = validFrames
  OBVIOUS
<1> DEFINE commits == {i \in V : wal.frames[i].commit}
           last == IF commits = {} THEN 0 ELSE Max(commits)
<1>1. V \subseteq 1 .. Len(wal.frames)
  BY <1>0 DEF validFrames
<1>2. wal.frames \in Seq(FrameSet) /\ Len(wal.frames) \in Nat /\ wal.header \in Nat
  BY LenProperties DEF LogFiles
<1>3. last \in 0 .. Len(wal.frames)
  <2>1. CASE commits = {}
    BY <1>2, <2>1
  <2>2. CASE commits # {}
    <3>1. PICK C, N : C = commits /\ N = Len(wal.frames)
      OBVIOUS
    <3>2. N \in Nat /\ V \subseteq 1 .. N /\ C \subseteq V /\ C # {} /\ last = Max(C)
      BY <1>1, <1>2, <2>2, <3>1
    <3>3. C \in SUBSET Nat /\ \A x \in C : x <= N
      BY ONLY <3>2
    <3>4. Max(C) \in C
      BY ONLY <3>2, <3>3, GreatestNumber
    <3>5. PICK k : k = Max(C)
      OBVIOUS
    <3>6. k \in V
      BY ONLY <3>2, <3>4, <3>5
    <3>7. k \in 0 .. N
      BY ONLY <3>2, <3>6
    <3> QED BY <3>1, <3>2, <3>5, <3>7
  <2> QED BY <2>1, <2>2
<1> HIDE DEF last, commits
<1>4. CASE wal.frames = << >>
  <2>1. recoveredHdr = zeroHeader
    BY <1>4 DEF recoveredHdr
  <2> QED BY <1>2, <2>1, StartTypes DEF zeroHeader, Header
<1>5. CASE wal.frames # << >>
  <2>1. PICK s : s = IF last = 0 THEN <<wal.header>> ELSE wal.frames[last].cksum
    OBVIOUS
  <2>2. s \in CkSums
    <3>1. CASE last = 0
      BY <1>2, <2>1, <3>1, CkSumTypes
    <3>2. CASE last # 0
      <4>1. wal.frames[last] \in FrameSet
        BY <1>2, <1>3, <3>2, ElementOfSeq
      <4> QED BY <2>1, <3>2, <4>1 DEF FrameSet
    <3> QED BY <3>1, <3>2
  <2>3. recoveredHdr = Header(last, wal.header, s)
    BY <1>0, <1>5, <2>1 DEF recoveredHdr, last, commits
  <2> QED BY <1>2, <1>3, <2>2, <2>3 DEF Header, Headers
<1> QED BY <1>4, <1>5

(* Recovery makes what it finds in the log and the database file the last  *)
(* commit.                                                                 *)
LEMMA RecoverKeeps == ASSUME WalInv, walIndexRecover PROVE WalInv'
<1> SUFFICES Quiet'
  BY QuietNext
<1>1. /\ wal \in LogFiles /\ db \in Images /\ con \in [Conns -> Handles] /\ ~shm.init
      /\ UNCHANGED <<wal, db, disk, con, ck, writer, salts, stamps>> /\ inflight' = Last(log')
      /\ wal.header \in Nat /\ wal.header <= salts /\ salts \in Nat /\ log \in Seq(Images) /\ log # << >>
  BY DEF WalInv, FileTypes, SharedTypes, SaltsDrawn, walIndexRecover, files, bounds, LogFiles
<1>2. PICK h : h = recoveredHdr
  OBVIOUS
<1>3. /\ h \in Headers /\ h.mxFrame <= Len(wal.frames) /\ h.salt <= wal.header
      /\ h.mxFrame \in Nat /\ h.salt \in Nat
  BY <1>1, <1>2, RecoveredHeader DEF Headers
<1>4. PICK n \in tryRecoverBackfill :
        LET b == IF n <= h.mxFrame THEN n ELSE 0
            found == [p \in Pages |-> sqlite3WalFindFrame(p, b + 1, h.mxFrame)]
        IN  /\ shm' = [init |-> TRUE, hdr |-> h, nBackfill |-> b,
                       marks |-> [i \in Slots |-> IF i = 1 /\ h.mxFrame > 0 THEN h.mxFrame
                                                  ELSE READMARK_NOT_USED]]
            /\ log' = IF durable THEN <<found>> ELSE IF found = image THEN log ELSE Append(log, found)
  BY <1>2 DEF walIndexRecover
<1>5. n \in Nat
  BY DEF tryRecoverBackfill
<1>6. PICK b, I : /\ b = (IF n <= h.mxFrame THEN n ELSE 0)
                  /\ I = [p \in Pages |-> Find(wal.frames, db, p, b + 1, h.mxFrame)]
  OBVIOUS
<1>7. b \in Nat /\ b <= h.mxFrame
  BY <1>3, <1>5, <1>6
<1>8. /\ shm' = [init |-> TRUE, hdr |-> h, nBackfill |-> b,
                 marks |-> [i \in Slots |-> IF i = 1 /\ h.mxFrame > 0 THEN h.mxFrame
                                            ELSE READMARK_NOT_USED]]
      /\ log' = IF durable THEN <<I>> ELSE IF I = image THEN log ELSE Append(log, I)
  BY <1>4, <1>6, FindFrame
<1>9. I \in Images
  <2>1. ASSUME NEW p \in Pages PROVE Find(wal.frames, db, p, b + 1, h.mxFrame) \in Nat
    <3>1. wal.frames \in Seq(FrameSet)
      BY <1>1 DEF LogFiles
    <3>2. PICK lo, m : lo = b + 1 /\ m = h.mxFrame
      OBVIOUS
    <3>3. lo \in Nat \ {0} /\ m \in Nat /\ m <= Len(wal.frames)
      BY <1>3, <1>7, <3>2
    <3>4. Find(wal.frames, db, p, lo, m) \in Nat
      BY <1>1, <3>1, <3>3, FoundTypes
    <3> QED BY <3>2, <3>4
  <2> QED BY <1>6, <2>1 DEF Images
<1>10. log' \in Seq(Images) /\ log' # << >> /\ image' = I
  <2>1. CASE durable
    <3>1. log' = <<I>>
      BY <1>8, <2>1
    <3> QED BY <1>9, <3>1 DEF image, Last
  <2>2. CASE ~durable /\ I = image
    BY <1>1, <1>8, <2>2 DEF image
  <2>3. CASE ~durable /\ I # image
    <3>1. log' = Append(log, I)
      BY <1>8, <2>3
    <3>2. PICK g, J : g = log' /\ J = I /\ g = Append(log, J)
      BY <3>1
    <3>3. g \in Seq(Images) /\ Len(g) = Len(log) + 1 /\ g[Len(g)] = J /\ g # << >>
      BY <1>1, <1>9, <3>2, AppendProperties
    <3> QED BY <3>2, <3>3 DEF image, Last
  <2> QED BY <2>1, <2>2, <2>3
<1>11. FileTypes'
  <2>1. inflight' \in Images
    BY <1>1, <1>9, <1>10 DEF image
  <2> QED BY <1>1, <1>10, <2>1 DEF WalInv, FileTypes
<1>12. shm' \in Indexes /\ shm'.hdr = h /\ shm'.nBackfill = b /\ shm'.init
  BY <1>3, <1>7, <1>8, StartTypes DEF Indexes
<1>13. SharedTypes' /\ SaltsDrawn'
  BY <1>1, <1>3, <1>12 DEF WalInv, SharedTypes, SaltsDrawn
<1>14. IndexOK(wal.frames, db, shm', I)
  BY <1>3, <1>6, <1>7, <1>12 DEF IndexOK, ImageFrom
<1>15. ck.pc = "idle" /\ writer = None
  BY <1>1 DEF WalInv, Backfilling
<1>16. ASSUME NEW c \in Conns PROVE con[c].pc = "idle" /\ con[c].lock = -1 /\ con[c].hdr.salt <= salts
  BY <1>1 DEF WalInv, Fits, Placed, Version
<1> QED BY <1>1, <1>10, <1>11, <1>13, <1>14, <1>15, <1>16 DEF Quiet

-----------------------------------------------------------------------------
(* The theorem *)

(* Every step keeps the invariant.                                         *)
LEMMA WalStep == ASSUME WalInv, [Next]_vars PROVE WalInv'
<1>1. ASSUME NEW c \in Conns,
             \/ walIndexReadHdr(c) \/ CheckBackfill(c) \/ LockZero(c) \/ ScanMarks(c)
             \/ ClaimMark(c) \/ LockMark(c) \/ CheckRead(c) \/ sqlite3WalEndReadTransaction(c)
      PROVE  WalInv'
  BY <1>1, ReadHdrKeeps, CheckBackfillKeeps, LockZeroKeeps, ScanMarksKeeps, ClaimMarkKeeps,
     LockMarkKeeps, CheckReadKeeps, EndReadKeeps
<1>2. ASSUME NEW c \in Conns,
             \/ sqlite3WalBeginWriteTransaction(c) \/ walRestartLog(c) \/ WriteHeader(c)
             \/ walWriteOneFrame(c) \/ Commit(c) \/ sqlite3WalUndo(c)
      PROVE  WalInv'
  BY <1>2, BeginWriteKeeps, RestartLogKeeps, WriteHeaderKeeps, WriteFrameKeeps, CommitKeeps, UndoKeeps
<1>3. CASE \/ sqlite3WalCheckpoint \/ ReadMark \/ PassMark \/ BeginBackfill \/ CopyPage
           \/ BackfillStops \/ EndBackfill \/ RestartLog \/ NewHeader \/ NewHeaderFails
  BY <1>3, CheckpointKeeps, ReadMarkKeeps, PassMarkKeeps, BeginBackfillKeeps, CopyPageKeeps,
     BackfillStopsKeeps, EndBackfillKeeps, CkptRestartKeeps, NewHeaderKeeps
<1>4. CASE Kill \/ PowerFails \/ walIndexRecover
  BY <1>4, KillKeeps, PowerKeeps, RecoverKeeps
<1>5. CASE UNCHANGED vars
  <2>1. UNCHANGED <<wal, db, disk, shm, con, ck, writer, salts, stamps, log, inflight>>
    BY <1>5 DEF vars, files, bounds, history
  <2>2. FileTypes' /\ SharedTypes' /\ SaltsDrawn' /\ image' = image
    BY <2>1 DEF WalInv, FileTypes, SharedTypes, SaltsDrawn, image
  <2>3. \A c \in Conns : Fits(c, con[c])'
    BY <2>1, <2>2 DEF WalInv, Fits
  <2> QED BY <2>1, <2>2, <2>3 DEF WalInv
<1> QED BY <1>1, <1>2, <1>3, <1>4, <1>5 DEF Next

(* With the invariant a transaction reads its snapshot: from the database  *)
(* file alone under read lock 0, from the log over it under another.       *)
LEMMA WalReads == WalInv => SnapshotReads
<1> SUFFICES ASSUME WalInv, NEW c \in Conns, con[c].pc \in {"reading", "header", "frames"},
                    NEW p \in Pages
             PROVE  pageRead(c, p) = con[c].seen[p]
  BY DEF SnapshotReads
<1>1. con[c] \in Handles /\ Placed(con[c]) /\ Snapshot(con[c], wal.frames, db, shm)
  BY DEF WalInv, SharedTypes, Fits
<1>2. con[c].lock \in Int /\ con[c].hdr.mxFrame \in Nat /\ con[c].minFrame \in Nat
  BY <1>1, HandleFields
<1>3. CASE con[c].lock = 0
  BY <1>1, <1>3 DEF Snapshot, pageRead
<1>4. CASE con[c].lock # 0
  <2>1. Held(con[c])
    BY <1>1, <1>2, <1>4 DEF Placed, Held
  <2>2. Find(wal.frames, db, p, con[c].minFrame, con[c].hdr.mxFrame) = con[c].seen[p]
    BY <1>1, <2>1 DEF Snapshot, ImageFrom
  <2>3. CASE con[c].hdr.mxFrame = 0
    <3>1. con[c].minFrame >= 1
      BY <2>1 DEF WalInv, Fits, Locked, Held
    <3>2. \A i \in con[c].minFrame .. con[c].hdr.mxFrame : wal.frames[i].page # p
      BY <1>2, <2>3, <3>1
    <3>3. Find(wal.frames, db, p, con[c].minFrame, con[c].hdr.mxFrame) = db[p]
      BY <3>2, FindMiss
    <3> QED BY <2>2, <2>3, <3>3 DEF pageRead
  <2>4. CASE con[c].hdr.mxFrame # 0
    BY <1>4, <2>2, <2>4, FindFrame DEF pageRead
  <2> QED BY <2>3, <2>4
<1> QED BY <1>3, <1>4

(* A read transaction sees one snapshot: each of its pages as it was when  *)
(* the transaction read the wal-index header (wal.c walTryBeginRead and    *)
(* sqlite3WalFindFrame), whatever writers, the checkpointer, log restarts, *)
(* kills and power failures do meanwhile.                                  *)
THEOREM WalSnapshotReads == Spec => []SnapshotReads
<1>1. Init => WalInv
  BY WalInit
<1>2. WalInv /\ [Next]_vars => WalInv'
  BY WalStep
<1>3. WalInv => SnapshotReads
  BY WalReads
<1> QED BY <1>1, <1>2, <1>3, PTL DEF Spec
=============================================================================
