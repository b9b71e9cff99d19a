---------------------------- MODULE WriteAheadLog ----------------------------
(***************************************************************************)
(* The write-ahead log under the song database: wal.c of the SQLCipher     *)
(* that WCDB ships, compiled with SQLITE_WCDB_IMPROVED_CHECKPOINT, as      *)
(* WCDB sets it up: one process, WAL mode, synchronous = NORMAL, the log   *)
(* file kept on close, no checkpoint on close, and a checkpoint handle     *)
(* that runs PASSIVE checkpoints after commits.                            *)
(*                                                                         *)
(* Handles read and write in transactions of a few pages; the checkpointer *)
(* copies frames back into the database file.  The process may be killed   *)
(* at any step, and the phone may lose power; the next launch rebuilds the *)
(* wal-index from the log.                                                 *)
(*                                                                         *)
(* A page's content is the stamp of the transaction that wrote it.  The    *)
(* running checksum of the log is the sequence of what was summed, and a   *)
(* salt is a number never drawn before.                                    *)
(***************************************************************************)
EXTENDS Integers, SequencesExt

CONSTANTS
  Conns,       \* the database handles that read and write
  None,        \* no handle
  Pages,       \* page numbers of the database
  WAL_NREADER, \* read locks: 0 .. WAL_NREADER - 1
  Faults,      \* subset of {"kill", "power"}
  maxStamp,    \* bound: write transactions begun
  maxSalt,     \* bound: salts drawn
  maxFaults    \* bound: kills and power failures

ASSUME Shape ==
  /\ Pages \subseteq Nat /\ IsFiniteSet(Pages) /\ Pages # {}
  /\ WAL_NREADER \in Nat \ {0, 1}
  /\ {None, "ck"} \cap Conns = {} /\ None # "ck"   \* "ck": the checkpoint handle
  /\ Faults \subseteq {"kill", "power"}
  /\ {maxStamp, maxSalt, maxFaults} \subseteq Nat

Slots == 1 .. WAL_NREADER - 1
READMARK_NOT_USED == maxStamp * Cardinality(Pages) + 1

VARIABLES
  wal,      \* the log file: the salt of its header (0: empty file), its frames
  db,       \* the database file: the content of each page
  disk,     \* the state of both files that a power failure cannot undo
  shm,      \* the wal-index: header, nBackfill, aReadMark; init FALSE: to be recovered
  con,      \* the handles
  ck,       \* the checkpoint handle
  writer,   \* who holds WAL_WRITE_LOCK
  salts,    \* salts drawn so far
  stamps,   \* transactions begun so far
  faults,   \* faults so far
  log,      \* history: the database after each commit, the last one current
  synced,   \* history: the last of them that a sync of the log has covered
  inflight, \* history: the database with the transaction whose last frame is written
  past,     \* history: the salt and nBackfill pairs the shm file may hold
  allowed,  \* history: what the next recovery may bring back
  stray     \* history: the frames being written stand under another log's header

files == <<wal, db, disk>>
bounds == <<salts, stamps, faults>>
history == <<log, synced, inflight, past, allowed, stray>>
vars == <<files, shm, con, ck, writer, bounds, history>>

Power == "power" \in Faults
image == Last(log)

-----------------------------------------------------------------------------
Header(mxFrame, salt, cksum) == [mxFrame |-> mxFrame, salt |-> salt, cksum |-> cksum]
zeroHeader == Header(0, 0, <<0>>)
Torn == [salt |-> 0, page |-> 0, val |-> 0, commit |-> FALSE, cksum |-> << >>]

(* Without power failures every write counts as durable.                   *)
Unsynced(w, d) == IF Power THEN disk ELSE [wal |-> w, db |-> d]

putFrame(frames, i, f) ==
  IF i <= Len(frames) THEN [frames EXCEPT ![i] = f] ELSE Append(frames, f)

walEncodeFrame(hdr, page, val, commit) ==
  [salt |-> hdr.salt, page |-> page, val |-> val, commit |-> commit,
   cksum |-> Append(hdr.cksum, <<page, val, commit>>)]

walDecodeFrame(f, salt, cksum) ==
  f.salt = salt /\ f.cksum = Append(cksum, <<f.page, f.val, f.commit>>)

(* The newest frame of a page between two frame numbers, or 0.             *)
newestFrame(page, lo, hi) ==
  LET found == {i \in lo .. hi : wal.frames[i].page = page}
  IN  IF found = {} THEN 0 ELSE Max(found)

sqlite3WalFindFrame(page, lo, hi) ==
  LET i == newestFrame(page, lo, hi) IN IF i = 0 THEN db[page] ELSE wal.frames[i].val

-----------------------------------------------------------------------------
idleConn ==
  [pc |-> "idle", hdr |-> zeroHeader, lock |-> -1, slot |-> 0, mark |-> 0, minFrame |-> 0,
   changed |-> FALSE, stamp |-> 0, pages |-> {}, todo |-> {}, seen |-> [p \in Pages |-> 0]]
idleCkpt == [pc |-> "idle", hdr |-> zeroHeader, slot |-> 1, y |-> -1, safe |-> 0, todo |-> {}]

Init ==
  /\ wal = [header |-> 0, frames |-> << >>] /\ db = [p \in Pages |-> 0]
  /\ disk = [wal |-> wal, db |-> db]
  /\ shm = [init |-> FALSE, hdr |-> zeroHeader, nBackfill |-> 0,
            marks |-> [i \in Slots |-> READMARK_NOT_USED]]
  /\ con = [c \in Conns |-> idleConn] /\ ck = idleCkpt /\ writer = None
  /\ salts = 0 /\ stamps = 0 /\ faults = 0
  /\ log = <<db>> /\ synced = 1 /\ inflight = db /\ past = {} /\ allowed = {db}
  /\ stray = FALSE

holders(i) == {c \in Conns : con[c].lock = i}
lockedZero == ck.pc = "copy"            \* WAL_READ_LOCK(0), exclusively
lockedMarks == ck.pc = "newHeader"      \* the other read locks, exclusively
markFree(i) == holders(i) = {} /\ ~lockedMarks

-----------------------------------------------------------------------------
(* Beginning a read transaction.  Only the handle's own record changes,    *)
(* except where it claims a read mark.                                     *)
Step(c, r) == con' = [con EXCEPT ![c] = r]
ReadStep(c, r) == Step(c, r) /\ UNCHANGED <<files, shm, ck, writer, bounds, history>>

walIndexReadHdr(c) ==
  /\ con[c].pc = "idle" /\ shm.init
  /\ ReadStep(c, [idleConn EXCEPT !.pc = "begin", !.hdr = shm.hdr, !.seen = image])

CheckBackfill(c) ==
  /\ con[c].pc = "begin"
  /\ ReadStep(c, [con[c] EXCEPT !.pc =
       IF shm.nBackfill = con[c].hdr.mxFrame THEN "lockZero" ELSE "scan"])

(* Mutant: the header is not looked at again once the lock is had.         *)
LockZeroUnchecked(c) ==
  /\ con[c].pc = "lockZero"
  /\ \/ lockedZero /\ ReadStep(c, [con[c] EXCEPT !.pc = "scan"])
     \/ ~lockedZero /\ ReadStep(c, [con[c] EXCEPT !.pc = "reading", !.lock = 0])

(* The whole log is in the database file: read that, unless the header     *)
(* changed before the lock was had.                                        *)
LockZero(c) ==
  /\ con[c].pc = "lockZero"
  /\ \/ lockedZero /\ ReadStep(c, [con[c] EXCEPT !.pc = "scan"])
     \/ /\ ~lockedZero /\ shm.hdr = con[c].hdr
        /\ ReadStep(c, [con[c] EXCEPT !.pc = "reading", !.lock = 0])
     \/ ~lockedZero /\ shm.hdr # con[c].hdr /\ ReadStep(c, idleConn)

(* WAL_RETRY: from the start, or with useWal from the choice of a mark.    *)
retry(c) ==
  IF writer = c THEN [con[c] EXCEPT !.pc = "scan", !.lock = -1] ELSE idleConn

(* The largest read mark not beyond the snapshot, the last of equal ones.  *)
ScanMarks(c) ==
  LET usable == {i \in Slots : shm.marks[i] <= con[c].hdr.mxFrame}
      best == IF usable = {} THEN 0 ELSE Max({shm.marks[i] : i \in usable})
      slot == IF usable = {} THEN 0 ELSE Max({i \in usable : shm.marks[i] = best})
  IN  /\ con[c].pc = "scan"
      /\ ReadStep(c, [con[c] EXCEPT !.slot = slot, !.mark = best, !.pc =
           IF best < con[c].hdr.mxFrame \/ slot = 0 THEN "claim" ELSE "lockMark"])

ClaimMark(c) ==
  LET free == {i \in Slots : markFree(i)}
      mx == con[c].hdr.mxFrame
  IN  /\ con[c].pc = "claim"
      /\ \/ /\ free # {}
            /\ shm' = [shm EXCEPT !.marks[Min(free)] = mx]
            /\ Step(c, [con[c] EXCEPT !.slot = Min(free), !.mark = mx, !.pc = "lockMark"])
            /\ UNCHANGED <<files, ck, writer, bounds, history>>
         \/ /\ free = {} /\ con[c].slot # 0
            /\ ReadStep(c, [con[c] EXCEPT !.pc = "lockMark"])
         \/ free = {} /\ con[c].slot = 0 /\ ReadStep(c, retry(c))

LockMark(c) ==
  /\ con[c].pc = "lockMark"
  /\ \/ lockedMarks /\ ReadStep(c, retry(c))
     \/ /\ ~lockedMarks
        /\ ReadStep(c, [con[c] EXCEPT !.pc = "check", !.lock = con[c].slot,
                                      !.minFrame = shm.nBackfill + 1])

(* The mark and the header must still be the ones the choice was made by.  *)
CheckRead(c) ==
  LET same == shm.marks[con[c].slot] = con[c].mark /\ shm.hdr = con[c].hdr IN
  /\ con[c].pc = "check"
  /\ \/ same /\ ReadStep(c, [con[c] EXCEPT !.pc = IF writer = c THEN "header" ELSE "reading"])
     \/ ~same /\ ReadStep(c, retry(c))

sqlite3WalEndReadTransaction(c) == con[c].pc = "reading" /\ ReadStep(c, idleConn)

-----------------------------------------------------------------------------
(* Writing.  A handle whose snapshot is not the last one gets SQLITE_BUSY. *)
sqlite3WalBeginWriteTransaction(c) ==
  /\ con[c].pc = "reading" /\ writer = None /\ shm.hdr = con[c].hdr
  /\ stamps < maxStamp /\ stamps' = stamps + 1 /\ writer' = c
  /\ \E s \in (SUBSET Pages) \ {{}} :
       Step(c, [con[c] EXCEPT !.pc = "restart", !.stamp = stamps', !.pages = s, !.todo = s])
  /\ UNCHANGED <<files, shm, ck, salts, faults, history>>

walRestartHdr(hdr, salt) ==
  [init |-> TRUE, hdr |-> [hdr EXCEPT !.mxFrame = 0, !.salt = salt], nBackfill |-> 0,
   marks |-> [i \in Slots |-> IF i = 1 THEN 0 ELSE READMARK_NOT_USED]]

(* A writer that reads only the database file starts the log again when    *)
(* nobody reads it, then takes a read mark.                                *)
walRestartLog(c) ==
  LET r == con[c]
      mayRestart == shm.nBackfill > 0 /\ \A i \in Slots : markFree(i)
  IN  /\ r.pc = "restart"
      /\ \/ /\ r.lock # 0 /\ Step(c, [r EXCEPT !.pc = "header"]) /\ UNCHANGED <<shm, salts>>
         \/ /\ r.lock = 0 /\ mayRestart /\ salts < maxSalt /\ salts' = salts + 1
            /\ shm' = walRestartHdr(r.hdr, salts')
            /\ Step(c, [r EXCEPT !.pc = "scan", !.lock = -1, !.hdr = shm'.hdr, !.changed = TRUE])
         \/ /\ r.lock = 0 /\ ~mayRestart
            /\ Step(c, [r EXCEPT !.pc = "scan", !.lock = -1]) /\ UNCHANGED <<shm, salts>>
      /\ UNCHANGED <<files, ck, writer, stamps, faults, history>>

walWriteHeader(salt) ==
  /\ wal' = [wal EXCEPT !.header = salt] /\ disk' = [disk EXCEPT !.wal = wal']
  /\ stray' = FALSE

underHeader(hdr) == hdr.salt = wal.header /\ Head(hdr.cksum) = wal.header

(* At the start of the log the header is written, except when the file has *)
(* one already and this writer did not start the log again.                *)
WriteHeader(c) ==
  LET r == con[c] IN
  /\ r.pc = "header"
  /\ \/ /\ r.hdr.mxFrame = 0 /\ r.changed
        /\ walWriteHeader(r.hdr.salt) /\ UNCHANGED salts
        /\ Step(c, [r EXCEPT !.pc = "frames", !.hdr.cksum = <<r.hdr.salt>>])
     \/ /\ r.hdr.mxFrame = 0 /\ ~r.changed /\ wal.header = 0
        /\ salts < maxSalt /\ salts' = salts + 1 /\ walWriteHeader(salts')
        /\ Step(c, [r EXCEPT !.pc = "frames", !.hdr.salt = salts', !.hdr.cksum = <<salts'>>])
     \/ /\ r.hdr.mxFrame > 0 \/ (~r.changed /\ wal.header # 0)
        /\ Step(c, [r EXCEPT !.pc = "frames"]) /\ stray' = (stray \/ ~underHeader(r.hdr))
        /\ UNCHANGED <<wal, disk, salts>>
  /\ UNCHANGED <<db, shm, ck, writer, stamps, faults, log, synced, inflight, past, allowed>>

nextFrame(r) == r.hdr.mxFrame + Cardinality(r.pages \ r.todo) + 1

walWriteOneFrame(c) ==
  LET r == con[c]
      page == Min(r.todo)
      f == walEncodeFrame(r.hdr, page, r.stamp, r.todo = {page})
  IN  /\ r.pc = "frames" /\ r.todo # {}
      /\ wal' = [wal EXCEPT !.frames = putFrame(@, nextFrame(r), f)]
      /\ disk' = Unsynced(wal', db)
      /\ Step(c, [r EXCEPT !.todo = @ \ {page}, !.hdr.cksum = f.cksum])
      /\ inflight' = IF f.commit
                     THEN [p \in Pages |-> IF p \in r.pages THEN r.stamp ELSE image[p]]
                     ELSE inflight
      /\ UNCHANGED <<db, shm, ck, writer, bounds, log, synced, past, allowed, stray>>

(* The commit: the header in shared memory takes in the new frames.        *)
Commit(c) ==
  LET r == con[c] IN
  /\ r.pc = "frames" /\ r.todo = {}
  /\ shm' = [shm EXCEPT !.hdr = [r.hdr EXCEPT !.mxFrame = @ + Cardinality(r.pages)]]
  /\ log' = IF Power THEN Append(log, inflight) ELSE <<inflight>>
  /\ Step(c, idleConn) /\ writer' = None
  /\ UNCHANGED <<files, ck, bounds, synced, inflight, past, allowed, stray>>

(* ROLLBACK after a spill, or an error of a write; the transaction ends.   *)
sqlite3WalUndo(c) ==
  /\ con[c].pc \in {"header", "frames"} /\ con[c].todo # {}
  /\ Step(c, idleConn) /\ writer' = None
  /\ UNCHANGED <<files, shm, ck, bounds, history>>

-----------------------------------------------------------------------------
(* The PASSIVE checkpoint.                                                 *)
sqlite3WalCheckpoint ==
  /\ ck.pc = "idle" /\ shm.init
  /\ ck' = [idleCkpt EXCEPT !.hdr = shm.hdr, !.safe = shm.hdr.mxFrame,
              !.pc = IF shm.nBackfill < shm.hdr.mxFrame THEN "marks" ELSE "restart"]
  /\ UNCHANGED <<files, shm, con, writer, bounds, history>>

ReadMark ==
  /\ ck.pc = "marks" /\ ck.slot \in Slots /\ ck.y = -1
  /\ ck' = [ck EXCEPT !.y = shm.marks[ck.slot]]
  /\ UNCHANGED <<files, shm, con, writer, bounds, history>>

(* A mark below the frames to copy is moved, or its readers are respected. *)
PassMark ==
  LET i == ck.slot
      next == [ck EXCEPT !.slot = @ + 1, !.y = -1]
  IN  /\ ck.pc = "marks" /\ i \in Slots /\ ck.y >= 0
      /\ \/ ck.safe <= ck.y /\ ck' = next /\ UNCHANGED shm
         \/ /\ ck.safe > ck.y /\ markFree(i) /\ ck' = next
            /\ shm' = [shm EXCEPT !.marks[i] = IF i = 1 THEN ck.safe ELSE READMARK_NOT_USED]
         \/ /\ ck.safe > ck.y /\ ~markFree(i)
            /\ ck' = [next EXCEPT !.safe = ck.y] /\ UNCHANGED shm
      /\ UNCHANGED <<files, con, writer, bounds, history>>

(* The iterator gives the newest frame of each page; one beyond the safe   *)
(* frame is passed over.                                                   *)
walIterator ==
  {i \in shm.nBackfill + 1 .. ck.safe :
     i = newestFrame(wal.frames[i].page, shm.nBackfill + 1, ck.hdr.mxFrame)}

BeginBackfill ==
  LET go == shm.nBackfill < ck.safe /\ holders(0) = {} IN
  /\ ck.pc = "marks" /\ ck.slot \notin Slots
  /\ \/ /\ go /\ ck' = [ck EXCEPT !.pc = "copy", !.todo = walIterator]
        /\ disk' = [disk EXCEPT !.wal = wal] /\ synced' = Len(log)
     \/ ~go /\ ck' = [ck EXCEPT !.pc = "restart"] /\ UNCHANGED <<disk, synced>>
  /\ UNCHANGED <<wal, db, shm, con, writer, bounds, log, inflight, past, allowed, stray>>

CopyPage ==
  /\ ck.pc = "copy"
  /\ \E i \in ck.todo :
       /\ db' = [db EXCEPT ![wal.frames[i].page] = wal.frames[i].val]
       /\ ck' = [ck EXCEPT !.todo = @ \ {i}]
  /\ disk' = Unsynced(wal, db')
  /\ UNCHANGED <<wal, shm, con, writer, bounds, history>>

(* Suspended or interrupted, or an error of a read or a write.             *)
BackfillStops ==
  /\ ck.pc = "copy" /\ ck.todo # {} /\ ck' = idleCkpt
  /\ UNCHANGED <<files, shm, con, writer, bounds, history>>

(* Mutant: nBackfill moves without a sync of the database file.            *)
EndUnsynced ==
  /\ ck.pc = "copy" /\ ck.todo = {}
  /\ shm' = [shm EXCEPT !.nBackfill = ck.safe]
  /\ past' = IF Power THEN past \cup {<<shm.hdr.salt, ck.safe>>} ELSE past
  /\ ck' = [ck EXCEPT !.pc = "restart"]
  /\ UNCHANGED <<files, con, writer, bounds, log, synced, inflight, allowed, stray>>

(* The database file is synced before nBackfill moves.                     *)
EndBackfill ==
  /\ ck.pc = "copy" /\ ck.todo = {}
  /\ disk' = [disk EXCEPT !.db = db]
  /\ shm' = [shm EXCEPT !.nBackfill = ck.safe]
  /\ past' = IF Power THEN past \cup {<<shm.hdr.salt, ck.safe>>} ELSE past
  /\ ck' = [ck EXCEPT !.pc = "restart"]
  /\ UNCHANGED <<wal, db, con, writer, bounds, log, synced, inflight, allowed, stray>>

(* A log copied to its end is started again, unless somebody writes, has   *)
(* written or still reads it.                                              *)
RestartLog ==
  LET mayRestart ==
        /\ shm.nBackfill > 0 /\ shm.nBackfill = ck.hdr.mxFrame
        /\ writer = None /\ shm.hdr = ck.hdr /\ \A i \in Slots : holders(i) = {}
  IN  /\ ck.pc = "restart"
      /\ \/ /\ mayRestart /\ salts < maxSalt /\ salts' = salts + 1
            /\ shm' = walRestartHdr(ck.hdr, salts')
            /\ ck' = [ck EXCEPT !.pc = "newHeader", !.hdr = shm'.hdr] /\ writer' = "ck"
         \/ ~mayRestart /\ ck' = idleCkpt /\ UNCHANGED <<shm, salts, writer>>
      /\ UNCHANGED <<files, con, stamps, faults, history>>

NewHeader ==
  /\ ck.pc = "newHeader" /\ walWriteHeader(ck.hdr.salt)
  /\ shm' = [shm EXCEPT !.hdr.cksum = <<ck.hdr.salt>>]
  /\ ck' = idleCkpt /\ writer' = None
  /\ UNCHANGED <<db, con, bounds, log, synced, inflight, past, allowed>>

NewHeaderFails ==
  /\ ck.pc = "newHeader" /\ ck' = idleCkpt /\ writer' = None
  /\ UNCHANGED <<files, shm, con, bounds, history>>

-----------------------------------------------------------------------------
(* Faults: every handle is gone.                                           *)
Fault(kind) ==
  /\ kind \in Faults /\ shm.init /\ faults < maxFaults /\ faults' = faults + 1
  /\ con' = [c \in Conns |-> idleConn] /\ ck' = idleCkpt /\ writer' = None
  /\ shm' = [shm EXCEPT !.init = FALSE]
  /\ UNCHANGED <<salts, stamps, log, synced, inflight, stray>>

(* The frame being written may be torn; the shm file stays as it is.       *)
Kill ==
  /\ Fault("kill")
  /\ \/ UNCHANGED wal
     \/ \E c \in Conns :
          /\ con[c].pc = "frames" /\ con[c].todo # {}
          /\ wal' = [wal EXCEPT !.frames = putFrame(@, nextFrame(con[c]), Torn)]
  /\ disk' = Unsynced(wal', db)
  /\ past' = IF Power THEN past ELSE {<<shm.hdr.salt, shm.nBackfill>>}
  /\ allowed' = {image, inflight} /\ UNCHANGED db

(* Of what was not synced any part may be there, and any earlier shm file. *)
PowerFails ==
  /\ Fault("power")
  /\ \E header \in {disk.wal.header, wal.header}, n \in Len(disk.wal.frames) .. Len(wal.frames) :
     \E kept \in [1 .. n -> BOOLEAN] :
       wal' = [header |-> header, frames |-> [i \in 1 .. n |->
         IF kept[i] THEN wal.frames[i]
         ELSE IF i <= Len(disk.wal.frames) THEN disk.wal.frames[i] ELSE Torn]]
  /\ \E kept \in [Pages -> BOOLEAN] :
       db' = [p \in Pages |-> IF kept[p] THEN db[p] ELSE disk.db[p]]
  /\ disk' = [wal |-> wal', db |-> db']
  /\ allowed' = {log[i] : i \in synced .. Len(log)} \cup {inflight} /\ UNCHANGED past

-----------------------------------------------------------------------------
(* Recovery: the valid frames, up to the last commit among them.           *)
validFrames ==
  LET chain[i \in 0 .. Len(wal.frames)] ==
        IF i = 0 THEN [ok |-> TRUE, cksum |-> <<wal.header>>]
        ELSE LET f == wal.frames[i] IN
             [ok |-> chain[i-1].ok /\ walDecodeFrame(f, wal.header, chain[i-1].cksum),
              cksum |-> f.cksum]
  IN  {i \in 1 .. Len(wal.frames) : chain[i].ok}

(* A file of the header alone is taken for an empty one.                   *)
recoveredHdr ==
  LET commits == {i \in validFrames : wal.frames[i].commit}
      last == IF commits = {} THEN 0 ELSE Max(commits)
  IN  IF wal.frames = << >> THEN zeroHeader
      ELSE Header(last, wal.header, IF last = 0 THEN <<wal.header>> ELSE wal.frames[last].cksum)

(* What the shm file of the last run says was copied, when it can be read  *)
(* and belongs to this log.                                                *)
tryRecoverBackfill ==
  {0} \cup {n \in 0 .. Len(wal.frames) : <<wal.header, n>> \in past}

durable == disk = [wal |-> wal, db |-> db]

walIndexRecover ==
  /\ ~shm.init
  /\ \E n \in tryRecoverBackfill :
       LET mx == recoveredHdr.mxFrame
           nBackfill == IF n <= mx THEN n ELSE 0
           found == [p \in Pages |-> sqlite3WalFindFrame(p, nBackfill + 1, mx)]
       IN  /\ shm' = [init |-> TRUE, hdr |-> recoveredHdr, nBackfill |-> nBackfill,
                      marks |-> [i \in Slots |-> IF i = 1 /\ mx > 0 THEN mx ELSE READMARK_NOT_USED]]
           /\ log' = IF durable THEN <<found>> ELSE IF found = image THEN log ELSE Append(log, found)
           /\ synced' = IF durable THEN 1 ELSE synced
  /\ stray' = (stray /\ ~durable)
  /\ inflight' = Last(log')
  /\ UNCHANGED <<files, con, ck, writer, bounds, past, allowed>>

-----------------------------------------------------------------------------
Next ==
  \/ \E c \in Conns :
       \/ walIndexReadHdr(c) \/ CheckBackfill(c) \/ LockZero(c) \/ ScanMarks(c)
       \/ ClaimMark(c) \/ LockMark(c) \/ CheckRead(c) \/ sqlite3WalEndReadTransaction(c)
       \/ sqlite3WalBeginWriteTransaction(c) \/ walRestartLog(c) \/ WriteHeader(c)
       \/ walWriteOneFrame(c) \/ Commit(c) \/ sqlite3WalUndo(c)
  \/ sqlite3WalCheckpoint \/ ReadMark \/ PassMark \/ BeginBackfill \/ CopyPage
  \/ BackfillStops \/ EndBackfill \/ RestartLog \/ NewHeader \/ NewHeaderFails
  \/ Kill \/ PowerFails \/ walIndexRecover

Spec == Init /\ [][Next]_vars

-----------------------------------------------------------------------------
pageRead(c, page) ==
  LET r == con[c] IN
  IF r.lock = 0 \/ r.hdr.mxFrame = 0 THEN db[page]
  ELSE sqlite3WalFindFrame(page, r.minFrame, r.hdr.mxFrame)

(* A transaction reads one snapshot: every page as it was when its header  *)
(* was read, whatever writers and the checkpointer do meanwhile.           *)
SnapshotReads ==
  \A c \in Conns : con[c].pc \in {"reading", "header", "frames"} =>
    \A p \in Pages : pageRead(c, p) = con[c].seen[p]

(* A launch after a fault brings back the commits: after a kill every one, *)
(* after a power failure those up to the last sync and perhaps later ones  *)
(* in their order; of the transaction under way all or nothing; also when  *)
(* it trusts the nBackfill of the shm file.  The exception is a log whose  *)
(* frames stand under another log's header.                                *)
RecoversCommits == [][~shm.init /\ shm'.init /\ ~stray => Last(log') \in allowed]_vars
=============================================================================
