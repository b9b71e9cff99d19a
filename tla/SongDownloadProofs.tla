------------------------- MODULE SongDownloadProofs -------------------------
(***************************************************************************)
(* Proofs about SongDownload, for any songs, any number of downloads and   *)
(* list reads under way and writes that may fail.                          *)
(***************************************************************************)
EXTENDS SongDownload, TLAPS, SequenceTheorems

-----------------------------------------------------------------------------
(* The inductive invariant *)

(* Where the pair of writes of a song stands, if none of its pairs was cut *)
(* or crossed.  A delete in its middle has no file left; a handler has     *)
(* found both or neither, replaces the file of a song with a row, and has  *)
(* a file when it comes to the row; with neither at work both agree.       *)
Paired(s) ==
  /\ s \in deleting => ~Handling(s) /\ s \notin files
  /\ s \notin deleting /\ ~Handling(s) => (s \in files <=> hasRow(downLoadSongs, s))
  /\ Handling(s) =>
       /\ bg.pc = "remove" => s \in files /\ hasRow(downLoadSongs, s)
       /\ bg.pc = "move" => (s \in files => hasRow(downLoadSongs, s))
       /\ bg.pc = "save" => s \in files
PairsInStep == \A s \in SongIDs \ torn : Paired(s)

(* A list on its way to the page is as good as the list it shows.          *)
ReadRowsExist ==
  \A s \in SongIDs : Waiting(s) => hasRow(downLoadSongs, s) \/ s \in ghosts

IInv == TypeOK /\ PairsInStep /\ ReadRowsExist /\ ShownRowsExist

-----------------------------------------------------------------------------
(* Rows *)

(* One entry taken out of a sequence: the others keep their order.         *)
LEMMA RemovedEntry ==
  ASSUME NEW S, NEW t \in Seq(S), NEW k \in 1 .. Len(t)
  PROVE  LET d == SubSeq(t, 1, k - 1) \o SubSeq(t, k + 1, Len(t))
         IN  /\ d \in Seq(S) /\ Len(d) = Len(t) - 1 /\ Len(t) \in Nat
             /\ \A i \in 1 .. Len(t) - 1 : d[i] = IF i < k THEN t[i] ELSE t[i + 1]
<1> DEFINE a == SubSeq(t, 1, k - 1)
           b == SubSeq(t, k + 1, Len(t))
           d == a \o b
<1>1. Len(t) \in Nat /\ k \in Nat /\ \A i \in 1 .. Len(t) : t[i] \in S
  BY LenProperties, ElementOfSeq
<1>2. /\ a \in Seq(S) /\ Len(a) = k - 1 /\ \A i \in 1 .. k - 1 : a[i] = t[i]
      /\ b \in Seq(S) /\ Len(b) = Len(t) - k /\ \A i \in 1 .. Len(t) - k : b[i] = t[k + i]
  BY <1>1, SubSeqProperties
<1> HIDE DEF a, b
<1>0. Len(a) + Len(b) = Len(t) - 1
  BY <1>1, <1>2
<1>3. /\ d \in Seq(S) /\ Len(d) = Len(a) + Len(b)
      /\ \A i \in 1 .. Len(a) + Len(b) : d[i] = IF i <= Len(a) THEN a[i] ELSE b[i - Len(a)]
  BY <1>2, ConcatProperties
<1> HIDE DEF d
<1>4. ASSUME NEW i \in 1 .. Len(t) - 1
      PROVE  d[i] = IF i < k THEN t[i] ELSE t[i + 1]
  <2>0. d[i] = IF i <= Len(a) THEN a[i] ELSE b[i - Len(a)]
    BY <1>0, <1>3
  <2>1. CASE i < k
    <3>1. i <= Len(a) /\ i \in 1 .. k - 1
      BY <1>1, <1>2, <2>1
    <3> QED BY <1>2, <2>0, <2>1, <3>1
  <2>2. CASE ~(i < k)
    <3>1. i - (k - 1) \in 1 .. Len(t) - k /\ k + (i - (k - 1)) = i + 1
      BY <1>1, <2>2
    <3>2. d[i] = b[i - (k - 1)]
      BY <1>1, <1>2, <2>0, <2>2
    <3> QED BY <1>2, <2>2, <3>1, <3>2
  <2> QED BY <2>1, <2>2
<1> QED BY <1>0, <1>1, <1>3, <1>4 DEF d, a, b

(* deleteFromTable takes out the one row with the key, if there is one.    *)
LEMMA DeleteRowValue ==
  ASSUME NEW t \in Table, NEW id
  PROVE  /\ deleteRow(t, id) \in Table
         /\ \A s : hasRow(deleteRow(t, id), s) <=> hasRow(t, s) /\ s # id
<1>0. t \in Seq(SongIDs) /\ \A i, j \in 1 .. Len(t) : t[i] = t[j] => i = j
  BY DEF Table
<1>1. CASE ~hasRow(t, id)
  BY <1>1 DEF deleteRow, hasRow
<1>2. CASE hasRow(t, id)
  <2>1. PICK k \in 1 .. Len(t) :
          /\ t[k] = id
          /\ deleteRow(t, id) = SubSeq(t, 1, k - 1) \o SubSeq(t, k + 1, Len(t))
    BY <1>2 DEF deleteRow, hasRow
  <2> DEFINE d == SubSeq(t, 1, k - 1) \o SubSeq(t, k + 1, Len(t))
  <2>2. /\ d \in Seq(SongIDs) /\ Len(d) = Len(t) - 1 /\ Len(t) \in Nat
        /\ \A i \in 1 .. Len(t) - 1 : d[i] = IF i < k THEN t[i] ELSE t[i + 1]
    BY <1>0, RemovedEntry
  <2> HIDE DEF d
  <2>3. ASSUME NEW i \in 1 .. Len(d), NEW j \in 1 .. Len(d), d[i] = d[j] PROVE i = j
    <3>1. PICK x \in 1 .. Len(t) : x = (IF i < k THEN i ELSE i + 1) /\ d[i] = t[x]
      BY <2>2
    <3>2. PICK y \in 1 .. Len(t) : y = (IF j < k THEN j ELSE j + 1) /\ d[j] = t[y]
      BY <2>2
    <3>3. x = y
      BY <1>0, <2>3, <3>1, <3>2
    <3> QED BY <2>2, <3>1, <3>2, <3>3
  <2>4. d \in Table
    BY <2>2, <2>3 DEF Table
  <2>5. ASSUME NEW s, hasRow(d, s) PROVE hasRow(t, s) /\ s # id
    <3>1. PICK i \in 1 .. Len(d) : d[i] = s
      BY <2>5 DEF hasRow
    <3>2. PICK x \in 1 .. Len(t) : x # k /\ d[i] = t[x]
      BY <2>2
    <3> QED BY <1>0, <2>1, <3>1, <3>2 DEF hasRow
  <2>6. ASSUME NEW s, hasRow(t, s), s # id PROVE hasRow(d, s)
    <3>1. PICK i \in 1 .. Len(t) : t[i] = s
      BY <2>6 DEF hasRow
    <3>2. CASE i < k
      BY <2>1, <2>2, <3>1, <3>2 DEF hasRow
    <3>3. CASE i > k
      <4>1. i - 1 \in 1 .. Len(d) /\ d[i - 1] = t[i]
        BY <2>1, <2>2, <3>3
      <4> QED BY <3>1, <4>1 DEF hasRow
    <3>4. i # k
      BY <2>1, <2>6, <3>1
    <3> QED BY <2>1, <3>2, <3>3, <3>4
  <2> QED BY <2>1, <2>4, <2>5, <2>6 DEF d
<1> QED BY <1>1, <1>2

(* INSERT OR REPLACE leaves one row with the key.                          *)
LEMMA InsertOrReplaceValue ==
  ASSUME NEW t \in Table, NEW id \in SongIDs
  PROVE  /\ insertOrReplaceRow(t, id) \in Table
         /\ \A s : hasRow(insertOrReplaceRow(t, id), s) <=> hasRow(t, s) \/ s = id
<1> DEFINE d == deleteRow(t, id)
           u == Append(d, id)
<1>1. d \in Table /\ \A s : hasRow(d, s) <=> hasRow(t, s) /\ s # id
  BY DeleteRowValue
<1>2. u = insertOrReplaceRow(t, id)
  BY DEF insertOrReplaceRow
<1> HIDE DEF d
<1>3. d \in Seq(SongIDs) /\ Len(d) \in Nat /\ \A i, j \in 1 .. Len(d) : d[i] = d[j] => i = j
  BY <1>1, LenProperties DEF Table
<1>4. /\ u \in Seq(SongIDs) /\ Len(u) = Len(d) + 1 /\ u[Len(d) + 1] = id
      /\ \A i \in 1 .. Len(d) : u[i] = d[i]
  BY <1>3, AppendProperties
<1> HIDE DEF u
<1>5. \A i \in 1 .. Len(d) : d[i] # id
  BY <1>1 DEF hasRow
<1>6. u \in Table
  BY <1>3, <1>4, <1>5 DEF Table
<1>7. \A s : hasRow(u, s) <=> hasRow(d, s) \/ s = id
  BY <1>3, <1>4 DEF hasRow
<1> QED BY <1>1, <1>2, <1>6, <1>7

(* The lists waiting to be shown, one more or one fewer.                   *)
LEMMA WaitingAppended ==
  ASSUME read \in Seq(Table), NEW t \in Table, read' = Append(read, t)
  PROVE  /\ read' \in Seq(Table) /\ Len(read') = Len(read) + 1 /\ Len(read) \in Nat
         /\ \A s : Waiting(s)' <=> Waiting(s) \/ hasRow(t, s)
<1>1. /\ read' \in Seq(Table) /\ Len(read') = Len(read) + 1 /\ Len(read) \in Nat
      /\ \A i \in 1 .. Len(read) : read'[i] = read[i]
      /\ read'[Len(read) + 1] = t
  BY AppendProperties, LenProperties
<1> QED BY <1>1 DEF Waiting

(* A list shown leaves those that waited, and all it holds had waited.     *)
LEMMA WaitingShown ==
  ASSUME read \in Seq(Table), NEW k \in 1 .. Len(read),
         read' = SubSeq(read, 1, k - 1) \o SubSeq(read, k + 1, Len(read))
  PROVE  /\ read' \in Seq(Table) /\ Len(read') = Len(read) - 1 /\ Len(read) \in Nat
         /\ read[k] \in Table
         /\ \A s : Waiting(s)' => Waiting(s)
         /\ \A s : hasRow(read[k], s) => Waiting(s)
<1>1. /\ read' \in Seq(Table) /\ Len(read') = Len(read) - 1 /\ Len(read) \in Nat
      /\ \A i \in 1 .. Len(read) - 1 : read'[i] = IF i < k THEN read[i] ELSE read[i + 1]
  BY RemovedEntry
<1>2. read[k] \in Table
  BY ElementOfSeq
<1>3. ASSUME NEW s, Waiting(s)' PROVE Waiting(s)
  <2>1. PICK i \in 1 .. Len(read') : hasRow(read'[i], s)
    BY <1>3 DEF Waiting
  <2>2. PICK j \in 1 .. Len(read) : read'[i] = read[j]
    <3>0. PICK n \in Nat : n = Len(read) /\ i \in 1 .. n - 1
      BY <1>1
    <3>1. i \in 1 .. Len(read) - 1 /\ i + 1 \in 1 .. Len(read) /\ i \in 1 .. Len(read)
      BY <3>0
    <3>2. read'[i] = read[i] \/ read'[i] = read[i + 1]
      BY <1>1, <3>1
    <3> QED BY <3>1, <3>2
  <2> QED BY <2>1, <2>2 DEF Waiting
<1> QED BY <1>1, <1>2, <1>3 DEF Waiting

-----------------------------------------------------------------------------
(* The handler *)

Busy == [pc : {"remove", "move", "save"}, song : SongIDs]

(* A handler at work is told from none by its next operation.              *)
LEMMA BusyIsNotIdle ==
  ASSUME NEW b \in Busy
  PROVE  b # Idle /\ b.song \in SongIDs /\ b.pc \in {"remove", "move", "save"}
BY DEF Busy, Idle

(* The handler is idle or at work, never both.                             *)
LEMMA HandlerType ==
  ASSUME TypeOK
  PROVE  bg = Idle \/ (bg \in Busy /\ bg # Idle)
BY BusyIsNotIdle DEF TypeOK, Busy

(* A handler in its middle, and one that goes on to its next operation.    *)
LEMMA HandlerAt ==
  ASSUME TypeOK, NEW p \in {"remove", "move", "save"}, bg.pc = p
  PROVE  /\ bg \in Busy /\ bg # Idle /\ bg.song \in SongIDs
         /\ \A s : Handling(s) <=> bg.song = s
<1>1. bg \in Busy
  BY HandlerType DEF Idle
<1> QED BY <1>1, BusyIsNotIdle DEF Handling

(* It stays with its song as it goes on.                                   *)
LEMMA HandlerGoesOn ==
  ASSUME bg \in Busy, NEW p \in {"remove", "move", "save"}, bg' = [bg EXCEPT !.pc = p]
  PROVE  /\ bg' \in Busy /\ bg' # Idle /\ bg'.pc = p /\ bg'.song = bg.song
         /\ \A s : Handling(s)' <=> bg.song = s
<1>1. bg' \in Busy /\ bg'.pc = p /\ bg'.song = bg.song
  BY DEF Busy
<1> QED BY <1>1, BusyIsNotIdle DEF Handling

(* Nothing of the pairs changes.                                           *)
LEMMA PairsKept ==
  ASSUME PairsInStep, files' = files, downLoadSongs' = downLoadSongs, bg' = bg,
         deleting' = deleting, torn' = torn
  PROVE  PairsInStep'
BY DEF PairsInStep, Paired, Handling

(* Nothing of the page or of the table changes.                            *)
LEMMA PageKept ==
  ASSUME ReadRowsExist, ShownRowsExist, UNCHANGED pageVars,
         downLoadSongs' = downLoadSongs, ghosts' = ghosts
  PROVE  ReadRowsExist' /\ ShownRowsExist'
BY DEF ReadRowsExist, ShownRowsExist, Waiting, pageVars

-----------------------------------------------------------------------------
(* The main queue and the global queue *)

(* A task started by the button, or one that failed, touches no pair.      *)
LEMMA DownloadButtonKeeps ==
  ASSUME IInv, NEW s \in SongIDs,
         downLoadCurrentSongForUser(s) \/ TaskFails(s)
  PROVE  IInv'
<1>1. /\ UNCHANGED <<files, downLoadSongs, bg, deleting, pageVars, ghosts, torn>>
      /\ \/ tasks' = [tasks EXCEPT ![s] = @ + 1] /\ tasks[s] < maxTasks
         \/ tasks' = [tasks EXCEPT ![s] = @ - 1] /\ tasks[s] > 0
  BY DEF downLoadCurrentSongForUser, TaskFails
<1>2. tasks' \in [SongIDs -> 0 .. maxTasks]
  BY <1>1, Bounds DEF IInv, TypeOK
<1>3. TypeOK'
  BY <1>1, <1>2 DEF IInv, TypeOK, pageVars, Table
<1> QED BY <1>1, <1>3, PairsKept, PageKept DEF IInv

(* The first half of a delete: no file is left, or the song is torn.       *)
LEMMA DeleteFileKeeps ==
  ASSUME IInv, NEW s \in SongIDs, NEW ok \in BOOLEAN, deleteDownLoadedSongsFile(s, ok)
  PROVE  IInv'
<1>1. /\ deleting = {} /\ deleting' = {s}
      /\ files' = IF ok THEN files \ {s} ELSE files
      /\ torn' = IF Handling(s) \/ (~ok /\ s \in files) THEN torn \cup {s} ELSE torn
      /\ UNCHANGED <<downLoadSongs, tasks, bg, pageVars, ghosts>>
  BY DEF deleteDownLoadedSongsFile, MainIdle
<1>2. TypeOK'
  BY <1>1 DEF IInv, TypeOK, pageVars, Table
<1>3. PairsInStep'
  <2> SUFFICES ASSUME NEW r \in SongIDs \ torn' PROVE Paired(r)'
    BY DEF PairsInStep
  <2>1. r \in SongIDs \ torn /\ Paired(r) /\ (Handling(r)' <=> Handling(r))
    BY <1>1 DEF IInv, PairsInStep, Handling
  <2>2. CASE r = s
    <3>1. ~Handling(s) /\ s \notin files'
      BY <1>1, <2>2
    <3> QED BY <1>1, <2>1, <2>2, <3>1 DEF Paired
  <2>3. CASE r # s
    BY <1>1, <2>1, <2>3 DEF Paired
  <2> QED BY <2>2, <2>3
<1> QED BY <1>1, <1>2, <1>3, PageKept DEF IInv

(* The second half: the row follows the file, from the table and the page. *)
LEMMA RemoveRowKeeps ==
  ASSUME IInv, NEW s \in SongIDs, NEW ok \in BOOLEAN, RemoveRow(s, ok)
  PROVE  IInv'
<1>1. /\ s \in deleting /\ deleting' = {}
      /\ downLoadSongs' = IF ok THEN deleteRow(downLoadSongs, s) ELSE downLoadSongs
      /\ allmodels' = deleteRow(allmodels, s)
      /\ ghosts' = IF ok /\ Waiting(s) THEN ghosts \cup {s} ELSE ghosts
      /\ torn' = IF ok THEN torn ELSE torn \cup {s}
      /\ UNCHANGED <<files, tasks, bg, reads, read>>
  BY DEF RemoveRow, removeDownLoadSong
<1>2. TypeOK
  BY DEF IInv
<1>3. /\ allmodels' \in Table /\ \A r : hasRow(allmodels', r) <=> hasRow(allmodels, r) /\ r # s
  BY <1>1, <1>2, DeleteRowValue DEF TypeOK
<1>4. /\ downLoadSongs' \in Table
      /\ \A r : r # s => (hasRow(downLoadSongs', r) <=> hasRow(downLoadSongs, r))
      /\ ok => ~hasRow(downLoadSongs', s)
      /\ ~ok => downLoadSongs' = downLoadSongs
  BY <1>1, <1>2, DeleteRowValue DEF TypeOK
<1>5. deleting = {s}
  BY <1>1, <1>2 DEF TypeOK
<1>6. TypeOK'
  BY <1>1, <1>2, <1>3, <1>4 DEF TypeOK, Table
<1>7. PairsInStep'
  <2> SUFFICES ASSUME NEW r \in SongIDs \ torn' PROVE Paired(r)'
    BY DEF PairsInStep
  <2>1. r \in SongIDs \ torn /\ Paired(r) /\ (Handling(r)' <=> Handling(r))
    BY <1>1 DEF IInv, PairsInStep, Handling
  <2>2. CASE r = s
    <3>1. ok
      BY <1>1, <2>2
    <3>2. ~Handling(s) /\ s \notin files
      BY <1>5, <2>1, <2>2 DEF Paired
    <3> QED BY <1>1, <1>4, <2>1, <2>2, <3>1, <3>2 DEF Paired
  <2>3. CASE r # s
    <3>1. r \notin deleting
      BY <1>5, <2>3
    <3> QED BY <1>1, <1>4, <2>1, <2>3, <3>1 DEF Paired
  <2> QED BY <2>2, <2>3
<1>8. ReadRowsExist'
  <2> SUFFICES ASSUME NEW r \in SongIDs, Waiting(r)
               PROVE  hasRow(downLoadSongs', r) \/ r \in ghosts'
    BY <1>1 DEF ReadRowsExist, Waiting
  <2>1. hasRow(downLoadSongs, r) \/ r \in ghosts
    BY DEF IInv, ReadRowsExist
  <2> QED BY <1>1, <1>4, <2>1
<1>9. ShownRowsExist'
  <2> SUFFICES ASSUME NEW r \in SongIDs, hasRow(allmodels', r)
               PROVE  hasRow(downLoadSongs', r) \/ r \in ghosts'
    BY DEF ShownRowsExist
  <2>1. r # s /\ hasRow(allmodels, r)
    BY <1>3
  <2>2. hasRow(downLoadSongs, r) \/ r \in ghosts
    BY <2>1 DEF IInv, ShownRowsExist
  <2> QED BY <1>1, <1>4, <2>1, <2>2
<1> QED BY <1>6, <1>7, <1>8, <1>9 DEF IInv

(* A page that appears only queues a read.                                 *)
LEMMA AppearKeeps == IInv /\ viewWillAppear => IInv'
<1> SUFFICES ASSUME IInv, viewWillAppear PROVE IInv'
  OBVIOUS
<1>1. /\ reads' = reads + 1 /\ reads + Len(read) < maxTasks
      /\ UNCHANGED <<files, downLoadSongs, tasks, bg, deleting, read, allmodels, ghosts, torn>>
  BY DEF viewWillAppear
<1>2. reads \in Nat /\ Len(read) \in Nat
  BY LenProperties DEF IInv, TypeOK
<1>3. reads' \in Nat /\ reads' + Len(read') <= maxTasks
  BY <1>1, <1>2, Bounds
<1>4. TypeOK'
  BY <1>1, <1>3 DEF IInv, TypeOK, Table
<1>5. ReadRowsExist' /\ ShownRowsExist'
  BY <1>1 DEF IInv, ReadRowsExist, ShownRowsExist, Waiting
<1> QED BY <1>1, <1>4, <1>5, PairsKept DEF IInv

(* A list just read holds what the table holds.                            *)
LEMMA ReadKeeps == IInv /\ ReadTable => IInv'
<1> SUFFICES ASSUME IInv, ReadTable PROVE IInv'
  OBVIOUS
<1>1. /\ reads > 0 /\ reads' = reads - 1 /\ read' = Append(read, downLoadSongs)
      /\ UNCHANGED <<files, downLoadSongs, tasks, bg, deleting, allmodels, ghosts, torn>>
  BY DEF ReadTable, getAllDownLoadSongs
<1>2. read \in Seq(Table) /\ downLoadSongs \in Table /\ reads \in Nat /\ reads + Len(read) <= maxTasks
  BY DEF IInv, TypeOK
<1>3. /\ read' \in Seq(Table) /\ Len(read') = Len(read) + 1 /\ Len(read) \in Nat
      /\ \A s : Waiting(s)' <=> Waiting(s) \/ hasRow(downLoadSongs, s)
  BY <1>1, <1>2, WaitingAppended
<1>4. reads' \in Nat /\ reads' + Len(read') <= maxTasks
  BY <1>1, <1>2, <1>3
<1>5. TypeOK'
  BY <1>1, <1>3, <1>4 DEF IInv, TypeOK, Table
<1>6. ReadRowsExist' /\ ShownRowsExist'
  BY <1>1, <1>3 DEF IInv, ReadRowsExist, ShownRowsExist
<1> QED BY <1>1, <1>5, <1>6, PairsKept DEF IInv

(* A list shown has been one that waited.                                  *)
LEMMA ShowKeeps == IInv /\ ShowList => IInv'
<1> SUFFICES ASSUME IInv, ShowList PROVE IInv'
  OBVIOUS
<1>1. UNCHANGED <<files, downLoadSongs, tasks, bg, deleting, reads, ghosts, torn>>
  BY DEF ShowList
<1>2. PICK k \in 1 .. Len(read) :
        /\ allmodels' = read[k]
        /\ read' = SubSeq(read, 1, k - 1) \o SubSeq(read, k + 1, Len(read))
  BY DEF ShowList
<1>3. read \in Seq(Table) /\ reads \in Nat /\ reads + Len(read) <= maxTasks
  BY DEF IInv, TypeOK
<1>4. /\ read' \in Seq(Table) /\ Len(read') = Len(read) - 1 /\ Len(read) \in Nat
      /\ read[k] \in Table
      /\ \A s : Waiting(s)' => Waiting(s)
      /\ \A s : hasRow(allmodels', s) => Waiting(s)
  BY <1>2, <1>3, WaitingShown
<1>5. reads' + Len(read') <= maxTasks
  BY <1>1, <1>3, <1>4, Bounds
<1>6. TypeOK'
  BY <1>1, <1>2, <1>4, <1>5 DEF IInv, TypeOK, Table
<1>7. ReadRowsExist' /\ ShownRowsExist'
  BY <1>1, <1>4 DEF IInv, ReadRowsExist, ShownRowsExist
<1> QED BY <1>1, <1>6, <1>7, PairsKept DEF IInv

-----------------------------------------------------------------------------
(* The session's queue and the end of the process *)

(* A handler begins with a song whose file and row agree, or a torn one.   *)
LEMMA HandlerBeginsKeeps ==
  ASSUME IInv, NEW s \in SongIDs, HandlerBegins(s)
  PROVE  IInv'
<1>1. /\ bg = Idle /\ tasks[s] > 0 /\ tasks' = [tasks EXCEPT ![s] = @ - 1]
      /\ bg' = [pc |-> IF s \in files THEN "remove" ELSE "move", song |-> s]
      /\ torn' = IF s \in deleting THEN torn \cup {s} ELSE torn
      /\ UNCHANGED <<files, downLoadSongs, deleting, pageVars, ghosts>>
  BY DEF HandlerBegins
<1>2. /\ bg' \in Busy /\ bg'.song = s
      /\ bg'.pc = IF s \in files THEN "remove" ELSE "move"
  BY <1>1 DEF Busy
<1>3. /\ \A r : Handling(r)' <=> r = s
      /\ \A r : ~Handling(r)
  BY <1>1, <1>2, BusyIsNotIdle DEF Handling
<1>4. tasks' \in [SongIDs -> 0 .. maxTasks]
  BY <1>1, Bounds DEF IInv, TypeOK
<1>5. TypeOK'
  BY <1>1, <1>2, <1>4 DEF IInv, TypeOK, pageVars, Table, Busy
<1>6. PairsInStep'
  <2> SUFFICES ASSUME NEW r \in SongIDs \ torn' PROVE Paired(r)'
    BY DEF PairsInStep
  <2>1. r \in SongIDs \ torn /\ Paired(r)
    BY <1>1 DEF IInv, PairsInStep
  <2>2. r = s => r \notin deleting
    BY <1>1
  <2> QED BY <1>1, <1>2, <1>3, <2>1, <2>2 DEF Paired
<1> QED BY <1>1, <1>5, <1>6, PageKept DEF IInv

(* The old file goes while its row stays.                                  *)
LEMMA HandlerRemovesKeeps ==
  ASSUME IInv, NEW ok \in BOOLEAN, HandlerRemoves(ok)
  PROVE  IInv'
<1>1. /\ bg.pc = "remove" /\ bg' = [bg EXCEPT !.pc = "move"]
      /\ files' = IF ok THEN files \ {bg.song} ELSE files
      /\ UNCHANGED <<downLoadSongs, tasks, deleting, pageVars, ghosts, torn>>
  BY DEF HandlerRemoves
<1>2. bg \in Busy /\ bg.song \in SongIDs /\ \A s : Handling(s) <=> bg.song = s
  BY <1>1, HandlerAt DEF IInv
<1>3. bg' \in Busy /\ bg'.pc = "move" /\ \A s : Handling(s)' <=> bg.song = s
  BY <1>1, <1>2, HandlerGoesOn
<1>4. TypeOK'
  BY <1>1, <1>3 DEF IInv, TypeOK, pageVars, Table, Busy
<1>5. PairsInStep'
  <2> SUFFICES ASSUME NEW r \in SongIDs \ torn PROVE Paired(r)'
    BY <1>1 DEF PairsInStep
  <2>1. Paired(r)
    BY DEF IInv, PairsInStep
  <2> QED BY <1>1, <1>2, <1>3, <2>1 DEF Paired
<1> QED BY <1>1, <1>4, <1>5, PageKept DEF IInv

(* The new file is in place, or the song is torn.                          *)
LEMMA HandlerMovesKeeps ==
  ASSUME IInv, NEW ok \in BOOLEAN, HandlerMoves(ok)
  PROVE  IInv'
<1>1. /\ bg.pc = "move" /\ bg' = [bg EXCEPT !.pc = "save"]
      /\ files' = IF ok THEN files \cup {bg.song} ELSE files
      /\ torn' = IF ok \/ bg.song \in files THEN torn ELSE torn \cup {bg.song}
      /\ UNCHANGED <<downLoadSongs, tasks, deleting, pageVars, ghosts>>
  BY DEF HandlerMoves
<1>2. bg \in Busy /\ bg.song \in SongIDs /\ \A s : Handling(s) <=> bg.song = s
  BY <1>1, HandlerAt DEF IInv
<1>3. bg' \in Busy /\ bg'.pc = "save" /\ \A s : Handling(s)' <=> bg.song = s
  BY <1>1, <1>2, HandlerGoesOn
<1>4. TypeOK'
  BY <1>1, <1>2, <1>3 DEF IInv, TypeOK, pageVars, Table, Busy
<1>5. PairsInStep'
  <2> SUFFICES ASSUME NEW r \in SongIDs \ torn' PROVE Paired(r)'
    BY DEF PairsInStep
  <2>1. r \in SongIDs \ torn /\ Paired(r)
    BY <1>1 DEF IInv, PairsInStep
  <2>2. r = bg.song => r \in files'
    BY <1>1
  <2> QED BY <1>1, <1>2, <1>3, <2>1, <2>2 DEF Paired
<1> QED BY <1>1, <1>4, <1>5, PageKept DEF IInv

(* The row is written, and with it the pair complete and no song a ghost.  *)
LEMMA HandlerSavesKeeps ==
  ASSUME IInv, NEW ok \in BOOLEAN, HandlerSaves(ok)
  PROVE  IInv'
<1>1. /\ bg.pc = "save" /\ bg' = Idle
      /\ downLoadSongs' = IF ok THEN insertOrReplaceRow(downLoadSongs, bg.song) ELSE downLoadSongs
      /\ ghosts' = IF ok THEN ghosts \ {bg.song} ELSE ghosts
      /\ torn' = IF ok THEN torn ELSE torn \cup {bg.song}
      /\ UNCHANGED <<files, tasks, deleting, pageVars>>
  BY DEF HandlerSaves, saveDownLoadSongs
<1>2. bg.song \in SongIDs /\ \A s : Handling(s) <=> bg.song = s
  BY <1>1, HandlerAt DEF IInv
<1>3. \A s : ~Handling(s)'
  BY <1>1 DEF Handling
<1>4. downLoadSongs \in Table
  BY DEF IInv, TypeOK
<1>5. /\ downLoadSongs' \in Table
      /\ \A s : s # bg.song => (hasRow(downLoadSongs', s) <=> hasRow(downLoadSongs, s))
      /\ ok => hasRow(downLoadSongs', bg.song)
      /\ ~ok => downLoadSongs' = downLoadSongs
  BY <1>1, <1>2, <1>4, InsertOrReplaceValue
<1>6. TypeOK'
  BY <1>1, <1>2, <1>5 DEF IInv, TypeOK, pageVars, Table
<1>7. PairsInStep'
  <2> SUFFICES ASSUME NEW r \in SongIDs \ torn' PROVE Paired(r)'
    BY DEF PairsInStep
  <2>1. r \in SongIDs \ torn /\ Paired(r) /\ (r = bg.song => ok)
    BY <1>1 DEF IInv, PairsInStep
  <2> QED BY <1>1, <1>2, <1>3, <1>5, <2>1 DEF Paired
<1>8. ASSUME NEW r \in SongIDs, hasRow(downLoadSongs, r) \/ r \in ghosts
      PROVE  hasRow(downLoadSongs', r) \/ r \in ghosts'
  BY <1>1, <1>5, <1>8
<1>9. ReadRowsExist' /\ ShownRowsExist'
  BY <1>1, <1>8 DEF IInv, ReadRowsExist, ShownRowsExist, Waiting, pageVars
<1> QED BY <1>6, <1>7, <1>9 DEF IInv

(* A pair cut by the end of the process is a torn one.                     *)
LEMMA RelaunchKeeps == IInv /\ Relaunch => IInv'
<1> SUFFICES ASSUME IInv, Relaunch PROVE IInv'
  OBVIOUS
<1>1. /\ tasks' = [s \in SongIDs |-> 0] /\ bg' = Idle
      /\ deleting' = {} /\ reads' = 0 /\ read' = << >> /\ allmodels' = << >> /\ ghosts' = {}
      /\ torn' = torn \cup deleting \cup {s \in SongIDs : Half(s)}
      /\ UNCHANGED <<files, downLoadSongs>>
  BY DEF Relaunch
<1>2. << >> \in Table /\ << >> \in Seq(Table) /\ Len(<< >>) = 0
  BY DEF Table
<1>3. tasks' \in [SongIDs -> 0 .. maxTasks] /\ 0 + 0 <= maxTasks
  BY <1>1, Bounds
<1>4. TypeOK'
  <2>1. torn' \subseteq SongIDs
    BY <1>1 DEF IInv, TypeOK
  <2>2. reads' \in Nat /\ reads' + Len(read') <= maxTasks
    BY <1>1, <1>2, <1>3
  <2> QED BY <1>1, <1>2, <1>3, <2>1, <2>2 DEF IInv, TypeOK, Table
<1>5. PairsInStep'
  <2> SUFFICES ASSUME NEW r \in SongIDs \ torn' PROVE Paired(r)'
    BY DEF PairsInStep
  <2>1. r \in SongIDs \ torn /\ Paired(r) /\ r \notin deleting /\ ~Half(r) /\ ~Handling(r)'
    BY <1>1 DEF IInv, PairsInStep, Handling
  <2>2. r \in files <=> hasRow(downLoadSongs, r)
    <3>1. CASE ~Handling(r)
      BY <2>1, <3>1 DEF Paired
    <3>2. CASE Handling(r)
      <4>1. bg.pc \in {"remove", "move", "save"}
        BY <3>2, HandlerType, BusyIsNotIdle DEF IInv, Handling
      <4> QED BY <2>1, <3>2, <4>1 DEF Paired, Half
    <3> QED BY <3>1, <3>2
  <2> QED BY <1>1, <2>1, <2>2 DEF Paired
<1>6. ReadRowsExist' /\ ShownRowsExist'
  BY <1>1, <1>2 DEF ReadRowsExist, ShownRowsExist, Waiting, hasRow
<1> QED BY <1>4, <1>5, <1>6 DEF IInv

-----------------------------------------------------------------------------
(* IInv is inductive.                                                      *)
LEMMA InitIInv == Init => IInv
<1> SUFFICES ASSUME Init PROVE IInv
  OBVIOUS
<1>1. << >> \in Table /\ << >> \in Seq(Table) /\ Len(<< >>) = 0
  BY DEF Table
<1>2. reads + Len(read) <= maxTasks /\ tasks \in [SongIDs -> 0 .. maxTasks] /\ reads \in Nat
  BY <1>1, Bounds DEF Init
<1>3. TypeOK
  BY <1>1, <1>2 DEF Init, TypeOK
<1>4. PairsInStep
  BY <1>1 DEF Init, PairsInStep, Paired, Handling, hasRow
<1>5. ReadRowsExist /\ ShownRowsExist
  BY <1>1 DEF Init, ReadRowsExist, ShownRowsExist, Waiting, hasRow
<1> QED BY <1>3, <1>4, <1>5 DEF IInv

(* Every step of the specification keeps it.                               *)
LEMMA NextIInv == IInv /\ [Next]_vars => IInv'
<1> SUFFICES ASSUME IInv, [Next]_vars PROVE IInv'
  OBVIOUS
<1>0. WriteResults \subseteq BOOLEAN
  BY Bounds
<1>1. ASSUME NEW s \in SongIDs, downLoadCurrentSongForUser(s) \/ TaskFails(s) PROVE IInv'
  BY <1>1, DownloadButtonKeeps
<1>2. ASSUME NEW s \in SongIDs, NEW ok \in WriteResults, deleteDownLoadedSongsFile(s, ok) PROVE IInv'
  BY <1>0, <1>2, DeleteFileKeeps
<1>3. ASSUME NEW s \in SongIDs, NEW ok \in WriteResults, RemoveRow(s, ok) PROVE IInv'
  BY <1>0, <1>3, RemoveRowKeeps
<1>4. ASSUME NEW s \in SongIDs, HandlerBegins(s) PROVE IInv'
  BY <1>4, HandlerBeginsKeeps
<1>5. CASE viewWillAppear \/ ReadTable \/ ShowList
  BY <1>5, AppearKeeps, ReadKeeps, ShowKeeps
<1>6. ASSUME NEW ok \in WriteResults, HandlerRemoves(ok) \/ HandlerMoves(ok) \/ HandlerSaves(ok)
      PROVE  IInv'
  BY <1>0, <1>6, HandlerRemovesKeeps, HandlerMovesKeeps, HandlerSavesKeeps
<1>7. CASE Relaunch
  BY <1>7, RelaunchKeeps
<1>8. CASE UNCHANGED vars
  <2>1. TypeOK'
    BY <1>8 DEF vars, pageVars, IInv, TypeOK, Table
  <2> QED BY <1>8, <2>1, PairsKept, PageKept DEF vars, IInv
<1> QED BY <1>1, <1>2, <1>3, <1>4, <1>5, <1>6, <1>7, <1>8 DEF Next

(* It holds in every reachable state.                                      *)
LEMMA Inductive == Spec => []IInv
BY InitIInv, NextIInv, PTL DEF Spec

-----------------------------------------------------------------------------
(* The state keeps its type: in particular neither the table nor a list    *)
(* ever holds a song twice, whatever pairs of writes cross.                *)
THEOREM DownloadsTypeCorrect == Spec => []TypeOK
<1>1. IInv => TypeOK
  BY DEF IInv
<1> QED BY <1>1, Inductive, PTL

(* With nothing half done, a song has its file iff it has its row, but for *)
(* the songs whose pair of writes failed, was cut or crossed another.      *)
THEOREM FilesMatchRows == Spec => []FileIffRow
<1>1. IInv => FileIffRow
  BY DEF IInv, PairsInStep, Paired, FileIffRow, MainIdle, Handling, isSongDownLoad
<1> QED BY <1>1, Inductive, PTL

(* The page lists a song without a row only when it was deleted while a    *)
(* list read before waited to be shown.                                    *)
THEOREM ShownSongsHaveRows == Spec => []ShownRowsExist
<1>1. IInv => ShownRowsExist
  BY DEF IInv
<1> QED BY <1>1, Inductive, PTL

(* No step of the app repairs a file without a row, the process's end and  *)
(* the next launch included.                                               *)
LEMMA OrphanStays ==
  ASSUME IInv, Next, NEW s \in SongIDs, Orphan(s)
  PROVE  Orphan(s)'
<1>0. /\ s \in files /\ ~hasRow(downLoadSongs, s) /\ tasks[s] = 0 /\ ~Handling(s)
      /\ s \notin deleting /\ ~hasRow(allmodels, s) /\ ~Waiting(s)
  BY DEF Orphan, isSongDownLoad
<1>1. TypeOK
  BY DEF IInv
<1>2. ASSUME NEW r \in SongIDs, downLoadCurrentSongForUser(r) \/ TaskFails(r) PROVE Orphan(s)'
  <2>1. UNCHANGED <<files, downLoadSongs, bg, deleting, pageVars>>
    BY <1>2 DEF downLoadCurrentSongForUser, TaskFails
  <2>2. r # s
    BY <1>0, <1>2 DEF downLoadCurrentSongForUser, TaskFails, isSongDownLoad
  <2>3. tasks'[s] = 0
    BY <1>0, <1>1, <1>2, <2>2 DEF downLoadCurrentSongForUser, TaskFails, TypeOK
  <2> QED BY <1>0, <2>1, <2>3 DEF Orphan, isSongDownLoad, Handling, Waiting, pageVars
<1>3. ASSUME NEW r \in SongIDs, NEW ok \in WriteResults, deleteDownLoadedSongsFile(r, ok)
      PROVE  Orphan(s)'
  <2>1. r # s
    BY <1>0, <1>3 DEF deleteDownLoadedSongsFile
  <2> QED BY <1>0, <1>3, <2>1
          DEF deleteDownLoadedSongsFile, Orphan, isSongDownLoad, Handling, Waiting, pageVars
<1>4. ASSUME NEW r \in SongIDs, NEW ok \in WriteResults, RemoveRow(r, ok) PROVE Orphan(s)'
  <2>1. /\ UNCHANGED <<files, tasks, bg, reads, read>> /\ deleting' = {}
        /\ downLoadSongs' = downLoadSongs \/ downLoadSongs' = deleteRow(downLoadSongs, r)
        /\ allmodels' = deleteRow(allmodels, r)
    BY <1>4 DEF RemoveRow, removeDownLoadSong
  <2>2. ~hasRow(downLoadSongs', s) /\ ~hasRow(allmodels', s)
    BY <1>0, <1>1, <2>1, DeleteRowValue DEF TypeOK
  <2> QED BY <1>0, <2>1, <2>2 DEF Orphan, isSongDownLoad, Handling, Waiting
<1>5. ASSUME NEW r \in SongIDs, HandlerBegins(r) PROVE Orphan(s)'
  <2>1. r # s
    BY <1>0, <1>5 DEF HandlerBegins
  <2>2. /\ UNCHANGED <<files, downLoadSongs, deleting, pageVars>>
        /\ tasks' = [tasks EXCEPT ![r] = @ - 1] /\ bg'.song = r
    BY <1>5 DEF HandlerBegins
  <2>3. tasks'[s] = 0
    BY <1>0, <1>1, <2>1, <2>2 DEF TypeOK
  <2> QED BY <1>0, <2>1, <2>2, <2>3 DEF Orphan, isSongDownLoad, Handling, Waiting, pageVars
<1>6. CASE viewWillAppear
  BY <1>0, <1>6 DEF viewWillAppear, Orphan, isSongDownLoad, Handling, Waiting
<1>7. CASE ReadTable
  <2>1. ~Waiting(s)'
    BY <1>0, <1>1, <1>7, WaitingAppended DEF ReadTable, getAllDownLoadSongs, TypeOK
  <2> QED BY <1>0, <1>7, <2>1 DEF ReadTable, Orphan, isSongDownLoad, Handling
<1>8. CASE ShowList
  <2>1. PICK k \in 1 .. Len(read) :
          /\ allmodels' = read[k]
          /\ read' = SubSeq(read, 1, k - 1) \o SubSeq(read, k + 1, Len(read))
    BY <1>8 DEF ShowList
  <2>2. ~Waiting(s)' /\ ~hasRow(allmodels', s)
    BY <1>0, <1>1, <2>1, WaitingShown DEF TypeOK
  <2> QED BY <1>0, <1>8, <2>2 DEF ShowList, Orphan, isSongDownLoad, Handling
<1>9. ASSUME NEW ok \in WriteResults, HandlerRemoves(ok) PROVE Orphan(s)'
  <2>1. bg \in Busy /\ bg.song # s
    BY <1>0, <1>1, <1>9, HandlerAt DEF HandlerRemoves
  <2>2. ~Handling(s)'
    BY <1>9, <2>1, HandlerGoesOn DEF HandlerRemoves
  <2> QED BY <1>0, <1>9, <2>1, <2>2 DEF HandlerRemoves, Orphan, isSongDownLoad, Waiting, pageVars
<1>10. ASSUME NEW ok \in WriteResults, HandlerMoves(ok) PROVE Orphan(s)'
  <2>1. bg \in Busy /\ bg.song # s
    BY <1>0, <1>1, <1>10, HandlerAt DEF HandlerMoves
  <2>2. ~Handling(s)'
    BY <1>10, <2>1, HandlerGoesOn DEF HandlerMoves
  <2> QED BY <1>0, <1>10, <2>1, <2>2 DEF HandlerMoves, Orphan, isSongDownLoad, Waiting, pageVars
<1>11. ASSUME NEW ok \in WriteResults, HandlerSaves(ok) PROVE Orphan(s)'
  <2>1. bg.song \in SongIDs /\ bg.song # s
    BY <1>0, <1>1, <1>11, HandlerAt DEF HandlerSaves
  <2>2. /\ UNCHANGED <<files, tasks, deleting, pageVars>> /\ bg' = Idle
        /\ \/ downLoadSongs' = downLoadSongs
           \/ downLoadSongs' = insertOrReplaceRow(downLoadSongs, bg.song)
    BY <1>11 DEF HandlerSaves, saveDownLoadSongs
  <2>3. ~hasRow(downLoadSongs', s)
    BY <1>0, <1>1, <2>1, <2>2, InsertOrReplaceValue DEF TypeOK
  <2> QED BY <1>0, <2>2, <2>3 DEF Orphan, isSongDownLoad, Handling, Waiting, pageVars
<1>12. CASE Relaunch
  <2>1. /\ UNCHANGED <<files, downLoadSongs>> /\ tasks'[s] = 0 /\ bg' = Idle /\ deleting' = {}
        /\ Len(read') = 0 /\ Len(allmodels') = 0
    BY <1>12 DEF Relaunch
  <2> QED BY <1>0, <2>1 DEF Orphan, isSongDownLoad, Handling, Waiting, hasRow
<1> QED BY <1>2, <1>3, <1>4, <1>5, <1>6, <1>7, <1>8, <1>9, <1>10, <1>11, <1>12 DEF Next

(* The action property, from the step above in every reachable state: a    *)
(* file without a row is beyond every operation of the app.                *)
THEOREM OrphansStay == Spec => OrphanIsForever
<1>1. IInv /\ [Next]_vars => [\A s \in SongIDs : Orphan(s) => Orphan(s)']_vars
  BY OrphanStays
<1> QED BY <1>1, Inductive, PTL DEF Spec, OrphanIsForever
=============================================================================
