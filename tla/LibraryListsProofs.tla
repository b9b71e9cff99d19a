-------------------------- MODULE LibraryListsProofs --------------------------
(***************************************************************************)
(* Proofs about LibraryLists, for any songs, limit, changes and reads      *)
(* under way.                                                              *)
(***************************************************************************)
EXTENDS LibraryLists, TLAPS, SequenceTheorems

-----------------------------------------------------------------------------
(* The inductive invariant *)

(* The rows of a table, none of them twice.                                *)
Table == {t \in Seq(SongIDs) : \A i, j \in 1 .. Len(t) : t[i] = t[j] => i = j}

(* What the page of table k would read now.                                *)
Query(k) ==
  IF k = "liked" THEN tables["liked"] ELSE getRecentPlaySongs(tables["recent"], limit)

(* A table holds the songs with a time, in the order of their times.       *)
InStep(t, times) ==
  /\ \A s \in SongIDs : hasRow(t, s) <=> times[s] > 0
  /\ \A i, j \in 1 .. Len(t) : i < j => times[t[i]] < times[t[j]]

ListTypes ==
  /\ limit \in Nat /\ clock \in Nat /\ appearedAt \in Nat /\ waiting \in Nat
  /\ tables \in [Kinds -> Table] /\ since \in [Kinds -> [SongIDs -> Nat]]
  /\ changedAt \in [Kinds -> Nat] /\ open \in Kinds \cup {"menu"}
  /\ read \in Seq([rows : Seq(SongIDs), time : Nat])

TablesInStep ==
  \A k \in Kinds :
    InStep(tables[k], since[k]) /\ \A s \in SongIDs : since[k][s] <= clock

(* Nothing was changed, read or shown later than now.                      *)
ClockIsLast ==
  /\ appearedAt <= clock /\ \A k \in Kinds : changedAt[k] <= clock
  /\ \A i \in 1 .. Len(read) : read[i].time <= clock

(* A result read after the last change of the table is still its answer.   *)
ReadsAreCurrent ==
  open \in Kinds =>
    \A i \in 1 .. Len(read) :
      read[i].time >= changedAt[open] => read[i].rows = Query(open)

(* A page up to date shows what it would read now.                         *)
ShownIsCurrent == \A k \in Kinds : UpToDate(k) => allmodels = Query(k)

ListInv == ListTypes /\ TablesInStep /\ ClockIsLast /\ ReadsAreCurrent /\ ShownIsCurrent

-----------------------------------------------------------------------------
(* Rows *)

(* One entry taken out of a sequence: the others keep their order.         *)
LEMMA RemovedEntry ==
  ASSUME NEW S, NEW t \in Seq(S), NEW k \in 1 .. Len(t)
  PROVE  LET d == SubSeq(t, 1, k - 1) \o SubSeq(t, k + 1, Len(t))
         IN  /\ d \in Seq(S) /\ Len(d) = Len(t) - 1 /\ Len(t) \in Nat
             /\ \A i \in 1 .. Len(t) - 1 : d[i] = IF i < k THEN t[i] ELSE t[i + 1]
<1> DEFINE a == SubSeq(t, 1, k - 1)
           b == SubSeq(t, k + 1, Len(t))
           d == a \o b
<1>1. Len(t) \in Nat /\ k \in Nat /\ \A i \in 1 .. Len(t) : t[i] \in S
  BY LenProperties, ElementOfSeq
<1>2. /\ a \in Seq(S) /\ Len(a) = k - 1 /\ \A i \in 1 .. k - 1 : a[i] = t[i]
      /\ b \in Seq(S) /\ Len(b) = Len(t) - k /\ \A i \in 1 .. Len(t) - k : b[i] = t[k + i]
  BY <1>1, SubSeqProperties
<1> HIDE DEF a, b
<1>0. Len(a) + Len(b) = Len(t) - 1
  BY <1>1, <1>2
<1>3. /\ d \in Seq(S) /\ Len(d) = Len(a) + Len(b)
      /\ \A i \in 1 .. Len(a) + Len(b) : d[i] = IF i <= Len(a) THEN a[i] ELSE b[i - Len(a)]
  BY <1>2, ConcatProperties
<1> HIDE DEF d
<1>4. ASSUME NEW i \in 1 .. Len(t) - 1
      PROVE  d[i] = IF i < k THEN t[i] ELSE t[i + 1]
  <2>0. d[i] = IF i <= Len(a) THEN a[i] ELSE b[i - Len(a)]
    BY <1>0, <1>3
  <2>1. CASE i < k
    <3>1. i <= Len(a) /\ i \in 1 .. k - 1
      BY <1>1, <1>2, <2>1
    <3> QED BY <1>2, <2>0, <2>1, <3>1
  <2>2. CASE ~(i < k)
    <3>1. i - (k - 1) \in 1 .. Len(t) - k /\ k + (i - (k - 1)) = i + 1
      BY <1>1, <2>2
    <3>2. d[i] = b[i - (k - 1)]
      BY <1>1, <1>2, <2>0, <2>2
    <3> QED BY <1>2, <2>2, <3>1, <3>2
  <2> QED BY <2>1, <2>2
<1> QED BY <1>0, <1>1, <1>3, <1>4 DEF d, a, b

(* deleteFromTable takes out the one row with the key, if there is one.    *)
LEMMA DeleteRowValue ==
  ASSUME NEW t \in Table, NEW id
  PROVE  /\ deleteRow(t, id) \in Table
         /\ \A s : hasRow(deleteRow(t, id), s) <=> hasRow(t, s) /\ s # id
<1>0. t \in Seq(SongIDs) /\ \A i, j \in 1 .. Len(t) : t[i] = t[j] => i = j
  BY DEF Table
<1>1. CASE ~hasRow(t, id)
  BY <1>1 DEF deleteRow, hasRow
<1>2. CASE hasRow(t, id)
  <2>1. PICK k \in 1 .. Len(t) :
          /\ t[k] = id
          /\ deleteRow(t, id) = SubSeq(t, 1, k - 1) \o SubSeq(t, k + 1, Len(t))
    BY <1>2 DEF deleteRow, hasRow
  <2> DEFINE d == SubSeq(t, 1, k - 1) \o SubSeq(t, k + 1, Len(t))
  <2>2. /\ d \in Seq(SongIDs) /\ Len(d) = Len(t) - 1 /\ Len(t) \in Nat
        /\ \A i \in 1 .. Len(t) - 1 : d[i] = IF i < k THEN t[i] ELSE t[i + 1]
    BY <1>0, RemovedEntry
  <2> HIDE DEF d
  <2>3. ASSUME NEW i \in 1 .. Len(d), NEW j \in 1 .. Len(d), d[i] = d[j] PROVE i = j
    <3>1. PICK x \in 1 .. Len(t) : x = (IF i < k THEN i ELSE i + 1) /\ d[i] = t[x]
      BY <2>2
    <3>2. PICK y \in 1 .. Len(t) : y = (IF j < k THEN j ELSE j + 1) /\ d[j] = t[y]
      BY <2>2
    <3>3. x = y
      BY <1>0, <2>3, <3>1, <3>2
    <3> QED BY <2>2, <3>1, <3>2, <3>3
  <2>4. d \in Table
    BY <2>2, <2>3 DEF Table
  <2>5. ASSUME NEW s, hasRow(d, s) PROVE hasRow(t, s) /\ s # id
    <3>1. PICK i \in 1 .. Len(d) : d[i] = s
      BY <2>5 DEF hasRow
    <3>2. PICK x \in 1 .. Len(t) : x # k /\ d[i] = t[x]
      BY <2>2
    <3> QED BY <1>0, <2>1, <3>1, <3>2 DEF hasRow
  <2>6. ASSUME NEW s, hasRow(t, s), s # id PROVE hasRow(d, s)
    <3>1. PICK i \in 1 .. Len(t) : t[i] = s
      BY <2>6 DEF hasRow
    <3>2. CASE i < k
      BY <2>1, <2>2, <3>1, <3>2 DEF hasRow
    <3>3. CASE i > k
      <4>1. i - 1 \in 1 .. Len(d) /\ d[i - 1] = t[i]
        BY <2>1, <2>2, <3>3
      <4> QED BY <3>1, <4>1 DEF hasRow
    <3>4. i # k
      BY <2>1, <2>6, <3>1
    <3> QED BY <2>1, <3>2, <3>3, <3>4
  <2> QED BY <2>1, <2>4, <2>5, <2>6 DEF d
<1> QED BY <1>1, <1>2

(* INSERT OR REPLACE leaves one row with the key.                          *)
LEMMA InsertOrReplaceValue ==
  ASSUME NEW t \in Table, NEW id \in SongIDs
  PROVE  /\ insertOrReplaceRow(t, id) \in Table
         /\ \A s : hasRow(insertOrReplaceRow(t, id), s) <=> hasRow(t, s) \/ s = id
<1> DEFINE d == deleteRow(t, id)
           u == Append(d, id)
<1>1. d \in Table /\ \A s : hasRow(d, s) <=> hasRow(t, s) /\ s # id
  BY DeleteRowValue
<1>2. u = insertOrReplaceRow(t, id)
  BY DEF insertOrReplaceRow
<1> HIDE DEF d
<1>3. d \in Seq(SongIDs) /\ Len(d) \in Nat /\ \A i, j \in 1 .. Len(d) : d[i] = d[j] => i = j
  BY <1>1, LenProperties DEF Table
<1>4. /\ u \in Seq(SongIDs) /\ Len(u) = Len(d) + 1 /\ u[Len(d) + 1] = id
      /\ \A i \in 1 .. Len(d) : u[i] = d[i]
  BY <1>3, AppendProperties
<1> HIDE DEF u
<1>5. \A i \in 1 .. Len(d) : d[i] # id
  BY <1>1 DEF hasRow
<1>6. u \in Table
  BY <1>3, <1>4, <1>5 DEF Table
<1>7. \A s : hasRow(u, s) <=> hasRow(d, s) \/ s = id
  BY <1>3, <1>4 DEF hasRow
<1> QED BY <1>1, <1>2, <1>6, <1>7

(* deleteFromTable keeps the order of the other rows.                      *)
LEMMA DeleteRowOrder ==
  ASSUME NEW t \in Table, NEW id,
         NEW i \in 1 .. Len(deleteRow(t, id)), NEW j \in 1 .. Len(deleteRow(t, id)), i < j
  PROVE  \E x, y \in 1 .. Len(t) :
           x < y /\ deleteRow(t, id)[i] = t[x] /\ deleteRow(t, id)[j] = t[y]
<1>0. t \in Seq(SongIDs)
  BY DEF Table
<1>1. CASE ~hasRow(t, id)
  BY <1>1 DEF deleteRow
<1>2. CASE hasRow(t, id)
  <2>1. PICK k \in 1 .. Len(t) :
          deleteRow(t, id) = SubSeq(t, 1, k - 1) \o SubSeq(t, k + 1, Len(t))
    BY <1>2 DEF deleteRow, hasRow
  <2> DEFINE d == SubSeq(t, 1, k - 1) \o SubSeq(t, k + 1, Len(t))
  <2>2. /\ Len(d) = Len(t) - 1 /\ Len(t) \in Nat
        /\ \A n \in 1 .. Len(t) - 1 : d[n] = IF n < k THEN t[n] ELSE t[n + 1]
    BY <1>0, RemovedEntry
  <2>0. deleteRow(t, id) = d
    BY <2>1
  <2> HIDE DEF d
  <2>3. PICK x \in 1 .. Len(t) : x = (IF i < k THEN i ELSE i + 1) /\ d[i] = t[x]
    BY <2>0, <2>2
  <2>4. PICK y \in 1 .. Len(t) : y = (IF j < k THEN j ELSE j + 1) /\ d[j] = t[y]
    BY <2>0, <2>2
  <2>5. x < y
    BY <2>0, <2>2, <2>3, <2>4
  <2> QED BY <2>0, <2>3, <2>4, <2>5
<1> QED BY <1>1, <1>2

(* A row that is removed loses its time.                                   *)
LEMMA RemovedInStep ==
  ASSUME NEW t \in Table, NEW times \in [SongIDs -> Nat], NEW id \in SongIDs, InStep(t, times)
  PROVE  InStep(deleteRow(t, id), [times EXCEPT ![id] = 0])
<1> DEFINE d == deleteRow(t, id)
           now == [times EXCEPT ![id] = 0]
<1>1. d \in Table /\ \A s : hasRow(d, s) <=> hasRow(t, s) /\ s # id
  BY DeleteRowValue
<1>2. now \in [SongIDs -> Nat] /\ \A s \in SongIDs : now[s] = IF s = id THEN 0 ELSE times[s]
  OBVIOUS
<1>3. \A i \in 1 .. Len(d) : d[i] \in SongIDs /\ d[i] # id
  <2>1. d \in Seq(SongIDs)
    BY <1>1 DEF Table
  <2>2. \A i \in 1 .. Len(d) : hasRow(d, d[i])
    BY DEF hasRow
  <2> QED BY <1>1, <2>1, <2>2, ElementOfSeq
<1>4. ASSUME NEW i \in 1 .. Len(d), NEW j \in 1 .. Len(d), i < j PROVE now[d[i]] < now[d[j]]
  <2>1. PICK x \in 1 .. Len(t), y \in 1 .. Len(t) : x < y /\ d[i] = t[x] /\ d[j] = t[y]
    BY <1>4, DeleteRowOrder
  <2> HIDE DEF d, now
  <2>2. times[d[i]] < times[d[j]]
    BY <2>1 DEF InStep
  <2> QED BY <1>2, <1>3, <2>2
<1> HIDE DEF d, now
<1>5. \A s \in SongIDs : hasRow(d, s) <=> now[s] > 0
  BY <1>1, <1>2 DEF InStep
<1>6. InStep(d, now)
  BY <1>4, <1>5 DEF InStep
<1> QED BY <1>6 DEF d, now

(* A row that is written again goes to the end and has the last time.      *)
LEMMA InsertedInStep ==
  ASSUME NEW t \in Table, NEW times \in [SongIDs -> Nat], NEW id \in SongIDs, InStep(t, times),
         NEW last \in Nat, \A s \in SongIDs : times[s] < last
  PROVE  InStep(insertOrReplaceRow(t, id), [times EXCEPT ![id] = last])
<1> DEFINE d == deleteRow(t, id)
           u == insertOrReplaceRow(t, id)
           gone == [times EXCEPT ![id] = 0]
           now == [times EXCEPT ![id] = last]
<1>1. d \in Table /\ \A s : hasRow(d, s) <=> hasRow(t, s) /\ s # id
  BY DeleteRowValue
<1>2. InStep(d, gone)
  BY RemovedInStep
<1>3. /\ now \in [SongIDs -> Nat] /\ gone \in [SongIDs -> Nat]
      /\ \A s \in SongIDs : now[s] = IF s = id THEN last ELSE gone[s]
  OBVIOUS
<1>4. /\ Len(d) \in Nat /\ d \in Seq(SongIDs)
      /\ \A i \in 1 .. Len(d) : d[i] \in SongIDs /\ d[i] # id
  <2>1. d \in Seq(SongIDs)
    BY <1>1 DEF Table
  <2>2. \A i \in 1 .. Len(d) : hasRow(d, d[i])
    BY DEF hasRow
  <2> QED BY <1>1, <2>1, <2>2, ElementOfSeq, LenProperties
<1>5. /\ Len(u) = Len(d) + 1 /\ u[Len(d) + 1] = id
      /\ \A i \in 1 .. Len(d) : u[i] = d[i]
  BY <1>4, AppendProperties DEF insertOrReplaceRow
<1>6. \A s \in SongIDs : gone[s] < last
  OBVIOUS
<1>7. \A s : hasRow(u, s) <=> hasRow(t, s) \/ s = id
  BY InsertOrReplaceValue
<1> HIDE DEF d, u, gone, now
<1>8. \A s \in SongIDs : hasRow(u, s) <=> now[s] > 0
  <2>1. last > 0
    BY <1>3, <1>6
  <2>2. \A s \in SongIDs : hasRow(d, s) <=> gone[s] > 0
    BY <1>2 DEF InStep
  <2> QED BY <1>1, <1>3, <1>7, <2>1, <2>2
<1>9. ASSUME NEW i \in 1 .. Len(u), NEW j \in 1 .. Len(u), i < j PROVE now[u[i]] < now[u[j]]
  <2>1. i \in 1 .. Len(d) /\ u[i] = d[i]
    BY <1>4, <1>5, <1>9
  <2>2. CASE j \in 1 .. Len(d)
    <3>1. gone[d[i]] < gone[d[j]]
      BY <1>2, <1>9, <2>1, <2>2 DEF InStep
    <3> QED BY <1>3, <1>4, <1>5, <2>1, <2>2, <3>1
  <2>3. CASE j = Len(d) + 1
    BY <1>3, <1>4, <1>5, <1>6, <2>1, <2>3
  <2> QED BY <1>4, <1>5, <2>2, <2>3
<1>10. InStep(u, now)
  BY <1>8, <1>9 DEF InStep
<1> QED BY <1>10 DEF u, now

(* What a page would read has rows of songs.                               *)
LEMMA QueryType ==
  ASSUME ListTypes, NEW k \in Kinds
  PROVE  /\ Query(k) \in Seq(SongIDs)
         /\ k = "recent" /\ Len(tables["recent"]) <= limit => Query(k) = tables["recent"]
         /\ tables["recent"] \in Seq(SongIDs) /\ Len(tables["recent"]) \in Nat
<1>1. /\ tables["liked"] \in Seq(SongIDs) /\ tables["recent"] \in Seq(SongIDs)
      /\ Len(tables["recent"]) \in Nat /\ limit \in Nat
  BY LenProperties DEF ListTypes, Kinds, Table
<1>2. CASE k = "liked"
  BY <1>1, <1>2 DEF Query
<1>3. CASE k = "recent"
  <2> DEFINE t == tables["recent"]
             n == IF Len(t) < limit THEN Len(t) ELSE limit
  <2>1. n \in 0 .. Len(t) /\ n \in Nat /\ (Len(t) <= limit => n = Len(t))
    BY <1>1
  <2>2. Query(k) = SubSeq(t, 1, n)
    BY <1>3 DEF Query, getRecentPlaySongs
  <2> HIDE DEF t, n
  <2>3. t \in Seq(SongIDs) /\ \A i \in 1 .. n : t[i] \in SongIDs
    BY <1>1, <2>1, ElementOfSeq, LenProperties DEF t
  <2>4. SubSeq(t, 1, n) \in Seq(SongIDs)
    BY <2>1, <2>3, SubSeqProperties
  <2>5. n = Len(t) => SubSeq(t, 1, n) = t
    BY <2>3, SubSeqFull
  <2> QED BY <1>1, <2>1, <2>2, <2>4, <2>5 DEF t
<1> QED BY <1>2, <1>3 DEF Kinds

(* A table is written with the clock's next time: its pages are out of     *)
(* date, and what was read of it is not current any more.                  *)
LEMMA WriteKeeps ==
  ASSUME ListInv, NEW k \in Kinds, NEW s \in SongIDs, NEW rows, NEW time \in Nat,
         Write(k, s, rows, time), rows \in Table, time <= clock + 1,
         InStep(rows, [since[k] EXCEPT ![s] = time])
  PROVE  ListInv'
<1>1. /\ clock' = clock + 1
      /\ tables' = [tables EXCEPT ![k] = rows]
      /\ since' = [since EXCEPT ![k] = [since[k] EXCEPT ![s] = time]]
      /\ changedAt' = [changedAt EXCEPT ![k] = clock + 1]
      /\ UNCHANGED <<open, appearedAt, waiting, read, allmodels, outrun>>
  BY DEF Write, page, ListInv, ListTypes
<1>2. ListTypes
  BY DEF ListInv
<1>3. [since[k] EXCEPT ![s] = time] \in [SongIDs -> Nat]
  BY <1>2 DEF ListTypes
<1>4. ListTypes'
  BY <1>1, <1>2, <1>3 DEF ListTypes
<1>5. /\ tables'[k] = rows /\ since'[k] = [since[k] EXCEPT ![s] = time]
      /\ changedAt'[k] = clock + 1
      /\ \A j \in Kinds \ {k} :
           tables'[j] = tables[j] /\ since'[j] = since[j] /\ changedAt'[j] = changedAt[j]
  BY <1>1, <1>2 DEF ListTypes
<1>6. TablesInStep'
  <2> SUFFICES ASSUME NEW j \in Kinds
               PROVE  InStep(tables'[j], since'[j]) /\ \A q \in SongIDs : since'[j][q] <= clock'
    BY DEF TablesInStep, InStep
  <2>1. InStep(tables'[j], since'[j])
    BY <1>5 DEF ListInv, TablesInStep
  <2>2. ASSUME NEW q \in SongIDs PROVE since'[j][q] <= clock'
    <3>1. since[j] \in [SongIDs -> Nat] /\ since[j][q] <= clock /\ clock \in Nat
      BY <1>2 DEF ListTypes, ListInv, TablesInStep
    <3>2. since'[j][q] = since[j][q] \/ since'[j][q] = time
      BY <1>5, <3>1
    <3> QED BY <1>1, <3>1, <3>2
  <2> QED BY <2>1, <2>2
<1>7. ClockIsLast'
  <2>1. /\ clock \in Nat /\ appearedAt \in Nat /\ \A j \in Kinds : changedAt[j] \in Nat
        /\ \A i \in 1 .. Len(read) : read[i] \in [rows : Seq(SongIDs), time : Nat]
    BY <1>2, ElementOfSeq DEF ListTypes
  <2> QED BY <1>1, <1>5, <2>1 DEF ListInv, ClockIsLast
<1>8. ASSUME NEW j \in Kinds \ {k} PROVE Query(j)' = Query(j)
  <2>1. "liked" \in Kinds /\ "recent" \in Kinds /\ (j = "liked" \/ j = "recent")
    BY DEF Kinds
  <2> QED BY <1>5, <1>8, <2>1 DEF Query, getRecentPlaySongs
<1>9. ReadsAreCurrent'
  <2> SUFFICES ASSUME open' \in Kinds, NEW i \in 1 .. Len(read'),
                      read'[i].time >= changedAt'[open']
               PROVE  read'[i].rows = Query(open)'
    BY <1>1 DEF ReadsAreCurrent
  <2>1. open # k
    <3>1. read[i].time <= clock /\ read[i] \in [rows : Seq(SongIDs), time : Nat]
          /\ clock \in Nat
      BY <1>1, <1>2, ElementOfSeq DEF ListTypes, ListInv, ClockIsLast
    <3> QED BY <1>1, <1>5, <3>1
  <2>2. read[i].time >= changedAt[open] /\ open \in Kinds \ {k}
    BY <1>1, <1>5, <2>1
  <2>3. read[i].rows = Query(open)
    BY <1>1, <2>2 DEF ListInv, ReadsAreCurrent
  <2> QED BY <1>1, <1>8, <2>2, <2>3
<1>10. ShownIsCurrent'
  <2> SUFFICES ASSUME NEW j \in Kinds, UpToDate(j)' PROVE allmodels' = Query(j)'
    BY DEF ShownIsCurrent
  <2>1. j # k
    BY <1>1, <1>2, <1>5 DEF UpToDate, ListTypes, ListInv, ClockIsLast
  <2>2. UpToDate(j)
    BY <1>1, <1>5, <2>1 DEF UpToDate
  <2> QED BY <1>1, <1>8, <2>1, <2>2 DEF ListInv, ShownIsCurrent
<1> QED BY <1>4, <1>6, <1>7, <1>9, <1>10 DEF ListInv

(* A play moves the song's row to the end of the recents.                  *)
LEMMA PlayKeeps ==
  ASSUME ListInv, NEW s \in SongIDs, Play(s) PROVE ListInv'
<1> DEFINE t == tables["recent"]
<1>1. /\ "recent" \in Kinds /\ t \in Table /\ since["recent"] \in [SongIDs -> Nat]
      /\ clock \in Nat /\ InStep(t, since["recent"])
      /\ \A q \in SongIDs : since["recent"][q] < clock + 1
  <2>1. "recent" \in Kinds
    BY DEF Kinds
  <2> QED BY <2>1 DEF ListInv, ListTypes, TablesInStep
<1>2. Write("recent", s, insertOrReplaceRow(t, s), clock + 1)
  BY DEF Play, addRecentPlaySong
<1>3. insertOrReplaceRow(t, s) \in Table
  BY <1>1, InsertOrReplaceValue
<1>4. InStep(insertOrReplaceRow(t, s), [since["recent"] EXCEPT ![s] = clock + 1])
  BY <1>1, InsertedInStep
<1> HIDE DEF t
<1> QED BY <1>1, <1>2, <1>3, <1>4, WriteKeeps

(* A like adds a row at the end of the table, an unlike takes it out.      *)
LEMMA TapKeeps ==
  ASSUME ListInv, NEW s \in SongIDs, TapLikedButton(s) PROVE ListInv'
<1> DEFINE t == tables["liked"]
<1>1. /\ "liked" \in Kinds /\ t \in Table /\ since["liked"] \in [SongIDs -> Nat]
      /\ clock \in Nat /\ InStep(t, since["liked"])
      /\ \A q \in SongIDs : since["liked"][q] < clock + 1
  <2>1. "liked" \in Kinds
    BY DEF Kinds
  <2> QED BY <2>1 DEF ListInv, ListTypes, TablesInStep
<1>2. \/ Write("liked", s, deleteRow(t, s), 0)
      \/ Write("liked", s, insertOrReplaceRow(t, s), clock + 1)
  BY DEF TapLikedButton, unLikeSong, likeSong
<1>3. /\ insertOrReplaceRow(t, s) \in Table /\ deleteRow(t, s) \in Table
      /\ InStep(insertOrReplaceRow(t, s), [since["liked"] EXCEPT ![s] = clock + 1])
      /\ InStep(deleteRow(t, s), [since["liked"] EXCEPT ![s] = 0])
  <2>1. insertOrReplaceRow(t, s) \in Table /\ deleteRow(t, s) \in Table
    BY <1>1, InsertOrReplaceValue, DeleteRowValue
  <2>2. clock + 1 \in Nat
    BY <1>1
  <2>3. InStep(insertOrReplaceRow(t, s), [since["liked"] EXCEPT ![s] = clock + 1])
    BY <1>1, <2>2, InsertedInStep
  <2>4. InStep(deleteRow(t, s), [since["liked"] EXCEPT ![s] = 0])
    BY <1>1, RemovedInStep
  <2> QED BY <2>1, <2>3, <2>4
<1> HIDE DEF t
<1>4. CASE Write("liked", s, deleteRow(t, s), 0)
  <2>1. 0 \in Nat /\ 0 <= clock + 1
    BY <1>1
  <2> QED BY <1>1, <1>3, <1>4, <2>1, WriteKeeps
<1>5. CASE Write("liked", s, insertOrReplaceRow(t, s), clock + 1)
  <2>1. clock + 1 \in Nat /\ clock + 1 <= clock + 1
    BY <1>1
  <2> QED BY <1>1, <1>3, <1>5, <2>1, WriteKeeps
<1> QED BY <1>2, <1>4, <1>5

(* A page is pushed, appears again or is popped: none of them is up to     *)
(* date before it has read.                                                *)
LEMMA AppearancesKeep ==
  ASSUME ListInv,
         \/ \E k \in Kinds : didSelectItem(k)
         \/ viewWillAppear \/ goBack
  PROVE  ListInv'
<1>1. ListTypes
  BY DEF ListInv
<1>2. UNCHANGED <<tables, since, clock, changedAt>>
  BY DEF didSelectItem, viewWillAppear, goBack, database
<1>3. \/ read' = << >> /\ appearedAt' \in {appearedAt, clock}
         /\ open' \in Kinds \cup {"menu"} /\ waiting' \in Nat
         /\ (open' = "menu" \/ waiting' = 1)
      \/ /\ UNCHANGED <<open, read>> /\ appearedAt' = clock /\ waiting' = waiting + 1
  <2>1. CASE \E k \in Kinds : didSelectItem(k)
    BY <2>1 DEF didSelectItem
  <2>2. CASE viewWillAppear
    BY <2>2 DEF viewWillAppear
  <2>3. CASE goBack
    BY <2>3 DEF goBack
  <2> QED BY <2>1, <2>2, <2>3
<1>4. read' \in Seq([rows : Seq(SongIDs), time : Nat]) /\ waiting' \in Nat
      /\ appearedAt' \in Nat /\ open' \in Kinds \cup {"menu"} /\ appearedAt' <= clock
  <2>1. clock \in Nat /\ appearedAt \in Nat /\ appearedAt <= clock /\ waiting \in Nat
    BY DEF ListTypes, ListInv, ClockIsLast
  <2>2. read' = << >> \/ read' = read
    BY <1>3
  <2>3. read' \in Seq([rows : Seq(SongIDs), time : Nat])
    BY <1>1, <2>2, EmptySeq DEF ListTypes
  <2>4. waiting' \in Nat /\ appearedAt' \in Nat /\ appearedAt' <= clock
    BY <1>3, <2>1
  <2>5. open' \in Kinds \cup {"menu"}
    BY <1>1, <1>3 DEF ListTypes
  <2> QED BY <2>3, <2>4, <2>5
<1>5. ListTypes'
  BY <1>1, <1>2, <1>4 DEF ListTypes
<1>6. TablesInStep'
  BY <1>2 DEF ListInv, TablesInStep, InStep
<1>7. \A k : Query(k)' = Query(k)
  BY <1>2 DEF Query, getRecentPlaySongs
<1>8. ClockIsLast' /\ ReadsAreCurrent'
  <2>1. CASE read' = << >>
    <3>1. \A i : i \notin 1 .. Len(read')
      BY <2>1, EmptySeq
    <3> QED BY <1>2, <1>4, <3>1 DEF ListInv, ClockIsLast, ReadsAreCurrent
  <2>2. CASE UNCHANGED <<open, read>>
    BY <1>2, <1>4, <1>7, <2>2 DEF ListInv, ClockIsLast, ReadsAreCurrent
  <2> QED BY <1>3, <2>1, <2>2
<1>9. ShownIsCurrent'
  <2>1. \A k \in Kinds : k # "menu"
    BY DEF Kinds
  <2>2. open' = "menu" \/ waiting' # 0
    BY <1>1, <1>3 DEF ListTypes
  <2> QED BY <2>1, <2>2 DEF ShownIsCurrent, UpToDate
<1> QED BY <1>5, <1>6, <1>8, <1>9 DEF ListInv

(* A block reads the table as it is.                                       *)
LEMMA ReadTableKeeps == ASSUME ListInv, ReadTable PROVE ListInv'
<1> DEFINE R == [rows : Seq(SongIDs), time : Nat]
<1>1. ListTypes /\ read \in Seq(R) /\ clock \in Nat
  BY DEF ListInv, ListTypes
<1>2. /\ UNCHANGED <<tables, since, clock, changedAt, open, appearedAt>>
      /\ waiting > 0 /\ waiting' = waiting - 1
  BY DEF ReadTable, database
<1>3. PICK r : r = [rows |-> IF open = "liked" THEN getAllLikeSong(tables["liked"])
                             ELSE getRecentPlaySongs(tables["recent"], limit),
                    time |-> clock]
               /\ read' = Append(read, r)
  BY DEF ReadTable
<1>4. r.rows = Query(open) /\ r.time = clock /\ r \in R
  <2>1. r.rows = Query(open) /\ r.time = clock
    BY <1>3 DEF Query, getAllLikeSong
  <2>2. Query(open) \in Seq(SongIDs)
    <3>1. Query(open) = Query(IF open = "liked" THEN "liked" ELSE "recent")
      BY DEF Query
    <3>2. (IF open = "liked" THEN "liked" ELSE "recent") \in Kinds
      BY DEF Kinds
    <3> QED BY <1>1, <3>1, <3>2, QueryType
  <2>3. r = [rows |-> Query(open), time |-> clock]
    BY <1>3 DEF Query, getAllLikeSong
  <2> QED BY <1>1, <2>1, <2>2, <2>3
<1> HIDE DEF R
<1>5. /\ read' \in Seq(R) /\ Len(read) \in Nat /\ Len(read') = Len(read) + 1
      /\ read'[Len(read) + 1] = r
      /\ \A i \in 1 .. Len(read) : read'[i] = read[i]
  BY <1>1, <1>3, <1>4, AppendProperties, LenProperties
<1>6. waiting' \in Nat
  BY <1>1, <1>2 DEF ListTypes
<1>7. ListTypes'
  BY <1>1, <1>2, <1>5, <1>6 DEF ListTypes, R
<1>8. TablesInStep'
  BY <1>2 DEF ListInv, TablesInStep, InStep
<1>9. \A k : Query(k)' = Query(k)
  BY <1>2 DEF Query, getRecentPlaySongs
<1>10. ASSUME NEW i \in 1 .. Len(read')
       PROVE  /\ read'[i].time <= clock
              /\ open \in Kinds /\ read'[i].time >= changedAt[open]
                   => read'[i].rows = Query(open)
  <2>1. CASE i \in 1 .. Len(read)
    BY <1>5, <2>1 DEF ListInv, ClockIsLast, ReadsAreCurrent
  <2>2. CASE i = Len(read) + 1
    BY <1>1, <1>4, <1>5, <2>2
  <2> QED BY <1>5, <2>1, <2>2
<1>11. ClockIsLast' /\ ReadsAreCurrent'
  BY <1>2, <1>9, <1>10 DEF ListInv, ClockIsLast, ReadsAreCurrent
<1>12. ShownIsCurrent'
  <2>1. read' # << >>
    BY <1>5, EmptySeq
  <2> QED BY <2>1 DEF ShownIsCurrent, UpToDate
<1> QED BY <1>7, <1>8, <1>11, <1>12 DEF ListInv

(* A list that is not outrun was read after the page appeared, so after    *)
(* the last change if the page is up to date.                              *)
LEMMA ShowListKeeps == ASSUME ListInv, ShowList PROVE ListInv'
<1> DEFINE R == [rows : Seq(SongIDs), time : Nat]
<1>1. ListTypes /\ read \in Seq(R) /\ Len(read) \in Nat
  BY LenProperties DEF ListInv, ListTypes
<1>2. UNCHANGED <<tables, since, clock, changedAt, open, appearedAt, waiting>>
  BY DEF ShowList, database
<1>3. PICK k \in 1 .. Len(read) :
        /\ read' = SubSeq(read, 1, k - 1) \o SubSeq(read, k + 1, Len(read))
        /\ allmodels' = read[k].rows /\ outrun' = (read[k].time < appearedAt)
  BY DEF ShowList, RemoveAt
<1> HIDE DEF R
<1>4. /\ read' \in Seq(R) /\ Len(read') = Len(read) - 1
      /\ \A i \in 1 .. Len(read) - 1 :
           read'[i] = IF i < k THEN read[i] ELSE read[i + 1]
  BY <1>1, <1>3, RemovedEntry
<1>5. ListTypes'
  BY <1>1, <1>2, <1>4 DEF ListTypes, R
<1>6. TablesInStep'
  BY <1>2 DEF ListInv, TablesInStep, InStep
<1>7. \A j : Query(j)' = Query(j)
  BY <1>2 DEF Query, getRecentPlaySongs
<1>8. \A i \in 1 .. Len(read') : \E j \in 1 .. Len(read) : read'[i] = read[j]
  <2> SUFFICES ASSUME NEW i \in 1 .. Len(read')
               PROVE  \E j \in 1 .. Len(read) : read'[i] = read[j]
    OBVIOUS
  <2>1. i \in 1 .. Len(read) - 1 /\ i \in 1 .. Len(read) /\ i + 1 \in 1 .. Len(read)
    BY <1>1, <1>4
  <2>2. read'[i] = read[i] \/ read'[i] = read[i + 1]
    BY <1>4, <2>1
  <2> QED BY <2>1, <2>2
<1>9. ClockIsLast'
  BY <1>2, <1>8 DEF ListInv, ClockIsLast
<1>10. ReadsAreCurrent'
  BY <1>2, <1>7, <1>8 DEF ListInv, ReadsAreCurrent
<1>11. ShownIsCurrent'
  <2> SUFFICES ASSUME NEW j \in Kinds, UpToDate(j)' PROVE allmodels' = Query(j)'
    BY DEF ShownIsCurrent
  <2>1. open = j /\ appearedAt >= changedAt[j] /\ ~outrun'
    BY <1>2 DEF UpToDate
  <2>2. ~(read[k].time < appearedAt)
    BY <1>3, <2>1, Zenon
  <2>3. read[k].time \in Nat /\ appearedAt \in Nat /\ changedAt[j] \in Nat
    <3>1. read[k] \in R
      BY <1>1, ElementOfSeq
    <3> QED BY <1>1, <3>1 DEF R, ListTypes
  <2>4. read[k].time >= changedAt[j]
    BY <2>1, <2>2, <2>3
  <2> QED BY <1>3, <1>7, <2>1, <2>4 DEF ListInv, ReadsAreCurrent
<1> QED BY <1>5, <1>6, <1>9, <1>10, <1>11 DEF ListInv

(* The lists and tables satisfy the invariant at first and keep it.        *)
LEMMA Inductive == Spec => []ListInv
<1>1. Init => ListInv
  <2> SUFFICES ASSUME Init PROVE ListInv
    OBVIOUS
  <2>1. /\ << >> \in Table /\ Len(<< >>) = 0 /\ \A s : ~hasRow(<< >>, s)
        /\ << >> \in Seq([rows : Seq(SongIDs), time : Nat])
    BY EmptySeq DEF Table, hasRow
  <2>2. ListTypes
    BY <2>1, Bounds DEF Init, ListTypes
  <2>3. TablesInStep
    BY <2>1 DEF Init, TablesInStep, InStep
  <2>4. ClockIsLast /\ ReadsAreCurrent
    BY <2>1 DEF Init, ClockIsLast, ReadsAreCurrent
  <2>5. ShownIsCurrent
    BY DEF Init, ShownIsCurrent, UpToDate, Kinds
  <2> QED BY <2>2, <2>3, <2>4, <2>5 DEF ListInv
<1>2. ListInv /\ [Next]_vars => ListInv'
  <2> SUFFICES ASSUME ListInv, [Next]_vars PROVE ListInv'
    OBVIOUS
  <2>1. CASE UNCHANGED vars
    BY <2>1 DEF vars, database, page, ListInv, ListTypes, TablesInStep, InStep,
       ClockIsLast, ReadsAreCurrent, ShownIsCurrent, UpToDate, Query, getRecentPlaySongs
  <2>2. CASE Next
    BY <2>2, PlayKeeps, TapKeeps, AppearancesKeep, ReadTableKeeps, ShowListKeeps DEF Next
  <2> QED BY <2>1, <2>2
<1> QED BY <1>1, <1>2, PTL DEF Spec

(* A page of the liked songs that is up to date lists what is liked, each  *)
(* song once, in the order of the likes, whatever reads overtook others.   *)
THEOREM LikedPageExact == Spec => []LikedListExact
<1>1. ListInv => LikedListExact
  <2> SUFFICES ASSUME ListInv, UpToDate("liked") PROVE Exact("liked")
    BY DEF LikedListExact
  <2>1. "liked" \in Kinds /\ allmodels = tables["liked"]
    BY DEF ListInv, ShownIsCurrent, Query, Kinds
  <2> QED BY <2>1 DEF ListInv, TablesInStep, InStep, Exact
<1> QED BY <1>1, Inductive, PTL

(* So does a page of the recents while LIMIT cuts nothing off.             *)
THEOREM RecentsComplete == Spec => []CompleteBelowLimit
<1>1. ListInv => CompleteBelowLimit
  <2> SUFFICES ASSUME ListInv, UpToDate("recent"), Len(tables["recent"]) <= limit
               PROVE  Exact("recent")
    BY DEF CompleteBelowLimit
  <2>1. "recent" \in Kinds /\ allmodels = Query("recent")
    BY DEF ListInv, ShownIsCurrent, Kinds
  <2>2. allmodels = tables["recent"]
    BY <2>1, QueryType DEF ListInv
  <2> QED BY <2>1, <2>2 DEF ListInv, TablesInStep, InStep, Exact
<1> QED BY <1>1, Inductive, PTL
=============================================================================
