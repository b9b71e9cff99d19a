-------------------------- MODULE MusicCacheProofs --------------------------
(***************************************************************************)
(* Proofs about MusicCache, for any songs, sizes, limit and number of      *)
(* downloads: what checkAndPruneCache achieves while the handlers of the   *)
(* session's queue replace files under it.                                 *)
(***************************************************************************)
EXTENDS MusicCache, TLAPS, FiniteSetTheorems

-----------------------------------------------------------------------------
(* The inductive invariant *)

Handling(s) == bg # Idle /\ bg.song = s
Listed == {s \in SongIDs : infos[s] > 0}
Pruning == main \in {"stat", "evict"}

(* A download under way was so when the last prune listed the directory,   *)
(* which is the last thing to start one.                                   *)
UnderWayListed == \A s \in SongIDs : tasks[s] > 0 \/ Handling(s) => s \in inFlight

(* While the main queue prunes, only handlers touch the files: what it has *)
(* read of a file that was not being downloaded is still so.               *)
ReadsHold ==
  Pruning => \A s \in SongIDs \ (inFlight \cup evicted \cup names) : infos[s] = date[s]
EvictedGone == Pruning => \A s \in evicted \ (inFlight \cup stuck) : date[s] = 0
PhaseOK ==
  /\ main # "idle" => ~pruned
  /\ main = "stat" => evicted = {}
  /\ main = "evict" => names = {}
  /\ main \in {"stat", "evict"} => evicted \subseteq Listed
  /\ main \in {"idle"} => Listed = {}
  /\ \A s \in names : infos[s] = 0

(* No date is given twice.                                                 *)
DatesUnique ==
  \A s, t \in SongIDs : s # t =>
    /\ date[s] > 0 => date[s] # date[t]
    /\ infos[s] > 0 => infos[s] # infos[t] /\ infos[s] # date[t]

(* totalSizes is the size of what is listed and not dealt with.            *)
TotalExact ==
  Pruning => IsFiniteSet(BytesOf(Listed)) /\ totalSizes = Bytes(Candidates)

(* Oldest first: what has been dealt with is older than the rest, and did  *)
(* not fit together with what is more recent.                              *)
OldestFirst ==
  main = "evict" => \A s \in evicted :
    /\ \A t \in Candidates : infos[s] < infos[t]
    /\ Bytes({t \in SongIDs : infos[t] >= infos[s]}) >= maxCacheSize

IInv ==
  /\ TypeOK /\ SizeBound /\ MissingOnlyMidReplace
  /\ UnderWayListed /\ ReadsHold /\ EvictedGone /\ PhaseOK
  /\ DatesUnique /\ TotalExact /\ OldestFirst

-----------------------------------------------------------------------------
(* Bytes *)

(* A file has as many bytes as its size says.                              *)
LEMMA FileBytes ==
  ASSUME NEW s \in SongIDs
  PROVE  IsFiniteSet({s} \X (1 .. Size[s])) /\ Cardinality({s} \X (1 .. Size[s])) = Size[s]
<1>1. Size[s] \in Nat /\ Size[s] >= 1
  BY SizeAssumption
<1>2. IsFiniteSet({s}) /\ Cardinality({s}) = 1
  BY FS_Singleton
<1>3. IsFiniteSet(1 .. Size[s]) /\ Cardinality(1 .. Size[s]) = Size[s]
  BY <1>1, FS_Interval
<1>4. IsFiniteSet({s} \X (1 .. Size[s])) /\ Cardinality({s} \X (1 .. Size[s])) = 1 * Size[s]
  BY <1>2, <1>3, FS_Product
<1> QED BY <1>1, <1>4

(* Fewer files take no more room.                                          *)
LEMMA BytesMonotone ==
  ASSUME NEW T, IsFiniteSet(BytesOf(T)), NEW S \in SUBSET T
  PROVE  IsFiniteSet(BytesOf(S)) /\ Bytes(S) \in Nat /\ Bytes(T) \in Nat /\ Bytes(S) <= Bytes(T)
<1>1. BytesOf(S) \in SUBSET BytesOf(T)
  BY DEF BytesOf
<1> QED BY <1>1, FS_Subset, FS_CardinalityType DEF Bytes

(* One file more takes as much room more as it has bytes.                  *)
LEMMA BytesAdd ==
  ASSUME NEW S, IsFiniteSet(BytesOf(S)), NEW s \in SongIDs \ S
  PROVE  IsFiniteSet(BytesOf(S \cup {s})) /\ Bytes(S \cup {s}) = Bytes(S) + Size[s]
<1> DEFINE F == {s} \X (1 .. Size[s])
<1>1. BytesOf(S \cup {s}) = BytesOf(S) \cup F
  BY DEF BytesOf
<1>2. BytesOf(S) \cap F = {}
  BY DEF BytesOf
<1>3. IsFiniteSet(F) /\ Cardinality(F) = Size[s] /\ Size[s] \in Nat
  BY FileBytes, SizeAssumption
<1>4. Cardinality(BytesOf(S)) \in Nat
  BY FS_CardinalityType
<1> HIDE DEF F
<1>5. /\ IsFiniteSet(BytesOf(S) \cup F)
      /\ Cardinality(BytesOf(S) \cup F)
           = Cardinality(BytesOf(S)) + Cardinality(F) - Cardinality(BytesOf(S) \cap F)
  BY <1>3, FS_Union
<1>6. Cardinality(BytesOf(S) \cap F) = 0
  BY <1>2, FS_EmptySet
<1>7. Cardinality(BytesOf(S) \cup F) = Cardinality(BytesOf(S)) + Size[s]
  BY <1>3, <1>4, <1>5, <1>6
<1> QED BY <1>1, <1>5, <1>7 DEF Bytes

(* No files take no room.                                                  *)
LEMMA NoBytes == IsFiniteSet(BytesOf({})) /\ Bytes({}) = 0
BY FS_EmptySet DEF BytesOf, Bytes

(* One file taken out.                                                     *)
LEMMA BytesRemove ==
  ASSUME NEW S, IsFiniteSet(BytesOf(S)), NEW s \in SongIDs \cap S
  PROVE  /\ Bytes(S \ {s}) = Bytes(S) - Size[s] /\ Bytes(S \ {s}) \in Nat
<1>1. IsFiniteSet(BytesOf(S \ {s})) /\ Bytes(S \ {s}) \in Nat
  BY BytesMonotone
<1>2. (S \ {s}) \cup {s} = S
  OBVIOUS
<1>3. Bytes(S) = Bytes(S \ {s}) + Size[s]
  BY <1>1, <1>2, BytesAdd
<1> QED BY <1>1, <1>3, SizeAssumption

-----------------------------------------------------------------------------
(* Steps that leave the prune alone *)

Busy == [pc : {"remove", "move"}, song : SongIDs]

(* A handler at work is told from none by its next operation.              *)
LEMMA HandlerValue ==
  /\ \A b \in Busy : b # Idle /\ b.song \in SongIDs /\ b.pc \in {"remove", "move"}
  /\ \A b \in Handler : b.pc \in {"remove", "move"} => b \in Busy
  /\ Busy \subseteq Handler /\ Idle \in Handler
BY DEF Busy, Idle, Handler

(* A step of the net, a handler or a touch: the files that were not being  *)
(* downloaded keep their dates, or at least stay, if no prune is at work.  *)
PruneAside ==
  /\ UNCHANGED pruneVars
  /\ requests' \in [SongIDs -> 0 .. maxTasks] /\ tasks' \in [SongIDs -> 0 .. maxTasks]
  /\ bg' \in Handler /\ UnderWayListed'
  /\ clock' \in 0 .. maxClock /\ clock <= clock' /\ date' \in [SongIDs -> 0 .. clock']
  /\ \A s \in SongIDs \ inFlight :
       date'[s] = date[s] \/ (main = "idle" /\ (date'[s] > 0 <=> date[s] > 0))

(* Such a step keeps the invariant if it gives no date twice.              *)
LEMMA AsideKeeps ==
  ASSUME IInv, PruneAside, DatesUnique'
  PROVE  IInv'
<1>1. /\ main' = main /\ names' = names /\ infos' = infos /\ totalSizes' = totalSizes
      /\ evicted' = evicted /\ stuck' = stuck /\ inFlight' = inFlight /\ pruned' = pruned
  BY DEF PruneAside, pruneVars
<1>2. /\ TypeOK /\ SizeBound /\ MissingOnlyMidReplace
      /\ UnderWayListed /\ ReadsHold /\ EvictedGone /\ PhaseOK
      /\ DatesUnique /\ TotalExact /\ OldestFirst
  BY DEF IInv
<1>3. clock \in Nat /\ clock' \in Nat /\ infos \in [SongIDs -> 0 .. clock'] /\ maxClock \in Nat
  BY <1>2, LimitAssumption DEF TypeOK, PruneAside
<1>4. TypeOK'
  BY <1>1, <1>2, <1>3 DEF PruneAside, TypeOK
<1>5. Listed' = Listed /\ Candidates' = Candidates /\ (Pruning' <=> Pruning)
  BY <1>1 DEF Listed, Candidates, Pruning
<1>6. \A s \in SongIDs \ inFlight : s \in Cached' <=> s \in Cached
  BY <1>2 DEF Cached, PruneAside
<1>7. SizeBound'
  <2>1. Cached' \ (inFlight' \cup stuck') = Cached \ (inFlight \cup stuck)
    BY <1>1, <1>6 DEF Cached
  <2> QED BY <1>1, <1>2, <2>1 DEF SizeBound
<1>8. MissingOnlyMidReplace'
  BY <1>1, <1>2, <1>6 DEF MissingOnlyMidReplace, TypeOK
<1>9. ReadsHold'
  BY <1>1, <1>2 DEF ReadsHold, PruneAside, Pruning
<1>10. EvictedGone'
  BY <1>1, <1>2 DEF EvictedGone, PruneAside, Pruning, TypeOK
<1>11. PhaseOK' /\ TotalExact' /\ OldestFirst'
  BY <1>1, <1>2, <1>5 DEF PhaseOK, TotalExact, OldestFirst, Bytes, BytesOf
<1> QED BY <1>4, <1>7, <1>8, <1>9, <1>10, <1>11 DEF IInv, PruneAside

(* The clock's next value is a date no file and no listed name has.        *)
LEMMA NewDate ==
  ASSUME TypeOK, DatesUnique, NEW s \in SongIDs, clock < maxClock, clock' = clock + 1,
         date' = [date EXCEPT ![s] = clock + 1], infos' = infos
  PROVE  /\ DatesUnique' /\ clock' \in 0 .. maxClock /\ clock <= clock'
         /\ date' \in [SongIDs -> 0 .. clock'] /\ date'[s] > 0
         /\ \A t \in SongIDs : t # s => date'[t] = date[t]
<1>1. clock \in Nat /\ maxClock \in Nat
  BY LimitAssumption DEF TypeOK
<1>2. /\ \A t \in SongIDs : date[t] \in 0 .. clock /\ infos[t] \in 0 .. clock
      /\ date'[s] = clock + 1 /\ \A t \in SongIDs : t # s => date'[t] = date[t]
  BY DEF TypeOK
<1>3. DatesUnique'
  <2> SUFFICES ASSUME NEW a \in SongIDs, NEW b \in SongIDs, a # b
               PROVE  /\ date'[a] > 0 => date'[a] # date'[b]
                      /\ infos[a] > 0 => infos[a] # infos[b] /\ infos[a] # date'[b]
    BY DEF DatesUnique
  <2>1. /\ date[a] > 0 => date[a] # date[b]
        /\ infos[a] > 0 => infos[a] # infos[b] /\ infos[a] # date[b]
        /\ date[b] > 0 => date[b] # date[a]
    BY DEF DatesUnique
  <2>2. /\ date[a] \in 0 .. clock /\ infos[a] \in 0 .. clock
        /\ date[b] \in 0 .. clock /\ infos[b] \in 0 .. clock
    BY <1>2
  <2> QED BY <1>1, <1>2, <2>1, <2>2
<1>4. date' \in [SongIDs -> 0 .. clock']
  BY <1>1 DEF TypeOK
<1> QED BY <1>1, <1>2, <1>3, <1>4

(* The steps that only count requests and tasks.                           *)
LEMMA NetKeeps ==
  ASSUME IInv, NEW s \in SongIDs, Request(s) \/ RequestFails(s) \/ TaskFails(s)
  PROVE  IInv'
<1>1. /\ UNCHANGED <<diskVars, bg, pruneVars>>
      /\ \/ requests' = [requests EXCEPT ![s] = @ + 1] /\ requests[s] < maxTasks /\ tasks' = tasks
         \/ requests' = [requests EXCEPT ![s] = @ - 1] /\ requests[s] > 0 /\ tasks' = tasks
         \/ tasks' = [tasks EXCEPT ![s] = @ - 1] /\ tasks[s] > 0 /\ requests' = requests
  BY DEF Request, RequestFails, TaskFails
<1>2. TypeOK /\ UnderWayListed /\ DatesUnique
  BY DEF IInv
<1>3. requests' \in [SongIDs -> 0 .. maxTasks] /\ tasks' \in [SongIDs -> 0 .. maxTasks]
  BY <1>1, <1>2, LimitAssumption DEF TypeOK
<1>4. \A t \in SongIDs : tasks'[t] > 0 => tasks[t] > 0
  BY <1>1, <1>2, LimitAssumption DEF TypeOK
<1>5. UnderWayListed'
  BY <1>1, <1>2, <1>4 DEF UnderWayListed, Handling, pruneVars
<1>6. DatesUnique'
  BY <1>1, <1>2 DEF DatesUnique, diskVars, pruneVars
<1>7. PruneAside
  BY <1>1, <1>2, <1>3, <1>5 DEF PruneAside, TypeOK, diskVars
<1> QED BY <1>6, <1>7, AsideKeeps

(* A cached song is played.                                                *)
LEMMA TouchKeeps ==
  ASSUME IInv, NEW s \in SongIDs, touchFileToCheckIn(s)
  PROVE  IInv'
<1>1. /\ main = "idle" /\ s \in Cached /\ clock < maxClock /\ clock' = clock + 1
      /\ date' = [date EXCEPT ![s] = clock + 1]
      /\ UNCHANGED <<netVars, bg, pruneVars>>
  BY DEF touchFileToCheckIn
<1>2. TypeOK /\ UnderWayListed /\ DatesUnique
  BY DEF IInv
<1>3. /\ DatesUnique' /\ clock' \in 0 .. maxClock /\ clock <= clock'
      /\ date' \in [SongIDs -> 0 .. clock'] /\ date'[s] > 0
      /\ \A t \in SongIDs : t # s => date'[t] = date[t]
  BY <1>1, <1>2, NewDate DEF pruneVars
<1>4. UnderWayListed'
  BY <1>1, <1>2 DEF UnderWayListed, Handling, netVars, pruneVars
<1>5. date[s] > 0
  BY <1>1 DEF Cached
<1>6. PruneAside
  BY <1>1, <1>2, <1>3, <1>4, <1>5 DEF PruneAside, TypeOK, netVars
<1> QED BY <1>3, <1>6, AsideKeeps

(* A handler takes a task's song.                                          *)
LEMMA HandlerBeginsKeeps ==
  ASSUME IInv, NEW s \in SongIDs, HandlerBegins(s)
  PROVE  IInv'
<1>1. /\ bg = Idle /\ tasks[s] > 0 /\ tasks' = [tasks EXCEPT ![s] = @ - 1]
      /\ bg' = [pc |-> IF s \in Cached THEN "remove" ELSE "move", song |-> s]
      /\ UNCHANGED <<diskVars, requests, pruneVars>>
  BY DEF HandlerBegins
<1>2. TypeOK /\ UnderWayListed /\ DatesUnique
  BY DEF IInv
<1>3. bg' \in Handler /\ bg'.song = s
  BY <1>1 DEF Handler
<1>4. tasks' \in [SongIDs -> 0 .. maxTasks] /\ \A t \in SongIDs : tasks'[t] > 0 => tasks[t] > 0
  BY <1>1, <1>2, LimitAssumption DEF TypeOK
<1>5. UnderWayListed'
  BY <1>1, <1>2, <1>3, <1>4 DEF UnderWayListed, Handling, pruneVars
<1>6. DatesUnique'
  BY <1>1, <1>2 DEF DatesUnique, diskVars, pruneVars
<1>7. PruneAside
  BY <1>1, <1>2, <1>3, <1>4, <1>5 DEF PruneAside, TypeOK, diskVars
<1> QED BY <1>6, <1>7, AsideKeeps

(* A handler at work has a song that is in flight.                         *)
LEMMA HandlerAt ==
  ASSUME TypeOK, UnderWayListed, bg.pc \in {"remove", "move"}
  PROVE  bg \in Busy /\ bg # Idle /\ bg.song \in SongIDs /\ bg.song \in inFlight
<1>1. bg \in Busy
  BY HandlerValue DEF TypeOK
<1> QED BY <1>1, HandlerValue DEF UnderWayListed, Handling

(* It removes the file it found.                                           *)
LEMMA HandlerRemovesKeeps ==
  ASSUME IInv, NEW ok \in BOOLEAN, HandlerRemoves(ok)
  PROVE  IInv'
<1>1. /\ bg.pc = "remove" /\ bg' = [bg EXCEPT !.pc = "move"]
      /\ date' = IF ok THEN [date EXCEPT ![bg.song] = 0] ELSE date
      /\ UNCHANGED <<clock, netVars, pruneVars>>
  BY DEF HandlerRemoves
<1>2. TypeOK /\ UnderWayListed /\ DatesUnique
  BY DEF IInv
<1>3. bg \in Busy /\ bg # Idle /\ bg.song \in SongIDs /\ bg.song \in inFlight
  BY <1>1, <1>2, HandlerAt
<1>4. bg' \in Busy /\ bg'.song = bg.song
  BY <1>1, <1>3 DEF Busy
<1>5. UnderWayListed'
  BY <1>1, <1>2, <1>3, <1>4 DEF UnderWayListed, Handling, netVars, pruneVars
<1>6. /\ date' \in [SongIDs -> 0 .. clock] /\ \A s \in SongIDs : s # bg.song => date'[s] = date[s]
      /\ date'[bg.song] = 0 \/ date'[bg.song] = date[bg.song]
  BY <1>1, <1>2, <1>3 DEF TypeOK
<1>7. DatesUnique'
  <2>1. infos' = infos
    BY <1>1 DEF pruneVars
  <2>2. \A s \in SongIDs : date'[s] = 0 \/ date'[s] = date[s]
    BY <1>6
  <2> QED BY <1>2, <2>1, <2>2 DEF DatesUnique, TypeOK
<1>8. PruneAside
  BY <1>1, <1>2, <1>3, <1>4, <1>5, <1>6, HandlerValue DEF PruneAside, TypeOK, netVars
<1> QED BY <1>7, <1>8, AsideKeeps

(* It moves the new file into place, or fails to.                          *)
LEMMA HandlerMovesKeeps ==
  ASSUME IInv, HandlerMoves \/ HandlerMoveFails
  PROVE  IInv'
<1>1. bg.pc = "move" /\ bg' = Idle /\ UNCHANGED <<netVars, pruneVars>>
  BY DEF HandlerMoves, HandlerMoveFails
<1>2. TypeOK /\ UnderWayListed /\ DatesUnique
  BY DEF IInv
<1>3. bg.song \in SongIDs /\ bg.song \in inFlight
  BY <1>1, <1>2, HandlerAt
<1>4. UnderWayListed'
  BY <1>1, <1>2 DEF UnderWayListed, Handling, netVars, pruneVars
<1>5. CASE HandlerMoves
  <2>1. /\ DatesUnique' /\ clock' \in 0 .. maxClock /\ clock <= clock'
        /\ date' \in [SongIDs -> 0 .. clock']
        /\ \A t \in SongIDs : t # bg.song => date'[t] = date[t]
    BY <1>2, <1>3, <1>5, NewDate DEF HandlerMoves, pruneVars
  <2>2. PruneAside
    BY <1>1, <1>2, <1>3, <1>4, <2>1, HandlerValue DEF PruneAside, TypeOK, netVars
  <2> QED BY <2>1, <2>2, AsideKeeps
<1>6. CASE HandlerMoveFails
  <2>1. clock' = clock /\ date' = date
    BY <1>6 DEF HandlerMoveFails, diskVars
  <2>2. DatesUnique'
    BY <1>1, <1>2, <2>1 DEF DatesUnique, pruneVars
  <2>3. PruneAside
    BY <1>1, <1>2, <1>4, <2>1, HandlerValue DEF PruneAside, TypeOK, netVars
  <2> QED BY <2>2, <2>3, AsideKeeps
<1> QED BY <1>5, <1>6

-----------------------------------------------------------------------------
(* The prune *)

(* A prune lists the directory when the task has started.                  *)
LEMMA DownloadKeeps ==
  ASSUME IInv, NEW s \in SongIDs, downLoadSongInBackGround(s)
  PROVE  IInv'
<1>1. /\ requests[s] > 0 /\ tasks[s] < maxTasks
      /\ requests' = [requests EXCEPT ![s] = @ - 1] /\ tasks' = [tasks EXCEPT ![s] = @ + 1]
      /\ main' = "stat" /\ names' = Cached /\ infos' = [t \in SongIDs |-> 0]
      /\ totalSizes' = 0 /\ evicted' = {} /\ stuck' = {} /\ pruned' = FALSE
      /\ inFlight' = {t \in SongIDs : tasks'[t] > 0 \/ (bg # Idle /\ bg.song = t)}
      /\ date' = date /\ clock' = clock /\ bg' = bg
  BY DEF downLoadSongInBackGround, diskVars
<1>2. TypeOK /\ DatesUnique
  BY DEF IInv
<1>3. requests' \in [SongIDs -> 0 .. maxTasks] /\ tasks' \in [SongIDs -> 0 .. maxTasks]
  BY <1>1, <1>2, LimitAssumption DEF TypeOK
<1>4. TypeOK'
  <2>1. infos' \in [SongIDs -> 0 .. clock']
    BY <1>1, <1>2 DEF TypeOK
  <2>2. pruned' \in BOOLEAN
    BY <1>1
  <2>3. names' \subseteq SongIDs /\ inFlight' \subseteq SongIDs
    BY <1>1 DEF Cached
  <2> QED BY <1>1, <1>2, <1>3, <2>1, <2>2, <2>3 DEF TypeOK
<1>5. SizeBound' /\ MissingOnlyMidReplace' /\ UnderWayListed'
  BY <1>1 DEF SizeBound, MissingOnlyMidReplace, UnderWayListed, Handling, Cached
<1>6. ReadsHold' /\ EvictedGone' /\ PhaseOK'
  BY <1>1, <1>2 DEF ReadsHold, EvictedGone, PhaseOK, Listed, Pruning, Cached, TypeOK
<1>7. DatesUnique'
  BY <1>1, <1>2 DEF DatesUnique
<1>8. TotalExact' /\ OldestFirst'
  <2>1. Listed' = {} /\ Candidates' = {}
    BY <1>1 DEF Listed, Candidates
  <2> QED BY <1>1, <2>1, NoBytes DEF TotalExact, OldestFirst
<1> QED BY <1>4, <1>5, <1>6, <1>7, <1>8 DEF IInv

(* It reads the attributes of one file, or ends the app.                   *)
LEMMA StatKeeps ==
  ASSUME IInv, NEW s \in SongIDs, StatFile(s)
  PROVE  IInv'
<1>1. /\ main = "stat" /\ s \in names
      /\ date' = date /\ clock' = clock /\ requests' = requests /\ tasks' = tasks /\ bg' = bg
      /\ evicted' = evicted /\ stuck' = stuck /\ inFlight' = inFlight /\ pruned' = pruned
  BY DEF StatFile, diskVars, netVars
<1>2. /\ TypeOK /\ SizeBound /\ MissingOnlyMidReplace
      /\ UnderWayListed /\ ReadsHold /\ EvictedGone /\ PhaseOK
      /\ DatesUnique /\ TotalExact /\ OldestFirst
  BY DEF IInv
<1>3. UnderWayListed' /\ Cached' = Cached
  BY <1>1, <1>2 DEF UnderWayListed, Handling, Cached
<1>4. CASE s \in Cached
  <2>1. /\ names' = names \ {s} /\ infos' = [infos EXCEPT ![s] = date[s]]
        /\ totalSizes' = totalSizes + Size[s] /\ main' = main
    BY <1>4 DEF StatFile
  <2>2. date[s] > 0 /\ date[s] \in 0 .. clock /\ infos[s] = 0 /\ evicted = {} /\ clock \in Nat
    BY <1>1, <1>2, <1>4 DEF Cached, TypeOK, PhaseOK
  <2>3. infos'[s] = date[s] /\ \A t \in SongIDs : t # s => infos'[t] = infos[t]
    BY <1>2, <2>1 DEF TypeOK
  <2>4. Listed' = Listed \cup {s} /\ s \notin Listed
    BY <2>2, <2>3 DEF Listed
  <2>5. Candidates = Listed /\ Candidates' = Listed'
    BY <1>1, <2>2 DEF Candidates, Listed
  <2>6. IsFiniteSet(BytesOf(Listed)) /\ totalSizes = Bytes(Listed)
    BY <1>1, <1>2, <2>5 DEF TotalExact, Pruning
  <2>7. IsFiniteSet(BytesOf(Listed')) /\ totalSizes' = Bytes(Listed')
    BY <2>1, <2>4, <2>6, BytesAdd
  <2>8. TypeOK'
    <3>1. infos' \in [SongIDs -> 0 .. clock]
      BY <1>2, <2>1, <2>2 DEF TypeOK
    <3>2. totalSizes' \in Nat
      <4>1. totalSizes \in Nat /\ Size[s] \in Nat
        BY <1>2, SizeAssumption DEF TypeOK
      <4> QED BY <2>1, <4>1
    <3> QED BY <1>1, <1>2, <2>1, <3>1, <3>2 DEF TypeOK
  <2>9. SizeBound' /\ OldestFirst'
    BY <1>1, <2>1 DEF SizeBound, OldestFirst
  <2>10. MissingOnlyMidReplace'
    BY <1>1, <1>2, <1>3, <2>1 DEF MissingOnlyMidReplace
  <2>11. ReadsHold'
    BY <1>1, <1>2, <2>1, <2>3 DEF ReadsHold, Pruning
  <2>12. EvictedGone' /\ PhaseOK'
    BY <1>1, <1>2, <2>1, <2>2, <2>3 DEF EvictedGone, PhaseOK, Pruning, TypeOK
  <2>13. DatesUnique'
    <3> SUFFICES ASSUME NEW a \in SongIDs, NEW b \in SongIDs, a # b
                 PROVE  /\ date[a] > 0 => date[a] # date[b]
                        /\ infos'[a] > 0 => infos'[a] # infos'[b] /\ infos'[a] # date[b]
      BY <1>1 DEF DatesUnique
    <3>1. /\ date[a] > 0 => date[a] # date[b]
          /\ infos[a] > 0 => infos[a] # infos[b] /\ infos[a] # date[b]
          /\ infos[b] > 0 => infos[b] # date[a]
      BY <1>2 DEF DatesUnique
    <3>2. /\ date[a] \in Nat /\ date[b] \in Nat /\ infos[a] \in Nat /\ infos[b] \in Nat
      BY <1>2 DEF TypeOK
    <3> QED BY <2>2, <2>3, <3>1, <3>2
  <2>14. TotalExact'
    BY <2>5, <2>7 DEF TotalExact
  <2> QED BY <1>3, <2>8, <2>9, <2>10, <2>11, <2>12, <2>13, <2>14 DEF IInv
<1>5. CASE s \notin Cached
  <2>1. main' = "crashed" /\ names' = names /\ infos' = infos /\ totalSizes' = totalSizes
    BY <1>5 DEF StatFile
  <2>2. TypeOK' /\ SizeBound' /\ ReadsHold' /\ EvictedGone' /\ TotalExact' /\ OldestFirst'
    BY <1>1, <1>2, <2>1 DEF TypeOK, SizeBound, ReadsHold, EvictedGone, TotalExact, OldestFirst, Pruning
  <2>3. MissingOnlyMidReplace' /\ DatesUnique' /\ PhaseOK'
    BY <1>1, <1>2, <1>3, <2>1 DEF MissingOnlyMidReplace, DatesUnique, PhaseOK
  <2> QED BY <1>3, <2>2, <2>3 DEF IInv
<1> QED BY <1>4, <1>5

(* The names are read and sorted.                                          *)
LEMMA SortKeeps == IInv /\ SortFiles => IInv'
<1> SUFFICES ASSUME IInv, SortFiles PROVE IInv'
  OBVIOUS
<1>1. /\ main = "stat" /\ names = {} /\ main' = "evict"
      /\ date' = date /\ clock' = clock /\ requests' = requests /\ tasks' = tasks /\ bg' = bg
      /\ evicted' = evicted /\ stuck' = stuck /\ inFlight' = inFlight /\ pruned' = pruned
      /\ names' = names /\ infos' = infos /\ totalSizes' = totalSizes
  BY DEF SortFiles, diskVars, netVars
<1>2. evicted = {}
  BY <1>1 DEF IInv, PhaseOK
<1>3. TypeOK' /\ SizeBound' /\ MissingOnlyMidReplace' /\ UnderWayListed'
  BY <1>1 DEF IInv, TypeOK, SizeBound, MissingOnlyMidReplace, UnderWayListed, Handling
<1>4. ReadsHold' /\ EvictedGone' /\ DatesUnique' /\ OldestFirst'
  BY <1>1, <1>2 DEF IInv, ReadsHold, EvictedGone, DatesUnique, OldestFirst, Pruning
<1>5. Listed' = Listed /\ Candidates' = Candidates
  BY <1>1 DEF Listed, Candidates
<1>6. PhaseOK' /\ TotalExact'
  BY <1>1, <1>2, <1>5 DEF IInv, PhaseOK, TotalExact, Pruning
<1> QED BY <1>3, <1>4, <1>6 DEF IInv

(* The oldest name left is dealt with: no more recent one was before.      *)
LEMMA EvictKeeps ==
  ASSUME IInv, NEW ok \in BOOLEAN, EvictOldest(ok)
  PROVE  IInv'
<1>1. PICK s \in Candidates :
        /\ \A t \in Candidates : infos[s] <= infos[t]
        /\ date' = IF ok THEN [date EXCEPT ![s] = 0] ELSE date
        /\ stuck' = IF ok THEN stuck ELSE stuck \cup {s}
        /\ totalSizes' = totalSizes - Size[s]
        /\ evicted' = evicted \cup {s}
  BY DEF EvictOldest
<1>2. /\ main = "evict" /\ totalSizes >= maxCacheSize /\ main' = main
      /\ clock' = clock /\ requests' = requests /\ tasks' = tasks /\ bg' = bg
      /\ inFlight' = inFlight /\ pruned' = pruned /\ names' = names /\ infos' = infos
  BY DEF EvictOldest, netVars
<1>3. /\ TypeOK /\ UnderWayListed /\ ReadsHold /\ EvictedGone /\ PhaseOK
      /\ DatesUnique /\ TotalExact /\ OldestFirst
  BY DEF IInv
<1>4. s \in SongIDs /\ infos[s] > 0 /\ s \notin evicted /\ s \in Listed
  BY <1>1 DEF Candidates, Listed
<1>5. Candidates' = Candidates \ {s} /\ Listed' = Listed /\ Candidates \subseteq Listed
  BY <1>1, <1>2 DEF Candidates, Listed
<1>6. IsFiniteSet(BytesOf(Listed)) /\ totalSizes = Bytes(Candidates)
  BY <1>2, <1>3 DEF TotalExact, Pruning
<1>7. IsFiniteSet(BytesOf(Candidates))
  BY <1>5, <1>6, BytesMonotone
<1>8. totalSizes' = Bytes(Candidates') /\ totalSizes' \in Nat
  BY <1>1, <1>4, <1>5, <1>6, <1>7, BytesRemove
<1>9. /\ date' \in [SongIDs -> 0 .. clock]
      /\ \A t \in SongIDs : date'[t] = 0 \/ date'[t] = date[t]
      /\ \A t \in SongIDs : t # s => date'[t] = date[t]
      /\ ok => date'[s] = 0
  BY <1>1, <1>3, <1>4 DEF TypeOK
<1>10. TypeOK'
  BY <1>1, <1>2, <1>3, <1>4, <1>8, <1>9 DEF TypeOK
<1>11. SizeBound' /\ MissingOnlyMidReplace' /\ UnderWayListed'
  BY <1>2, <1>3 DEF SizeBound, MissingOnlyMidReplace, UnderWayListed, Handling
<1>12. ReadsHold'
  BY <1>1, <1>2, <1>3, <1>9 DEF ReadsHold, Pruning
<1>13. EvictedGone'
  <2> SUFFICES ASSUME NEW t \in evicted' \ (inFlight' \cup stuck') PROVE date'[t] = 0
    BY DEF EvictedGone
  <2>1. CASE t = s
    BY <1>1, <1>9, <2>1
  <2>2. CASE t # s
    <3>1. t \in evicted \ (inFlight \cup stuck) /\ t \in SongIDs
      BY <1>1, <1>2, <1>3, <2>2 DEF TypeOK
    <3>2. date[t] = 0
      BY <1>2, <1>3, <3>1 DEF EvictedGone, Pruning
    <3> QED BY <1>9, <2>2, <3>1, <3>2
  <2> QED BY <2>1, <2>2
<1>14. PhaseOK'
  BY <1>1, <1>2, <1>3, <1>4, <1>5 DEF PhaseOK
<1>15. DatesUnique'
  BY <1>2, <1>3, <1>9 DEF DatesUnique, TypeOK
<1>16. TotalExact'
  BY <1>5, <1>6, <1>8 DEF TotalExact
<1>17. OldestFirst'
  <2> SUFFICES ASSUME NEW e \in evicted'
               PROVE  /\ \A t \in Candidates' : infos[e] < infos[t]
                      /\ Bytes({t \in SongIDs : infos[t] >= infos[e]}) >= maxCacheSize
    BY <1>2 DEF OldestFirst, Bytes, BytesOf
  <2>1. CASE e \in evicted
    BY <1>2, <1>3, <1>5, <2>1 DEF OldestFirst
  <2>2. CASE e = s
    <3>1. ASSUME NEW t \in Candidates' PROVE infos[s] < infos[t]
      <4>1. t \in Candidates /\ t # s /\ t \in SongIDs
        BY <1>5, <3>1 DEF Candidates
      <4>2. infos[s] <= infos[t] /\ infos[s] # infos[t]
        BY <1>1, <1>3, <1>4, <4>1 DEF DatesUnique
      <4>3. infos[s] \in Nat /\ infos[t] \in Nat
        BY <1>3, <1>4, <4>1 DEF TypeOK
      <4> QED BY <4>2, <4>3
    <3>2. {t \in SongIDs : infos[t] >= infos[s]} = Candidates
      <4>1. ASSUME NEW t \in SongIDs, infos[t] >= infos[s] PROVE t \in Candidates
        <5>1. infos[t] \in Nat /\ infos[s] \in Nat
          BY <1>3, <1>4 DEF TypeOK
        <5>2. t \notin evicted
          <6>1. t \in evicted => infos[t] < infos[s]
            BY <1>1, <1>2, <1>3 DEF OldestFirst
          <6> QED BY <4>1, <5>1, <6>1
        <5> QED BY <1>4, <4>1, <5>1, <5>2 DEF Candidates
      <4>2. ASSUME NEW t \in Candidates PROVE t \in SongIDs /\ infos[t] >= infos[s]
        <5>1. t \in SongIDs /\ infos[s] <= infos[t]
          BY <1>1, <4>2 DEF Candidates
        <5>2. infos[t] \in Nat /\ infos[s] \in Nat
          BY <1>3, <1>4, <5>1 DEF TypeOK
        <5> QED BY <5>1, <5>2
      <4> QED BY <4>1, <4>2
    <3> QED BY <1>2, <1>6, <2>2, <3>1, <3>2
  <2> QED BY <1>1, <2>1, <2>2
<1> QED BY <1>10, <1>11, <1>12, <1>13, <1>14, <1>15, <1>16, <1>17 DEF IInv

(* What a prune leaves, but for the downloads it started with and what it  *)
(* could not remove, was listed and never had to go.                       *)
LEMMA PruneLeaves ==
  ASSUME IInv, PruneEnds
  PROVE  Bytes(Cached \ (inFlight \cup stuck)) < maxCacheSize
<1>1. main = "evict" /\ (totalSizes < maxCacheSize \/ Candidates = {})
  BY DEF PruneEnds
<1>2. TypeOK /\ ReadsHold /\ EvictedGone /\ PhaseOK /\ TotalExact
  BY DEF IInv
<1>3. Cached \ (inFlight \cup stuck) \subseteq Candidates
  <2> SUFFICES ASSUME NEW s \in SongIDs, date[s] > 0, s \notin inFlight, s \notin stuck
               PROVE  s \in Candidates
    BY DEF Cached
  <2>1. date[s] \in Nat
    BY <1>2 DEF TypeOK
  <2>2. s \notin evicted
    BY <1>1, <1>2, <2>1 DEF EvictedGone, Pruning
  <2>3. infos[s] = date[s]
    BY <1>1, <1>2, <2>2 DEF ReadsHold, PhaseOK, Pruning
  <2> QED BY <2>2, <2>3 DEF Candidates
<1>4. IsFiniteSet(BytesOf(Listed)) /\ totalSizes = Bytes(Candidates)
  BY <1>1, <1>2 DEF TotalExact, Pruning
<1>5. IsFiniteSet(BytesOf(Candidates))
  BY <1>4, BytesMonotone DEF Candidates, Listed
<1>6. /\ Bytes(Cached \ (inFlight \cup stuck)) <= Bytes(Candidates)
      /\ Bytes(Cached \ (inFlight \cup stuck)) \in Nat /\ Bytes(Candidates) \in Nat
  BY <1>3, <1>5, BytesMonotone
<1>7. Bytes(Candidates) < maxCacheSize
  <2>1. CASE Candidates = {}
    BY <2>1, NoBytes, LimitAssumption
  <2>2. CASE totalSizes < maxCacheSize
    BY <1>4, <2>2
  <2> QED BY <1>1, <2>1, <2>2
<1> QED BY <1>6, <1>7, LimitAssumption

(* The dictionary of a prune is given up at its end, and at the app's.     *)
LEMMA PruneForgotten ==
  ASSUME IInv, main' = "idle", names' = {}, infos' = [t \in SongIDs |-> 0],
         totalSizes' = 0, evicted' = {},
         date' = date, clock' = clock, stuck' = stuck, inFlight' = inFlight,
         requests' \in [SongIDs -> 0 .. maxTasks], tasks' \in [SongIDs -> 0 .. maxTasks],
         bg' \in Handler, pruned' \in BOOLEAN, UnderWayListed', SizeBound'
  PROVE  IInv'
<1>1. TypeOK /\ DatesUnique
  BY DEF IInv
<1>2. TypeOK'
  <2>1. infos' \in [SongIDs -> 0 .. clock']
    BY <1>1 DEF TypeOK
  <2> QED BY <1>1, <2>1 DEF TypeOK
<1>3. Listed' = {}
  BY DEF Listed
<1>4. /\ MissingOnlyMidReplace' /\ ReadsHold' /\ EvictedGone' /\ PhaseOK'
      /\ TotalExact' /\ OldestFirst'
  BY <1>3 DEF MissingOnlyMidReplace, ReadsHold, EvictedGone, PhaseOK, TotalExact, OldestFirst, Pruning
<1>5. DatesUnique'
  BY <1>1 DEF DatesUnique
<1> QED BY <1>2, <1>4, <1>5 DEF IInv

(* A prune that has made room, or has nothing left to remove, returns.     *)
LEMMA EndKeeps == IInv /\ PruneEnds => IInv'
<1> SUFFICES ASSUME IInv, PruneEnds PROVE IInv'
  OBVIOUS
<1> DEFINE yes == TRUE
<1>1. /\ main' = "idle" /\ pruned' = yes /\ names' = {} /\ infos' = [t \in SongIDs |-> 0]
      /\ totalSizes' = 0 /\ evicted' = {}
      /\ date' = date /\ clock' = clock /\ requests' = requests /\ tasks' = tasks /\ bg' = bg
      /\ stuck' = stuck /\ inFlight' = inFlight
  BY DEF PruneEnds, diskVars, netVars
<1>2. yes \in BOOLEAN
  OBVIOUS
<1> HIDE DEF yes
<1>3. SizeBound'
  <2>1. Cached' = Cached
    BY <1>1 DEF Cached
  <2> QED BY <1>1, <2>1, PruneLeaves DEF SizeBound, Bytes, BytesOf
<1>4. UnderWayListed'
  BY <1>1 DEF IInv, UnderWayListed, Handling
<1> QED BY <1>1, <1>2, <1>3, <1>4, PruneForgotten DEF IInv, TypeOK

(* The process ends and the app starts again on the same directory.        *)
LEMMA RelaunchKeeps == IInv /\ Relaunch => IInv'
<1> SUFFICES ASSUME IInv, Relaunch PROVE IInv'
  OBVIOUS
<1>1. /\ main' = "idle" /\ names' = {} /\ infos' = [t \in SongIDs |-> 0]
      /\ totalSizes' = 0 /\ evicted' = {}
      /\ date' = date /\ clock' = clock /\ stuck' = stuck /\ inFlight' = inFlight
      /\ requests' = [s \in SongIDs |-> 0] /\ tasks' = [s \in SongIDs |-> 0]
      /\ bg' = Idle /\ pruned' = pruned
  BY DEF Relaunch, diskVars
<1>2. /\ requests' \in [SongIDs -> 0 .. maxTasks] /\ tasks' \in [SongIDs -> 0 .. maxTasks]
      /\ bg' \in Handler
  BY <1>1, LimitAssumption, HandlerValue
<1>3. UnderWayListed'
  BY <1>1 DEF UnderWayListed, Handling
<1>4. SizeBound'
  <2>1. Cached' = Cached /\ (pruned' => main = "idle" /\ pruned)
    BY <1>1 DEF Cached, IInv, PhaseOK
  <2> QED BY <1>1, <2>1 DEF IInv, SizeBound, Bytes, BytesOf
<1> QED BY <1>1, <1>2, <1>3, <1>4, PruneForgotten DEF IInv, TypeOK

-----------------------------------------------------------------------------
(* IInv is inductive.                                                      *)
LEMMA InitIInv == Init => IInv
<1> SUFFICES ASSUME Init PROVE IInv
  OBVIOUS
<1> DEFINE yes == TRUE
<1>1. /\ date = [s \in SongIDs |-> 0] /\ clock = 0 /\ infos = [s \in SongIDs |-> 0]
      /\ requests = [s \in SongIDs |-> 0] /\ tasks = [s \in SongIDs |-> 0]
      /\ bg = Idle /\ main = "idle" /\ names = {} /\ totalSizes = 0 /\ evicted = {}
      /\ stuck = {} /\ inFlight = {} /\ pruned = yes /\ yes \in BOOLEAN
  BY DEF Init
<1> HIDE DEF yes
<1>2. TypeOK
  BY <1>1, LimitAssumption, HandlerValue DEF TypeOK
<1>3. Cached = {} /\ Listed = {}
  BY <1>1 DEF Cached, Listed
<1>4. SizeBound
  <2>1. Cached \ (inFlight \cup stuck) = {}
    BY <1>3
  <2> QED BY <2>1, NoBytes, LimitAssumption DEF SizeBound
<1>5. /\ MissingOnlyMidReplace /\ UnderWayListed /\ ReadsHold /\ EvictedGone
      /\ PhaseOK /\ DatesUnique /\ TotalExact /\ OldestFirst
  BY <1>1, <1>3 DEF MissingOnlyMidReplace, UnderWayListed, Handling, ReadsHold, EvictedGone,
     PhaseOK, DatesUnique, TotalExact, OldestFirst, Pruning
<1> QED BY <1>2, <1>4, <1>5 DEF IInv

(* Every step of the specification keeps it.                               *)
LEMMA NextIInv == IInv /\ [Next]_vars => IInv'
<1> SUFFICES ASSUME IInv, [Next]_vars PROVE IInv'
  OBVIOUS
<1>1. ASSUME NEW s \in SongIDs, Request(s) \/ RequestFails(s) \/ TaskFails(s) PROVE IInv'
  BY <1>1, NetKeeps
<1>2. ASSUME NEW s \in SongIDs, touchFileToCheckIn(s) PROVE IInv'
  BY <1>2, TouchKeeps
<1>3. ASSUME NEW s \in SongIDs, downLoadSongInBackGround(s) PROVE IInv'
  BY <1>3, DownloadKeeps
<1>4. ASSUME NEW s \in SongIDs, StatFile(s) PROVE IInv'
  BY <1>4, StatKeeps
<1>5. ASSUME NEW s \in SongIDs, HandlerBegins(s) PROVE IInv'
  BY <1>5, HandlerBeginsKeeps
<1>6. CASE SortFiles \/ PruneEnds \/ Relaunch
  BY <1>6, SortKeeps, EndKeeps, RelaunchKeeps
<1>7. ASSUME NEW ok \in BOOLEAN, EvictOldest(ok) PROVE IInv'
  BY <1>7, EvictKeeps
<1>8. ASSUME NEW ok \in BOOLEAN, HandlerRemoves(ok) PROVE IInv'
  BY <1>8, HandlerRemovesKeeps
<1>9. CASE HandlerMoves \/ HandlerMoveFails
  BY <1>9, HandlerMovesKeeps
<1>10. CASE UNCHANGED vars
  <2>1. DatesUnique' /\ UnderWayListed'
    BY <1>10 DEF IInv, DatesUnique, UnderWayListed, Handling, vars, diskVars, netVars, pruneVars
  <2>2. PruneAside
    BY <1>10, <2>1 DEF IInv, TypeOK, PruneAside, vars, diskVars, netVars
  <2> QED BY <2>1, <2>2, AsideKeeps
<1> QED BY <1>1, <1>2, <1>3, <1>4, <1>5, <1>6, <1>7, <1>8, <1>9, <1>10 DEF Next

(* It holds in every reachable state.                                      *)
LEMMA Inductive == Spec => []IInv
BY InitIInv, NextIInv, PTL DEF Spec

-----------------------------------------------------------------------------
(* The state keeps its type: totalSizes never goes below zero, and no file *)
(* has a date the clock has not reached.                                   *)
THEOREM CacheTypeCorrect == Spec => []TypeOK
<1>1. IInv => TypeOK
  BY DEF IInv
<1> QED BY <1>1, Inductive, PTL

(* A prune that ran to its end keeps the directory below maxCacheSize, but *)
(* for what was being downloaded when it began and what it could not       *)
(* remove, until the next download starts.                                 *)
THEOREM CacheStaysBelowLimit == Spec => []SizeBound
<1>1. IInv => SizeBound
  BY DEF IInv
<1> QED BY <1>1, Inductive, PTL

(* The nil date that ends the app can only come from a file a second       *)
(* download of the same song is replacing.                                 *)
THEOREM CrashOnlyMidReplace == Spec => []MissingOnlyMidReplace
<1>1. IInv => MissingOnlyMidReplace
  BY DEF IInv
<1> QED BY <1>1, Inductive, PTL

(* A prune deals with exactly the names that do not fit together with the  *)
(* more recent ones: the loop on a running total is the LRU cut, because   *)
(* no date is given twice.                                                 *)
LEMMA PruneCut ==
  ASSUME IInv, PruneEnds
  PROVE  evicted = {s \in SongIDs : infos[s] > 0} \ Kept(infos)
<1>1. main = "evict" /\ (totalSizes < maxCacheSize \/ Candidates = {})
  BY DEF PruneEnds
<1>2. TypeOK /\ PhaseOK /\ TotalExact /\ OldestFirst
  BY DEF IInv
<1>3. IsFiniteSet(BytesOf(Listed)) /\ totalSizes = Bytes(Candidates) /\ evicted \subseteq Listed
  BY <1>1, <1>2 DEF TotalExact, Pruning, PhaseOK
<1>4. ASSUME NEW s \in evicted PROVE s \in Listed /\ s \notin Kept(infos)
  <2> DEFINE after == {t \in SongIDs : infos[t] >= infos[s]}
  <2>1. s \in SongIDs /\ s \in Listed /\ infos[s] \in Nat /\ infos[s] > 0
    BY <1>2, <1>3 DEF Listed, TypeOK
  <2>2. Bytes(after) >= maxCacheSize
    BY <1>1, <1>2 DEF OldestFirst
  <2>3. after \in SUBSET Listed
    BY <1>2, <2>1 DEF Listed, TypeOK
  <2>4. Bytes(after) \in Nat
    BY <1>3, <2>3, BytesMonotone
  <2>5. ~(Bytes(after) < maxCacheSize)
    BY <2>2, <2>4, LimitAssumption
  <2> QED BY <2>1, <2>5 DEF Kept
<1>5. ASSUME NEW s \in Listed, s \notin evicted PROVE s \in Kept(infos)
  <2> DEFINE after == {t \in SongIDs : infos[t] >= infos[s]}
  <2>1. s \in SongIDs /\ s \in Candidates /\ infos[s] \in Nat /\ infos[s] > 0
    BY <1>2, <1>5 DEF Listed, Candidates, TypeOK
  <2>2. after \in SUBSET Candidates
    <3>1. ASSUME NEW t \in SongIDs, infos[t] >= infos[s] PROVE t \in Candidates
      <4>1. infos[t] \in Nat /\ infos[t] > 0
        BY <1>2, <2>1, <3>1 DEF TypeOK
      <4>2. t \in evicted => infos[t] < infos[s]
        BY <1>1, <1>2, <2>1 DEF OldestFirst
      <4> QED BY <2>1, <3>1, <4>1, <4>2 DEF Candidates
    <3> QED BY <3>1
  <2>3. IsFiniteSet(BytesOf(Candidates))
    BY <1>3, BytesMonotone DEF Candidates, Listed
  <2>4. Bytes(after) <= Bytes(Candidates) /\ Bytes(after) \in Nat /\ Bytes(Candidates) \in Nat
    BY <2>2, <2>3, BytesMonotone
  <2>5. Bytes(Candidates) < maxCacheSize
    BY <1>1, <1>3, <2>1
  <2>6. Bytes(after) < maxCacheSize
    BY <2>4, <2>5, LimitAssumption
  <2> QED BY <2>1, <2>6 DEF Kept
<1> QED BY <1>4, <1>5 DEF Listed

(* The prune is least-recently-used eviction, by the dates it read.        *)
THEOREM PruneImplementsLRU == Spec => PruneIsLRU
<1>1. ASSUME IInv, [Next]_vars
      PROVE  [main = "evict" /\ main' = "idle" /\ pruned' =>
                evicted = {s \in SongIDs : infos[s] > 0} \ Kept(infos)]_vars
  <2> SUFFICES ASSUME Next, main = "evict", main' = "idle", pruned'
               PROVE  evicted = {s \in SongIDs : infos[s] > 0} \ Kept(infos)
    BY <1>1
  <2>1. ~pruned
    BY <1>1 DEF IInv, PhaseOK
  <2>2. PruneEnds
    BY <2>1 DEF Next, Request, RequestFails, touchFileToCheckIn, downLoadSongInBackGround, StatFile,
       TaskFails, HandlerBegins, SortFiles, EvictOldest, HandlerRemoves, HandlerMoves,
       HandlerMoveFails, Relaunch, pruneVars
  <2> QED BY <1>1, <2>2, PruneCut
<1> QED BY <1>1, Inductive, PTL DEF Spec, PruneIsLRU

(* An evicted file is the oldest left by its real date too, unless it was  *)
(* being replaced.                                                         *)
THEOREM EvictionIsOldest == Spec => EvictsTrulyOldest
<1>1. ASSUME IInv, [Next]_vars
      PROVE  [\A s \in (Cached \cap evicted') \ (evicted \cup inFlight) :
                \A t \in Cached \ (evicted \cup inFlight) : date[s] <= date[t]]_vars
  <2> SUFFICES ASSUME Next,
                      NEW s \in (Cached \cap evicted') \ (evicted \cup inFlight),
                      NEW t \in Cached \ (evicted \cup inFlight)
               PROVE  date[s] <= date[t]
    BY <1>1
  <2>1. PICK ok \in BOOLEAN : EvictOldest(ok)
    BY DEF Next, Request, RequestFails, touchFileToCheckIn, downLoadSongInBackGround, StatFile,
       TaskFails, HandlerBegins, SortFiles, PruneEnds, HandlerRemoves, HandlerMoves,
       HandlerMoveFails, Relaunch, pruneVars
  <2>2. PICK e \in Candidates :
          evicted' = evicted \cup {e} /\ \A r \in Candidates : infos[e] <= infos[r]
    BY <2>1 DEF EvictOldest
  <2>3. main = "evict" /\ s = e
    BY <2>1, <2>2 DEF EvictOldest
  <2>4. TypeOK /\ ReadsHold /\ PhaseOK
    BY <1>1 DEF IInv
  <2>5. infos[s] = date[s] /\ infos[t] = date[t] /\ date[t] > 0
    BY <2>3, <2>4 DEF ReadsHold, PhaseOK, Pruning, Cached
  <2>6. t \in Candidates
    BY <2>5 DEF Candidates, Cached
  <2> QED BY <2>2, <2>3, <2>5, <2>6
<1> QED BY <1>1, Inductive, PTL DEF Spec, EvictsTrulyOldest
=============================================================================
