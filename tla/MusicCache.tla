----------------------------- MODULE MusicCache -----------------------------
(***************************************************************************)
(* The musicCache directory: checkAndPruneCache runs on the main queue     *)
(* while the completion handlers of downLoadSongInBackGround run, one at a *)
(* time, on NSURLSession.sharedSession's queue.  One step is one file      *)
(* operation; the code ignores the result of a removal or a move, so each  *)
(* may fail.  Playback is reduced to what reaches the directory: a song   *)
(* that is not cached is requested, a URL that arrives starts a download,  *)
(* a cached song that is played is touched.                                *)
(***************************************************************************)
EXTENDS Integers, FiniteSets

CONSTANTS
  SongIDs,
  Size,          \* SongIDs -> bytes of the song's file
  maxCacheSize,  \* 100 MB in the code
  maxTasks,      \* bound: outstanding requests, and downloads, per song
  maxClock       \* bound: file dates

ASSUME SizeAssumption == Size \in [SongIDs -> Nat \ {0}]
ASSUME LimitAssumption == maxCacheSize \in Nat \ {0} /\ maxTasks \in Nat /\ maxClock \in Nat

VARIABLES
  date,      \* modification date of each song's file, 0 when there is none
  clock,     \* the last date given to a file
  requests,  \* outstanding URL requests per song
  tasks,     \* download tasks in flight per song
  bg,        \* the completion handler: its song and its next file operation
  main,      \* what the main queue is doing: "idle", "stat", "evict", "crashed"
  names,     \* names listed by the prune that have no entry in infos yet
  infos,     \* fileInfos: dates as read, 0 for no entry
  totalSizes,
  evicted,   \* names the current prune has dealt with
  stuck,     \* history: those it could not remove
  inFlight,  \* history: songs being downloaded when the last prune listed the directory
  pruned     \* history: the last prune ran to its end

diskVars  == <<date, clock>>
netVars   == <<requests, tasks>>
pruneVars == <<main, names, infos, totalSizes, evicted, stuck, inFlight, pruned>>
vars == <<diskVars, netVars, bg, pruneVars>>

Idle == [pc |-> "idle"]
Handler == {Idle} \cup [pc : {"remove", "move"}, song : SongIDs]

Cached == {s \in SongIDs : date[s] > 0}

(* The files of some songs, byte by byte, and how much room they take.     *)
BytesOf(S) == UNION {{s} \X (1 .. Size[s]) : s \in S}
Bytes(S) == Cardinality(BytesOf(S))

(* The type of the cache's state; dates never run ahead of the clock. *)
TypeOK ==
  /\ clock \in 0 .. maxClock /\ date \in [SongIDs -> 0 .. clock]
  /\ infos \in [SongIDs -> 0 .. clock]
  /\ requests \in [SongIDs -> 0 .. maxTasks] /\ tasks \in [SongIDs -> 0 .. maxTasks]
  /\ bg \in Handler
  /\ main \in {"idle", "stat", "evict", "crashed"}
  /\ names \subseteq SongIDs /\ evicted \subseteq SongIDs
  /\ stuck \subseteq SongIDs /\ inFlight \subseteq SongIDs
  /\ totalSizes \in Nat
  /\ pruned \in BOOLEAN

Init ==
  /\ date = [s \in SongIDs |-> 0] /\ clock = 0
  /\ requests = [s \in SongIDs |-> 0] /\ tasks = [s \in SongIDs |-> 0]
  /\ bg = Idle /\ main = "idle"
  /\ names = {} /\ infos = [s \in SongIDs |-> 0] /\ totalSizes = 0 /\ evicted = {}
  /\ stuck = {} /\ inFlight = {} /\ pruned = TRUE

-----------------------------------------------------------------------------
(* Main queue *)

(* playMusic or startPreloadNextSong of a song that is not cached.         *)
Request(s) ==
  /\ main = "idle" /\ s \notin Cached
  /\ requests[s] < maxTasks
  /\ requests' = [requests EXCEPT ![s] = @ + 1]
  /\ UNCHANGED <<diskVars, tasks, bg, pruneVars>>

RequestFails(s) ==
  /\ main = "idle" /\ requests[s] > 0
  /\ requests' = [requests EXCEPT ![s] = @ - 1]
  /\ UNCHANGED <<diskVars, tasks, bg, pruneVars>>

(* playMusic of a cached song plays the file and gives it a new date.      *)
touchFileToCheckIn(s) ==
  /\ main = "idle" /\ s \in Cached /\ clock < maxClock
  /\ clock' = clock + 1
  /\ date' = [date EXCEPT ![s] = clock']
  /\ UNCHANGED <<netVars, bg, pruneVars>>

(* The URL arrives: the task starts, then checkAndPruneCache lists the     *)
(* directory.                                                              *)
downLoadSongInBackGround(s) ==
  /\ main = "idle" /\ requests[s] > 0 /\ tasks[s] < maxTasks
  /\ requests' = [requests EXCEPT ![s] = @ - 1]
  /\ tasks' = [tasks EXCEPT ![s] = @ + 1]
  /\ main' = "stat"
  /\ names' = Cached /\ infos' = [t \in SongIDs |-> 0] /\ totalSizes' = 0 /\ evicted' = {} /\ stuck' = {}
  /\ inFlight' = {t \in SongIDs : tasks'[t] > 0 \/ (bg # Idle /\ bg.song = t)}
  /\ pruned' = FALSE
  /\ UNCHANGED <<diskVars, bg>>

StatKeepsNoDate(s) ==
  /\ main = "stat" /\ s \in names
  /\ IF s \in Cached
     THEN /\ names' = names \ {s}
          /\ infos' = [infos EXCEPT ![s] = clock]
          /\ totalSizes' = totalSizes + Size[s]
          /\ UNCHANGED main
     ELSE main' = "crashed" /\ UNCHANGED <<names, infos, totalSizes>>
  /\ UNCHANGED <<diskVars, netVars, bg, evicted, stuck, inFlight, pruned>>
(* attributesOfItemAtPath:.  For a file that has gone it is nil, and the   *)
(* nil date in the dictionary literal raises.                              *)
StatFile(s) ==
  /\ main = "stat" /\ s \in names
  /\ IF s \in Cached
     THEN /\ names' = names \ {s}
          /\ infos' = [infos EXCEPT ![s] = date[s]]
          /\ totalSizes' = totalSizes + Size[s]
          /\ UNCHANGED main
     ELSE main' = "crashed" /\ UNCHANGED <<names, infos, totalSizes>>
  /\ UNCHANGED <<diskVars, netVars, bg, evicted, stuck, inFlight, pruned>>

SortFiles ==
  /\ main = "stat" /\ names = {}
  /\ main' = "evict"
  /\ UNCHANGED <<diskVars, netVars, bg, names, infos, totalSizes, evicted, stuck, inFlight, pruned>>

Candidates == {s \in SongIDs : infos[s] > 0} \ evicted

EvictNewest(ok) ==
  /\ main = "evict" /\ totalSizes >= maxCacheSize
  /\ \E s \in Candidates :
       /\ \A t \in Candidates : infos[s] >= infos[t]
       /\ date' = IF ok THEN [date EXCEPT ![s] = 0] ELSE date
       /\ stuck' = IF ok THEN stuck ELSE stuck \cup {s}
       /\ totalSizes' = totalSizes - Size[s]
       /\ evicted' = evicted \cup {s}
  /\ UNCHANGED <<clock, netVars, bg, main, names, infos, inFlight, pruned>>
EvictOldest(ok) ==
  /\ main = "evict" /\ totalSizes >= maxCacheSize
  /\ \E s \in Candidates :
       /\ \A t \in Candidates : infos[s] <= infos[t]
       /\ date' = IF ok THEN [date EXCEPT ![s] = 0] ELSE date
       /\ stuck' = IF ok THEN stuck ELSE stuck \cup {s}
       /\ totalSizes' = totalSizes - Size[s]
       /\ evicted' = evicted \cup {s}
  /\ UNCHANGED <<clock, netVars, bg, main, names, infos, inFlight, pruned>>

PruneEndsHalfway ==
  /\ main = "evict" /\ (totalSizes < maxCacheSize \/ evicted # {})
  /\ main' = "idle" /\ pruned' = TRUE
  /\ names' = {} /\ infos' = [t \in SongIDs |-> 0] /\ totalSizes' = 0 /\ evicted' = {}
  /\ UNCHANGED <<diskVars, netVars, bg, stuck, inFlight>>
PruneEnds ==
  /\ main = "evict" /\ (totalSizes < maxCacheSize \/ Candidates = {})
  /\ main' = "idle" /\ pruned' = TRUE
  /\ names' = {} /\ infos' = [t \in SongIDs |-> 0] /\ totalSizes' = 0 /\ evicted' = {}
  /\ UNCHANGED <<diskVars, netVars, bg, stuck, inFlight>>

-----------------------------------------------------------------------------
(* NSURLSession queue *)

TaskFails(s) ==
  /\ main # "crashed" /\ tasks[s] > 0
  /\ tasks' = [tasks EXCEPT ![s] = @ - 1]
  /\ UNCHANGED <<diskVars, requests, bg, pruneVars>>

(* The handler of a task without error finds whether the file exists.      *)
HandlerBegins(s) ==
  /\ main # "crashed" /\ bg = Idle /\ tasks[s] > 0
  /\ tasks' = [tasks EXCEPT ![s] = @ - 1]
  /\ bg' = [pc |-> IF s \in Cached THEN "remove" ELSE "move", song |-> s]
  /\ UNCHANGED <<diskVars, requests, pruneVars>>

HandlerRemovesAll(ok) ==
  /\ main # "crashed" /\ bg.pc = "remove"
  /\ date' = IF ok THEN [s \in SongIDs |-> 0] ELSE date
  /\ bg' = [bg EXCEPT !.pc = "move"]
  /\ UNCHANGED <<clock, netVars, pruneVars>>
HandlerRemoves(ok) ==
  /\ main # "crashed" /\ bg.pc = "remove"
  /\ date' = IF ok THEN [date EXCEPT ![bg.song] = 0] ELSE date
  /\ bg' = [bg EXCEPT !.pc = "move"]
  /\ UNCHANGED <<clock, netVars, pruneVars>>

HandlerMovesFutureDate ==
  /\ main # "crashed" /\ bg.pc = "move" /\ clock < maxClock
  /\ clock' = clock + 1
  /\ date' = [date EXCEPT ![bg.song] = clock' + 1]
  /\ bg' = Idle
  /\ UNCHANGED <<netVars, pruneVars>>
(* The temporary file carries the date it was written, the newest.         *)
HandlerMoves ==
  /\ main # "crashed" /\ bg.pc = "move" /\ bg.song \notin Cached /\ clock < maxClock
  /\ clock' = clock + 1
  /\ date' = [date EXCEPT ![bg.song] = clock']
  /\ bg' = Idle
  /\ UNCHANGED <<netVars, pruneVars>>

(* A move fails, as it does onto a file that is there.                     *)
HandlerMoveFails ==
  /\ main # "crashed" /\ bg.pc = "move"
  /\ bg' = Idle
  /\ UNCHANGED <<diskVars, netVars, pruneVars>>

(* The process ends, by the exception or by the user or the system, and    *)
(* the app is launched again: only the directory survives.                 *)
Relaunch ==
  /\ requests' = [s \in SongIDs |-> 0] /\ tasks' = [s \in SongIDs |-> 0]
  /\ bg' = Idle /\ main' = "idle"
  /\ names' = {} /\ infos' = [t \in SongIDs |-> 0] /\ totalSizes' = 0 /\ evicted' = {}
  /\ UNCHANGED <<diskVars, stuck, inFlight, pruned>>

Next ==
  \/ \E s \in SongIDs :
       \/ Request(s) \/ RequestFails(s) \/ touchFileToCheckIn(s)
       \/ downLoadSongInBackGround(s) \/ StatFile(s)
       \/ TaskFails(s) \/ HandlerBegins(s)
  \/ SortFiles \/ PruneEnds
  \/ \E ok \in BOOLEAN : EvictOldest(ok) \/ HandlerRemoves(ok)
  \/ HandlerMoves \/ HandlerMoveFails
  \/ Relaunch

Spec == Init /\ [][Next]_vars

-----------------------------------------------------------------------------
(* Properties *)

(* What a prune leaves over the limit can only be what was being           *)
(* downloaded when it listed the directory, since it runs when a download  *)
(* starts and never when one ends, or what it failed to remove.  The rest  *)
(* is below maxCacheSize whenever the last prune was not cut short by the  *)
(* end of the process.                                                     *)
SizeBound ==
  main = "idle" /\ pruned => Bytes(Cached \ (inFlight \cup stuck)) < maxCacheSize

(* Reference for the LRU loop: a listed file stays iff it and the listed   *)
(* files at least as recent fit below the limit together.                  *)
Kept(d) ==
  {s \in SongIDs : d[s] > 0 /\ Bytes({t \in SongIDs : d[t] >= d[s]}) < maxCacheSize}

(* A prune that returns has dealt with exactly the least recently used files  *)
(* it had to, by the dates it read, whatever the handlers did meanwhile.   *)
PruneIsLRU ==
  [][main = "evict" /\ main' = "idle" /\ pruned' =>
       evicted = {s \in SongIDs : infos[s] > 0} \ Kept(infos)]_vars

(* By the dates the files really have, an evicted file is the oldest left, *)
(* unless a second download of it was under way when the directory was     *)
(* listed: only such a file can have been replaced after its date was      *)
(* read, and then the newest file goes first.                              *)
EvictsTrulyOldest ==
  [][\A s \in (Cached \cap evicted') \ (evicted \cup inFlight) :
       \A t \in Cached \ (evicted \cup inFlight) : date[s] <= date[t]]_vars

(* A name the prune listed can be missing when its attributes are read,    *)
(* which ends the app, only if a second download of that same song was     *)
(* under way when the directory was listed: its handler removed the old    *)
(* file, and no new one is in its place.                                   *)
MissingOnlyMidReplace ==
  main \in {"stat", "crashed"} => names \ Cached \subseteq inFlight
=============================================================================
