---------------------------- MODULE SongDownload ----------------------------
(***************************************************************************)
(* Songs the user downloads: the files of downLoadSpace, the rows of       *)
(* downLoadSongsTable and the page that lists and deletes them.  A         *)
(* completion handler of downLoadCurrentSongForUser runs on NSURLSession's *)
(* queue, one at a time; it writes the file, then the row.  A delete runs  *)
(* on the main queue; it removes the file, then the row.  The page reads   *)
(* the table on a global queue and shows it on the main queue.  One step   *)
(* is one file or table operation; the result of each is ignored by the    *)
(* code, so each may fail.                                                 *)
(***************************************************************************)
EXTENDS Integers, Sequences, MusicDBModel

CONSTANTS
  SongIDs,
  WriteResults,  \* outcomes of a file or table write: TRUE, and FALSE if it may fail
  maxTasks    \* bound: download tasks in flight per song, and list reads

ASSUME Bounds == maxTasks \in Nat /\ WriteResults \subseteq BOOLEAN

VARIABLES
  files,          \* songs with a file in downLoadSpace
  downLoadSongs,  \* downLoadSongsTable
  tasks,          \* download tasks in flight per song
  bg,             \* the completion handler: its song and its next operation
  deleting,       \* songs whose file is dealt with and whose row is not, at most one
  reads,          \* fentchData blocks waiting on the global queue
  read,           \* lists read and waiting on the main queue
  allmodels,      \* the list the page shows
  ghosts,         \* history: songs deleted while a list with them waited to be shown
  torn            \* history: songs whose pair of writes failed, was cut by the end
                  \* of the process or crossed the other pair

pageVars == <<reads, read, allmodels>>
vars == <<files, downLoadSongs, tasks, bg, deleting, pageVars, ghosts, torn>>

Idle == [pc |-> "idle"]
Handling(s) == bg # Idle /\ bg.song = s
isSongDownLoad(s) == s \in files

(* The rows of a table or of a list, none of them twice.                   *)
Table == {t \in Seq(SongIDs) : \A i, j \in 1 .. Len(t) : t[i] = t[j] => i = j}

(* The type of the state; a list and the table never hold a song twice.    *)
TypeOK ==
  /\ files \subseteq SongIDs /\ torn \subseteq SongIDs /\ ghosts \subseteq SongIDs
  /\ downLoadSongs \in Table /\ allmodels \in Table /\ read \in Seq(Table)
  /\ tasks \in [SongIDs -> 0 .. maxTasks]
  /\ bg \in {Idle} \cup [pc : {"remove", "move", "save"}, song : SongIDs]
  /\ deleting \in {{}} \cup {{s} : s \in SongIDs}
  /\ reads \in Nat /\ reads + Len(read) <= maxTasks

Init ==
  /\ files = {} /\ downLoadSongs = << >> /\ torn = {} /\ ghosts = {}
  /\ tasks = [s \in SongIDs |-> 0] /\ bg = Idle
  /\ deleting = {}
  /\ reads = 0 /\ read = << >> /\ allmodels = << >>

-----------------------------------------------------------------------------
(* Main queue; it is busy while a delete is between its two removals.      *)
MainIdle == deleting = {}

DownloadUnchecked(s) ==
  /\ MainIdle /\ tasks[s] < maxTasks
  /\ tasks' = [tasks EXCEPT ![s] = @ + 1]
  /\ UNCHANGED <<files, downLoadSongs, bg, deleting, pageVars, ghosts, torn>>
(* The download button, on a song without a file.  (On a song with one,    *)
(* the code logs that it is already in the library and returns.)           *)
downLoadCurrentSongForUser(s) ==
  /\ MainIdle /\ ~isSongDownLoad(s) /\ tasks[s] < maxTasks
  /\ tasks' = [tasks EXCEPT ![s] = @ + 1]
  /\ UNCHANGED <<files, downLoadSongs, bg, deleting, pageVars, ghosts, torn>>

(* Swipe to delete a row the page shows: the file ...                      *)
deleteDownLoadedSongsFile(s, ok) ==
  /\ MainIdle /\ hasRow(allmodels, s)
  /\ files' = IF ok THEN files \ {s} ELSE files
  /\ deleting' = {s}
  /\ torn' = IF Handling(s) \/ (~ok /\ s \in files) THEN torn \cup {s} ELSE torn
  /\ UNCHANGED <<downLoadSongs, tasks, bg, pageVars, ghosts>>

Waiting(s) == \E i \in 1 .. Len(read) : hasRow(read[i], s)

RowStaysShown(s, ok) ==
  /\ s \in deleting
  /\ downLoadSongs' = IF ok THEN removeDownLoadSong(downLoadSongs, s) ELSE downLoadSongs
  /\ deleting' = {}
  /\ ghosts' = IF ok /\ Waiting(s) THEN ghosts \cup {s} ELSE ghosts
  /\ torn' = IF ok THEN torn ELSE torn \cup {s}
  /\ UNCHANGED <<files, tasks, bg, pageVars>>
(* ... then, whatever became of the file, the table row and the page's row. *)
RemoveRow(s, ok) ==
  /\ s \in deleting
  /\ downLoadSongs' = IF ok THEN removeDownLoadSong(downLoadSongs, s) ELSE downLoadSongs
  /\ allmodels' = deleteRow(allmodels, s)
  /\ deleting' = {}
  /\ ghosts' = IF ok /\ Waiting(s) THEN ghosts \cup {s} ELSE ghosts
  /\ torn' = IF ok THEN torn ELSE torn \cup {s}
  /\ UNCHANGED <<files, tasks, bg, reads, read>>

viewWillAppear ==
  /\ MainIdle /\ reads + Len(read) < maxTasks
  /\ reads' = reads + 1
  /\ UNCHANGED <<files, downLoadSongs, tasks, bg, deleting, read, allmodels, ghosts, torn>>

(* The global queue is concurrent: lists arrive in any order.              *)
ShowList ==
  /\ MainIdle
  /\ \E i \in 1 .. Len(read) :
       /\ allmodels' = read[i]
       /\ read' = SubSeq(read, 1, i - 1) \o SubSeq(read, i + 1, Len(read))
  /\ UNCHANGED <<files, downLoadSongs, tasks, bg, deleting, reads, ghosts, torn>>

-----------------------------------------------------------------------------
(* Global queue *)
ReadTable ==
  /\ reads > 0 /\ reads' = reads - 1
  /\ read' = Append(read, getAllDownLoadSongs(downLoadSongs))
  /\ UNCHANGED <<files, downLoadSongs, tasks, bg, deleting, allmodels, ghosts, torn>>

-----------------------------------------------------------------------------
(* NSURLSession queue *)

(* A task that fails, as one without a songUrl does at once.               *)
TaskFails(s) ==
  /\ tasks[s] > 0
  /\ tasks' = [tasks EXCEPT ![s] = @ - 1]
  /\ UNCHANGED <<files, downLoadSongs, bg, deleting, pageVars, ghosts, torn>>

HandlerBegins(s) ==
  /\ bg = Idle /\ tasks[s] > 0
  /\ tasks' = [tasks EXCEPT ![s] = @ - 1]
  /\ bg' = [pc |-> IF s \in files THEN "remove" ELSE "move", song |-> s]
  /\ torn' = IF s \in deleting THEN torn \cup {s} ELSE torn
  /\ UNCHANGED <<files, downLoadSongs, deleting, pageVars, ghosts>>

HandlerRemoves(ok) ==
  /\ bg.pc = "remove"
  /\ files' = IF ok THEN files \ {bg.song} ELSE files
  /\ bg' = [bg EXCEPT !.pc = "move"]
  /\ UNCHANGED <<downLoadSongs, tasks, deleting, pageVars, ghosts, torn>>

HandlerMovesUnsaved(ok) ==
  /\ bg.pc = "move"
  /\ files' = IF ok THEN files \cup {bg.song} ELSE files
  /\ bg' = Idle
  /\ torn' = IF ok THEN torn ELSE torn \cup {bg.song}
  /\ UNCHANGED <<downLoadSongs, tasks, deleting, pageVars, ghosts>>
(* A move onto an existing file fails.  The second moveItemAtURL: is the   *)
(* first one's repeat: after a success it finds no source.                 *)
HandlerMoves(ok) ==
  /\ bg.pc = "move" /\ (ok => bg.song \notin files)
  /\ files' = IF ok THEN files \cup {bg.song} ELSE files
  /\ bg' = [bg EXCEPT !.pc = "save"]
  /\ torn' = IF ok \/ bg.song \in files THEN torn ELSE torn \cup {bg.song}
  /\ UNCHANGED <<downLoadSongs, tasks, deleting, pageVars, ghosts>>

HandlerAppends(ok) ==
  /\ bg.pc = "save"
  /\ downLoadSongs' = IF ok THEN Append(downLoadSongs, bg.song) ELSE downLoadSongs
  /\ bg' = Idle
  /\ torn' = IF ok THEN torn ELSE torn \cup {bg.song}
  /\ UNCHANGED <<files, tasks, deleting, pageVars, ghosts>>
HandlerSaves(ok) ==
  /\ bg.pc = "save"
  /\ downLoadSongs' = IF ok THEN saveDownLoadSongs(downLoadSongs, bg.song) ELSE downLoadSongs
  /\ ghosts' = IF ok THEN ghosts \ {bg.song} ELSE ghosts
  /\ bg' = Idle
  /\ torn' = IF ok THEN torn ELSE torn \cup {bg.song}
  /\ UNCHANGED <<files, tasks, deleting, pageVars>>

-----------------------------------------------------------------------------
(* The process ends and the app is launched again: files and rows survive. *)
Half(s) == Handling(s) /\ (bg.pc = "save" \/ (bg.pc = "move" /\ hasRow(downLoadSongs, s)))
Relaunch ==
  /\ tasks' = [s \in SongIDs |-> 0] /\ bg' = Idle
  /\ deleting' = {} /\ reads' = 0 /\ read' = << >> /\ allmodels' = << >>
  /\ ghosts' = {}
  /\ torn' = torn \cup deleting \cup {s \in SongIDs : Half(s)}
  /\ UNCHANGED <<files, downLoadSongs>>

Next ==
  \/ \E s \in SongIDs :
       \/ downLoadCurrentSongForUser(s)
       \/ \E ok \in WriteResults : deleteDownLoadedSongsFile(s, ok) \/ RemoveRow(s, ok)
       \/ TaskFails(s) \/ HandlerBegins(s)
  \/ viewWillAppear \/ ReadTable \/ ShowList
  \/ \E ok \in WriteResults : HandlerRemoves(ok) \/ HandlerMoves(ok) \/ HandlerSaves(ok)
  \/ Relaunch

Spec == Init /\ [][Next]_vars

-----------------------------------------------------------------------------
(* Properties *)

(* With no handler or delete half done, a song has its file iff it has its *)
(* row, unless one of its pairs of writes failed, was cut by the end of    *)
(* the process or crossed a pair of the other kind.                        *)
FileIffRow ==
  bg = Idle /\ MainIdle =>
    \A s \in SongIDs \ torn : isSongDownLoad(s) <=> hasRow(downLoadSongs, s)

(* A file without a row that nothing is working on and no list shows.      *)
Orphan(s) ==
  /\ isSongDownLoad(s) /\ ~hasRow(downLoadSongs, s)
  /\ tasks[s] = 0 /\ ~Handling(s) /\ s \notin deleting
  /\ ~hasRow(allmodels, s) /\ ~Waiting(s)

(* No operation of the app ever repairs one: the download button finds the *)
(* file and returns, and the page, which reads the table, cannot delete it. *)
OrphanIsForever == [][\A s \in SongIDs : Orphan(s) => Orphan(s)']_vars

(* The page lists a song that has no row only if the song was deleted      *)
(* while a list read before the delete was still waiting to be shown:      *)
(* a swipe, a handler or a second appearance of the page is no other way.  *)
ShownRowsExist ==
  \A s \in SongIDs : hasRow(allmodels, s) => hasRow(downLoadSongs, s) \/ s \in ghosts
=============================================================================
