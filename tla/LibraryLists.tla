---------------------------- MODULE LibraryLists ----------------------------
(***************************************************************************)
(* The liked and the recently played songs.  The like button and playMusic *)
(* write their tables on the main queue; a page of VCLikeSongsLib or       *)
(* VCrecentSongsLib reads its table on a concurrent global queue each time *)
(* it appears and shows the result on the main queue.  The player page is  *)
(* presented over full screen, so the page below it does not appear again  *)
(* when the player is dismissed; it does after a swipe back given up.      *)
(***************************************************************************)
EXTENDS Integers, SequencesExt, MusicDBModel

CONSTANTS
  SongIDs,
  limit,        \* 100 in getRecentPlaySongs
  maxChanges,   \* bound: plays and taps on the like button
  maxReads      \* bound: reads of a table under way

ASSUME Bounds == limit \in Nat /\ maxChanges \in Nat /\ maxReads \in Nat

Kinds == {"liked", "recent"}

VARIABLES
  tables,       \* favouriteSongsTable and recentPlayTableName
  since,        \* per table: when a song was liked, its lastPlayTime; 0 without a row
  clock,        \* plays and taps so far
  changedAt,    \* history: per table, the clock of its last change
  open,         \* the page on the navigation stack, or "menu"
  appearedAt,   \* history: the clock when it last appeared
  waiting,      \* its fentchData blocks that have not read yet
  read,         \* results on their way to the main queue, with the clock of their read
  allmodels,    \* the list the page shows
  outrun        \* history: that list was read for an earlier appearance than the last

database == <<tables, since, clock, changedAt>>
page == <<open, appearedAt, waiting, read, allmodels, outrun>>
vars == <<database, page>>

Init ==
  /\ tables = [k \in Kinds |-> << >>] /\ since = [k \in Kinds |-> [s \in SongIDs |-> 0]]
  /\ clock = 0 /\ changedAt = [k \in Kinds |-> 0]
  /\ open = "menu" /\ appearedAt = 0 /\ waiting = 0 /\ read = << >>
  /\ allmodels = << >> /\ outrun = FALSE

-----------------------------------------------------------------------------
Write(k, s, rows, time) ==
  /\ clock < maxChanges /\ clock' = clock + 1
  /\ tables' = [tables EXCEPT ![k] = rows]
  /\ since' = [since EXCEPT ![k][s] = time]
  /\ changedAt' = [changedAt EXCEPT ![k] = clock']
  /\ UNCHANGED page

(* playMusic: lastPlayTime is set to now, then the row is written.         *)
Play(s) == Write("recent", s, addRecentPlaySong(tables["recent"], s), clock + 1)

TapLikedButton(s) ==
  LET favourite == tables["liked"]
  IN \/ isSongLiked(favourite, s) /\ Write("liked", s, unLikeSong(favourite, s), 0)
     \/ ~isSongLiked(favourite, s) /\ Write("liked", s, likeSong(favourite, s), clock + 1)

-----------------------------------------------------------------------------
(* The library menu pushes a new page, which appears.                      *)
didSelectItem(k) ==
  /\ open = "menu" /\ open' = k /\ appearedAt' = clock
  /\ waiting' = 1 /\ read' = << >> /\ allmodels' = << >> /\ outrun' = FALSE
  /\ UNCHANGED database

viewWillAppear ==
  /\ open \in Kinds /\ waiting + Len(read) < maxReads
  /\ waiting' = waiting + 1 /\ appearedAt' = clock
  /\ UNCHANGED <<database, open, read, allmodels, outrun>>

(* The navigation bar pops the page, as the goBack of its button, which is *)
(* not set up, would.  What is under way ends on a page nobody sees.       *)
goBack ==
  /\ open \in Kinds /\ open' = "menu"
  /\ waiting' = 0 /\ read' = << >> /\ allmodels' = << >> /\ outrun' = FALSE
  /\ UNCHANGED <<database, appearedAt>>

(* A block may be overtaken between its read and its dispatch.             *)
ReadTable ==
  /\ waiting > 0 /\ waiting' = waiting - 1
  /\ LET songs == IF open = "liked" THEN getAllLikeSong(tables["liked"])
                  ELSE getRecentPlaySongs(tables["recent"], limit)
     IN  read' = Append(read, [rows |-> songs, time |-> clock])
  /\ UNCHANGED <<database, open, appearedAt, allmodels, outrun>>

ShowList ==
  /\ \E i \in 1 .. Len(read) :
       /\ read' = RemoveAt(read, i) /\ allmodels' = read[i].rows
       /\ outrun' = (read[i].time < appearedAt)
  /\ UNCHANGED <<database, open, appearedAt, waiting>>

Next ==
  \/ \E s \in SongIDs : Play(s) \/ TapLikedButton(s)
  \/ \E k \in Kinds : didSelectItem(k)
  \/ viewWillAppear \/ goBack \/ ReadTable \/ ShowList

Spec == Init /\ [][Next]_vars

-----------------------------------------------------------------------------
(* The page k is open, appeared after its table's last change, and shows   *)
(* what it read for its last appearance.                                   *)
UpToDate(k) ==
  /\ open = k /\ waiting = 0 /\ read = << >>
  /\ appearedAt >= changedAt[k] /\ ~outrun

(* The list holds the rows of table k, each once, the oldest first.        *)
Exact(k) ==
  /\ \A s \in SongIDs : hasRow(allmodels, s) <=> since[k][s] > 0
  /\ \A i, j \in 1 .. Len(allmodels) :
       i < j => since[k][allmodels[i]] < since[k][allmodels[j]]

(* A liked page up to date lists the liked songs, each once, in the order  *)
(* they were liked, though getAllLikeSong has no ORDER BY and songs are    *)
(* liked and unliked between and during the reads; only a slow read of     *)
(* fentchData shown last can spoil it.                                     *)
LikedListExact == UpToDate("liked") => Exact("liked")

(* The same of the recents while they are at most `limit': every song ever *)
(* played, in the order of lastPlayTime, though getRecentPlaySongs orders  *)
(* nothing and songs are played again.  Beyond the limit the songs played  *)
(* last are the ones LIMIT cuts off.                                       *)
CompleteBelowLimit ==
  UpToDate("recent") /\ Len(tables["recent"]) <= limit => Exact("recent")
=============================================================================
