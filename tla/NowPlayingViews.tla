-------------------------- MODULE NowPlayingViews --------------------------
(***************************************************************************)
(* The views that show what is playing, composed with the manager they     *)
(* observe: the mini player of MainTabBarController.mm and the player page *)
(* of VCMusicPlayer.mm, with the like and the download button.             *)
(*                                                                         *)
(* NSNotificationCenter calls observers inside the poster's call, so a     *)
(* step of the manager that posts also runs their handlers.  The mini      *)
(* player redraws there and then; of the page only the play button does,   *)
(* the rest is a block on the main queue that runs as a step of its own.   *)
(* A download's handler runs on the NSURLSession queue; SongDownload.tla   *)
(* has its single file operations.                                         *)
(***************************************************************************)
EXTENDS MusicPlayerManager

CONSTANTS
  maxBlocks,   \* bound: blocks waiting on the main queue
  maxTasks     \* bound: user downloads of a song, in flight or being handled

ASSUME ViewBounds == maxBlocks \in Nat /\ maxTasks \in Nat

VARIABLES
  mini,        \* minPlayerView: the object it names, its play button
  page,        \* the presented VCMusicPlayer's view, None when there is none
  mainQueue,   \* blocks dispatched to the main queue, of the views and of downloads
  favourite,   \* favouriteSongsTable
  downLoaded,  \* songs with a file in downLoadSpace
  downTasks,   \* downLoadCurrentSongForUser tasks in flight, per song
  handling     \* the song whose file the handler of such a task is writing, or None

views == <<mini, page, mainQueue>>
library == <<favourite, downLoaded, downTasks, handling>>
allVars == <<vars, views, library>>

ViewOf(m, playing) == [title |-> m, playing |-> playing]
isSongDownLoad(s) == s \in downLoaded

ViewInit ==
  /\ Init
  /\ mini = ViewOf(None, FALSE) /\ page = None /\ mainQueue = << >>
  /\ favourite = << >> /\ downLoaded \in SUBSET SongIDs
  /\ downTasks = [s \in SongIDs |-> 0] /\ handling = None

-----------------------------------------------------------------------------
(* Drawing *)

PageOf(title, playing, liked, downloaded) ==
  [title |-> title, playing |-> playing, liked |-> liked, downloaded |-> downloaded]

updatePlayState(p, playing) ==
  IF p = None THEN None ELSE PageOf(p.title, playing, p.liked, p.downloaded)

(* The page p after updateData, with the manager's properties m, playing:  *)
(* without a current song only the play button is drawn.                   *)
updateData(p, m, playing) ==
  IF m = None THEN updatePlayState(p, playing)
  ELSE PageOf(m, playing, isSongLiked(favourite, songID[m]), isSongDownLoad(songID[m]))

loadView == PageOf(None, FALSE, FALSE, FALSE)
ASSUME NoneIsNoView == loadView # None

viewDidLoad(m, playing) == updateData(loadView, m, playing)

(* A block of the page's observers; there are none while no page exists.   *)
dispatchUpdate == IF page = None THEN mainQueue ELSE Append(mainQueue, "updateData")

-----------------------------------------------------------------------------
(* What the manager's notifications do                                     *)

(* MusicPlayerStateDidChangeNotification: both play buttons, at once.      *)
MiniMissesState ==
  /\ page' = updatePlayState(page, isPlaying')
  /\ UNCHANGED <<mini, mainQueue>>
postStateNotification ==
  /\ mini' = ViewOf(mini.title, isPlaying')
  /\ page' = updatePlayState(page, isPlaying')
  /\ UNCHANGED mainQueue

(* playMusic posts MusicPlayerDidChangeSongNotification, then the state's. *)
postSongAndState ==
  /\ Len(mainQueue) < maxBlocks
  /\ mini' = ViewOf(currentModel', isPlaying')
  /\ page' = updatePlayState(page, isPlaying')
  /\ mainQueue' = dispatchUpdate

(* A row of a list, which the player page would cover: the song is played, *)
(* then a page is presented.                                               *)
SelectRow ==
  /\ page = None /\ didSelectRow
  /\ mini' = ViewOf(currentModel', isPlaying')
  /\ page' = viewDidLoad(currentModel', isPlaying')
  /\ UNCHANGED <<mainQueue, library>>

ChangeSong ==
  /\ playPrevious \/ playNext(player) \/ handlePlayEnd
  /\ postSongAndState
  /\ UNCHANGED library

ChangeState ==
  /\ togglePlayPause \/ SeekCompletes(TRUE) \/ \E m \in Models : PlayURLArrives(m)
  /\ postStateNotification
  /\ UNCHANGED library

(* Steps of the manager that post neither notification.                    *)
Unseen ==
  /\ \/ seekToTime \/ SeekCompletes(FALSE) \/ ItemFails \/ startPreloadNextSong
     \/ \E m \in Models : PlayURLFails(m) \/ PreloadURLArrives(m) \/ PreloadURLFails(m)
     \/ \E s \in SongIDs, body \in Bodies : CacheDownloadEnds(s, body)
  /\ UNCHANGED <<views, library>>

-----------------------------------------------------------------------------
(* The page *)

(* A tap on the mini player.  The page covers it.                          *)
tapAction ==
  /\ page = None
  /\ page' = viewDidLoad(currentModel, isPlaying)
  /\ UNCHANGED <<vars, mini, mainQueue, library>>

downLoadBlocks == Cardinality({i \in 1 .. Len(mainQueue) : mainQueue[i] = "downLoadFinished"})

(* Swiped down.  Its blocks still run, on a page nobody sees; the ones of  *)
(* downloads stay in the queue.                                            *)
dismiss ==
  /\ page # None /\ page' = None
  /\ mainQueue' = [i \in 1 .. downLoadBlocks |-> "downLoadFinished"]
  /\ UNCHANGED <<vars, mini, library>>

(* The like button acts on the song that is current when it is tapped.     *)
TapLikedButton ==
  /\ page # None /\ Len(mainQueue) < maxBlocks
  /\ favourite' = IF currentModel = None THEN favourite
                  ELSE LET s == songID[currentModel]
                       IN  IF isSongLiked(favourite, s) THEN unLikeSong(favourite, s)
                                                        ELSE likeSong(favourite, s)
  /\ mainQueue' = dispatchUpdate
  /\ UNCHANGED <<vars, mini, page, downLoaded, downTasks, handling>>

(* The download button; without a current song, or with its file, it       *)
(* returns.                                                                *)
downLoadCurrentSongForUser ==
  /\ page # None /\ currentModel # None
  /\ LET s == songID[currentModel]
     IN  /\ ~isSongDownLoad(s)
         /\ downTasks[s] + (IF handling = s THEN 1 ELSE 0) < maxTasks
         /\ downTasks' = [downTasks EXCEPT ![s] = @ + 1]
  /\ UNCHANGED <<vars, views, favourite, downLoaded, handling>>

-----------------------------------------------------------------------------
(* Blocks of the main queue *)

RunUpdateData(b) ==
  /\ b = "updateData" /\ mainQueue' = Tail(mainQueue)
  /\ page' = IF page = None THEN None ELSE updateData(page, currentModel, isPlaying)

FinishedIgnored(b) ==
  /\ b = "downLoadFinished" /\ mainQueue' = Tail(mainQueue) /\ UNCHANGED page
(* MusicDownLoadDidFinishedNotification: the page queues a block again.    *)
RunDownLoadFinished(b) ==
  /\ b = "downLoadFinished" /\ UNCHANGED page
  /\ mainQueue' = Tail(dispatchUpdate)

RunBlock ==
  /\ mainQueue # << >>
  /\ RunUpdateData(Head(mainQueue)) \/ RunDownLoadFinished(Head(mainQueue))
  /\ UNCHANGED <<vars, mini, library>>

-----------------------------------------------------------------------------
(* Downloads *)

DownLoadFails(s) ==
  /\ downTasks[s] > 0 /\ downTasks' = [downTasks EXCEPT ![s] = @ - 1]
  /\ UNCHANGED <<vars, views, favourite, downLoaded, handling>>

(* NSURLSession queue: a file that is already there is removed ...         *)
HandlerBegins(s) ==
  /\ handling = None /\ downTasks[s] > 0
  /\ downTasks' = [downTasks EXCEPT ![s] = @ - 1]
  /\ handling' = s
  /\ \E removed \in BOOLEAN :
       downLoaded' = IF removed THEN downLoaded \ {s} ELSE downLoaded
  /\ UNCHANGED <<vars, views, favourite>>

(* ... the new one is moved in, and whatever came of it the notification   *)
(* is dispatched to the main queue.                                        *)
HandlerEnds ==
  /\ handling # None /\ Len(mainQueue) < maxBlocks
  /\ \E moved \in BOOLEAN :
       downLoaded' = IF moved THEN downLoaded \cup {handling} ELSE downLoaded
  /\ handling' = None
  /\ mainQueue' = Append(mainQueue, "downLoadFinished")
  /\ UNCHANGED <<vars, mini, page, favourite, downTasks>>

(* A swipe on the downloads page, which the player page would cover, posts *)
(* nothing.                                                                *)
deleteDownLoadedSongsFile(s) ==
  /\ page = None /\ isSongDownLoad(s)
  /\ downLoaded' = downLoaded \ {s}
  /\ UNCHANGED <<vars, views, favourite, downTasks, handling>>

-----------------------------------------------------------------------------
ViewNext ==
  \/ SelectRow \/ ChangeSong \/ ChangeState \/ Unseen
  \/ tapAction \/ dismiss \/ TapLikedButton \/ downLoadCurrentSongForUser
  \/ RunBlock
  \/ \E s \in SongIDs : DownLoadFails(s) \/ HandlerBegins(s) \/ deleteDownLoadedSongsFile(s)
  \/ HandlerEnds

ViewSpec == ViewInit /\ [][ViewNext]_allVars

-----------------------------------------------------------------------------
(* Properties *)

(* The mini player names the current song, and after every step both play  *)
(* buttons show isPlaying, although the page's view is created later, is   *)
(* redrawn by queued blocks too, and many handlers set isPlaying.          *)
ButtonsAgree ==
  /\ mini = ViewOf(currentModel, isPlaying)
  /\ page # None => page.playing = mini.playing

(* With no block waiting and no handler between two file operations, an    *)
(* open page shows the current song, whether it is liked and whether its   *)
(* file is there: every change that can happen under an open page is       *)
(* followed by a refresh that reads after it.                              *)
DrainedPageIsCurrent ==
  page # None /\ mainQueue = << >> /\ handling = None =>
    page = updateData(loadView, currentModel, isPlaying)
=============================================================================
