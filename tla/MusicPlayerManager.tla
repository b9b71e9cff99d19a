------------------------- MODULE MusicPlayerManager -------------------------
(***************************************************************************)
(* The playback core of MusicPlayerManager.mm: the play queue, the         *)
(* AVPlayer, the URL requests of playMusic and startPreloadNextSong, and   *)
(* the cache downloads they start.                                         *)
(*                                                                         *)
(* Every handler below runs on the main queue (taps, AVPlayer callbacks,   *)
(* AFNetworking completions), so one handler is one step.  Requests are    *)
(* answered in any order.  A cache download ends on the NSURLSession queue *)
(* and is one step here; MusicCache.tla has its separate file operations   *)
(* and decides which files a prune evicts (any subset of them, here).      *)
(***************************************************************************)
EXTENDS Integers, Sequences, FiniteSets, MusicDBModel

CONSTANTS
  Models,        \* SpotifySongsModels objects
  SongIDs,       \* their songIDs; two objects may carry the same one
  songID,        \* Models -> SongIDs
  Lists,         \* the non-empty lists the pages hand to fetchSongModels
  None,          \* nil
  maxPending,    \* bound: outstanding requests or downloads per song
  maxBackground  \* bound: objects with a preload, and songs with a download, outstanding

ASSUME SongAssumption == songID \in [Models -> SongIDs]
ASSUME NoneAssumption == None \notin Models /\ None \notin SongIDs /\ None \notin Lists
ASSUME ListAssumption == \A l \in Lists : l \in Seq(Models) /\ l # << >>
ASSUME BoundAssumption == maxPending \in Nat /\ maxBackground \in Nat

VARIABLES
  playlist, currentindex, currentModel,
  isPlaying, isPreloadingNextSong,
  player,           \* AVPlayer: "none", "playing", "paused", "ended" (item played out),
                    \* "failed" (item that cannot be played, or not to its end)
  item,             \* the song of the AVPlayer's current item
  seeking,          \* a seekToTime has not completed
  playRequests,     \* outstanding fetchMusicURL calls of playMusic, per object
  preloadRequests,  \* ... and of startPreloadNextSong
  songUrl,          \* the objects whose songUrl is set
  cacheTasks,       \* downLoadSongInBackGround tasks in flight, per song
  cacheFiles,       \* songs with a file in musicCache
  errorFiles,       \* ... whose file is an error answer's body and not music
  recentPlay,       \* recentPlayTableName
  disturbed         \* history: since currentModel was chosen, its own request
                    \* failed or another song's late answer was applied

queueVars   == <<playlist, currentindex, currentModel>>
playerVars  == <<isPlaying, player, item, seeking>>
requestVars == <<playRequests, preloadRequests, isPreloadingNextSong, songUrl>>
cacheVars   == <<cacheTasks, cacheFiles, errorFiles>>
vars == <<queueVars, playerVars, requestVars, cacheVars, recentPlay, disturbed>>

PlayerStates == {"none", "playing", "paused", "ended", "failed"}

(* The type of the manager's state. *)
TypeOK ==
  /\ playlist \in Lists \cup {None}
  /\ currentindex \in Int
  /\ currentModel \in Models \cup {None}
  /\ isPlaying \in BOOLEAN /\ isPreloadingNextSong \in BOOLEAN
  /\ player \in PlayerStates /\ item \in SongIDs \cup {None} /\ seeking \in BOOLEAN
  /\ playRequests \in [Models -> Nat] /\ preloadRequests \in [Models -> Nat]
  /\ songUrl \subseteq Models
  /\ cacheTasks \in [SongIDs -> Nat] /\ cacheFiles \subseteq SongIDs
  /\ errorFiles \subseteq cacheFiles
  /\ recentPlay \in Seq(SongIDs)
  /\ disturbed \in BOOLEAN

Init ==
  /\ playlist = None /\ currentindex = 0 /\ currentModel = None
  /\ isPlaying = FALSE /\ isPreloadingNextSong = FALSE
  /\ player = "none" /\ item = None /\ seeking = FALSE
  /\ playRequests = [m \in Models |-> 0] /\ preloadRequests = [m \in Models |-> 0]
  /\ songUrl = {}
  /\ cacheTasks = [s \in SongIDs |-> 0] /\ cacheFiles \in SUBSET SongIDs
  /\ errorFiles \in SUBSET cacheFiles
  /\ recentPlay = << >>
  /\ disturbed = FALSE

-----------------------------------------------------------------------------
(* AVPlayer and playStreamWithURL *)

(* -play: resumes, unless there is no player or its item has played out or *)
(* failed.                                                                 *)
playerPlay(p)  == IF p = "paused" THEN "playing" ELSE p
playerPause(p) == IF p = "playing" THEN "paused" ELSE p

(* A new item replaces the old one, cancelling its seek; the end-of-item   *)
(* and time observers move to it; playback starts, if the item can be      *)
(* played: p is "failed" for an item that is no music.                     *)
playStreamWithURL(s, p) ==
  /\ item' = s
  /\ player' = p
  /\ isPlaying' = TRUE
  /\ seeking' = FALSE

PauseOnlyFlag == isPlaying' = FALSE /\ UNCHANGED player
pause == player' = playerPause(player) /\ isPlaying' = FALSE
play  == player' = playerPlay(player) /\ isPlaying' = TRUE

(* A stream breaks off.  Only DidPlayToEndTime is observed: no handler     *)
(* runs, and the item is not played again.                                 *)
ItemFails ==
  /\ player \in {"playing", "paused"} /\ player' = "failed"
  /\ UNCHANGED <<queueVars, isPlaying, item, seeking, requestVars, cacheVars,
                 recentPlay, disturbed>>

-----------------------------------------------------------------------------
(* Cache download: the task is started, then the cache is pruned.          *)
checkAndPruneCache ==
  cacheFiles' \in SUBSET cacheFiles /\ errorFiles' = errorFiles \cap cacheFiles'

downLoadSongInBackGround(s) ==
  /\ cacheTasks[s] < maxPending
  /\ Cardinality({t \in SongIDs : cacheTasks[t] > 0} \cup {s}) <= maxBackground
  /\ cacheTasks' = [cacheTasks EXCEPT ![s] = @ + 1]
  /\ checkAndPruneCache

(* What a download brings: the song, an error answer's body, or an NSError *)
(* and no body.                                                            *)
Bodies == {"song", "error", "none"}

(* musicCache after a download brought the body: what there was is         *)
(* replaced.  No HTTP status is looked at, an error's body is a file too.  *)
replaceFile(s, body) ==
  /\ cacheFiles' = IF body = "none" THEN cacheFiles ELSE cacheFiles \cup {s}
  /\ errorFiles' = CASE body = "none"  -> errorFiles
                     [] body = "song"  -> errorFiles \ {s}
                     [] body = "error" -> errorFiles \cup {s}

CacheDownloadEndsTwice(s, body) ==
  /\ cacheTasks' = [cacheTasks EXCEPT ![s] = @ - 1]
  /\ replaceFile(s, body)
  /\ UNCHANGED <<queueVars, playerVars, requestVars, recentPlay, disturbed>>
(* The task ends, with a body or an NSError.                               *)
CacheDownloadEnds(s, body) ==
  /\ cacheTasks[s] > 0
  /\ cacheTasks' = [cacheTasks EXCEPT ![s] = @ - 1]
  /\ replaceFile(s, body)
  /\ UNCHANGED <<queueVars, playerVars, requestVars, recentPlay, disturbed>>

-----------------------------------------------------------------------------
(* One more request for the object's URL.  It is answered once: with the   *)
(* API's URL, else with the fallback URL, or with an error.                *)
fetchMusicURL(requests, m) == [requests EXCEPT ![m] = @ + 1]

(* playMusic and its callers; p is the AVPlayer's state on entry.          *)

playMusic(m, p) ==
  /\ currentModel' = m
  /\ isPreloadingNextSong' = FALSE
  /\ recentPlay' = addRecentPlaySong(recentPlay, songID[m])
  /\ disturbed' = FALSE
  /\ \/ /\ songID[m] \in cacheFiles        \* play the file; no request
        /\ playStreamWithURL(songID[m], IF songID[m] \in errorFiles THEN "failed" ELSE "playing")
        /\ UNCHANGED playRequests
     \/ /\ songID[m] \notin cacheFiles
        /\ playRequests[m] < maxPending
        /\ playRequests' = fetchMusicURL(playRequests, m)
        /\ isPlaying' = TRUE
        /\ player' = p
        /\ UNCHANGED <<item, seeking>>
  /\ UNCHANGED <<preloadRequests, songUrl, cacheVars>>

(* A row of a page is tapped: the page's list becomes the queue.           *)
SelectKeepsIndex ==
  \E l \in Lists : \E i \in 0 .. Len(l) - 1 :
    playlist' = l /\ UNCHANGED currentindex /\ playMusic(l[i + 1], player)
didSelectRow ==
  \E l \in Lists : \E i \in 0 .. Len(l) - 1 :
    playlist' = l /\ currentindex' = i /\ playMusic(l[i + 1], player)

nextIndex == IF currentindex + 1 >= Len(playlist) THEN 0 ELSE currentindex + 1

PlayNextNoWrap(p) ==
  /\ playlist # None /\ currentindex + 1 < Len(playlist)
  /\ currentindex' = currentindex + 1
  /\ playMusic(playlist[currentindex + 2], p)
  /\ UNCHANGED playlist
playNext(p) ==
  /\ playlist # None
  /\ currentindex' = nextIndex
  /\ playMusic(playlist[nextIndex + 1], p)
  /\ UNCHANGED playlist

playPrevious ==
  /\ playlist # None
  /\ LET i == IF currentindex - 1 < 0 THEN Len(playlist) - 1 ELSE currentindex - 1
     IN  currentindex' = i /\ playMusic(playlist[i + 1], player)
  /\ UNCHANGED playlist

EndAdvancesTwice ==
  /\ player = "playing" /\ playlist # None
  /\ LET i == (nextIndex + 1) % Len(playlist)
     IN  currentindex' = i /\ playMusic(playlist[i + 1], "ended")
  /\ UNCHANGED playlist
(* The item plays to its end; the next song starts.                        *)
handlePlayEnd == player = "playing" /\ playNext("ended")

-----------------------------------------------------------------------------
(* The other controls                                                      *)

togglePlayPause ==
  /\ IF isPlaying THEN pause ELSE play
  /\ UNCHANGED <<queueVars, item, seeking, requestVars, cacheVars, recentPlay, disturbed>>

(* A message to a nil player does nothing.                                 *)
seekToTime ==
  /\ player # "none" /\ seeking' = TRUE
  /\ UNCHANGED <<queueVars, isPlaying, player, item, requestVars, cacheVars,
                 recentPlay, disturbed>>

(* A finished seek has left the end of the item, and calls play; nothing   *)
(* brings a failed item back.                                              *)
SeekCompletes(finished) ==
  /\ seeking /\ seeking' = FALSE
  /\ IF finished
     THEN /\ player' = IF player = "failed" THEN "failed" ELSE playerPlay("paused")
          /\ isPlaying' = TRUE
     ELSE UNCHANGED <<player, isPlaying>>
  /\ UNCHANGED <<queueVars, item, requestVars, cacheVars, recentPlay, disturbed>>

-----------------------------------------------------------------------------
(* Answers to playMusic's request                                          *)

PlayURLDownloadOnly(m) ==
  /\ playRequests[m] > 0
  /\ playRequests' = [playRequests EXCEPT ![m] = @ - 1]
  /\ songUrl' = songUrl \cup {m}
  /\ downLoadSongInBackGround(songID[m])
  /\ UNCHANGED <<queueVars, playerVars, preloadRequests, isPreloadingNextSong, recentPlay,
                 disturbed>>

(* A URL: it is played and cached, whatever currentModel is by now and     *)
(* whether or not it serves the song.                                      *)
PlayURLArrives(m) ==
  /\ playRequests[m] > 0
  /\ playRequests' = [playRequests EXCEPT ![m] = @ - 1]
  /\ songUrl' = songUrl \cup {m}
  /\ \E p \in {"playing", "failed"} : playStreamWithURL(songID[m], p)
  /\ downLoadSongInBackGround(songID[m])
  /\ disturbed' = (disturbed \/ songID[m] # songID[currentModel])
  /\ UNCHANGED <<queueVars, preloadRequests, isPreloadingNextSong, recentPlay>>

PlayURLFails(m) ==
  /\ playRequests[m] > 0
  /\ playRequests' = [playRequests EXCEPT ![m] = @ - 1]
  /\ disturbed' = (disturbed \/ m = currentModel)
  /\ UNCHANGED <<queueVars, playerVars, preloadRequests, isPreloadingNextSong, songUrl,
                 cacheVars, recentPlay>>

-----------------------------------------------------------------------------
(* Preloading *)

nextModel == playlist[nextIndex + 1]

(* The time observer fires within 15 s of the end of the item.             *)
startPreloadNextSong ==
  /\ player # "none" /\ ~isPreloadingNextSong
  /\ playlist # None
  /\ songID[nextModel] \notin cacheFiles
  /\ preloadRequests[nextModel] < maxPending
  /\ Cardinality({m \in Models : preloadRequests[m] > 0} \cup {nextModel}) <= maxBackground
  /\ isPreloadingNextSong' = TRUE
  /\ preloadRequests' = fetchMusicURL(preloadRequests, nextModel)
  /\ UNCHANGED <<queueVars, playerVars, playRequests, songUrl, cacheVars, recentPlay, disturbed>>

PreloadURLArrives(m) ==
  /\ preloadRequests[m] > 0
  /\ preloadRequests' = [preloadRequests EXCEPT ![m] = @ - 1]
  /\ songUrl' = songUrl \cup {m}
  /\ downLoadSongInBackGround(songID[m])
  /\ UNCHANGED <<queueVars, playerVars, playRequests, isPreloadingNextSong, recentPlay, disturbed>>

PreloadFailsKeepsFlag(m) ==
  /\ preloadRequests[m] > 0
  /\ preloadRequests' = [preloadRequests EXCEPT ![m] = @ - 1]
  /\ UNCHANGED <<queueVars, playerVars, playRequests, isPreloadingNextSong, songUrl, cacheVars,
                 recentPlay, disturbed>>
PreloadURLFails(m) ==
  /\ preloadRequests[m] > 0
  /\ preloadRequests' = [preloadRequests EXCEPT ![m] = @ - 1]
  /\ isPreloadingNextSong' = FALSE
  /\ UNCHANGED <<queueVars, playerVars, playRequests, songUrl, cacheVars, recentPlay, disturbed>>

-----------------------------------------------------------------------------
Taps ==
  \/ didSelectRow \/ playNext(player) \/ playPrevious
  \/ togglePlayPause \/ seekToTime

Events ==
  \/ \E finished \in BOOLEAN : SeekCompletes(finished)
  \/ handlePlayEnd \/ ItemFails
  \/ \E m \in Models : PlayURLArrives(m) \/ PlayURLFails(m)
  \/ startPreloadNextSong
  \/ \E m \in Models : PreloadURLArrives(m) \/ PreloadURLFails(m)
  \/ \E s \in SongIDs, body \in Bodies : CacheDownloadEnds(s, body)

Next == Taps \/ Events

Spec == Init /\ [][Next]_vars

(* Fairness: an item that plays reaches its end or fails, every request    *)
(* ends within AFNetworking's 15 s timeout.  Taps, preloads, seeks and     *)
(* cache downloads are free to happen or not.                              *)
FairSpec ==
  /\ Spec
  /\ WF_vars(handlePlayEnd)
  /\ \A m \in Models : WF_vars(PlayURLArrives(m) \/ PlayURLFails(m))

-----------------------------------------------------------------------------
(* Properties *)

(* Once a song has been chosen, currentindex is a row of playlist and that *)
(* row is currentModel: playNext, playPrevious and startPreloadNextSong    *)
(* index inside the array, whatever lists were loaded in between.          *)
CurrentIsPlaylistEntry ==
  /\ (playlist = None) = (currentModel = None)
  /\ playlist # None => /\ currentindex \in 0 .. Len(playlist) - 1
                        /\ playlist[currentindex + 1] = currentModel

(* The AVPlayer never sounds while isPlaying, which both play buttons      *)
(* show, is NO: across late answers, seeks and the end of an item.         *)
RunningImpliesIsPlaying == player = "playing" => isPlaying

(* The current song's request is answered, it did not fail and no late     *)
(* answer for another song came in after it was chosen.                    *)
Settled ==
  /\ currentModel # None /\ ~disturbed
  /\ playRequests[currentModel] = 0

(* Those are the only ways for sound and title to part: once settled, the  *)
(* AVPlayer holds the current song and runs exactly when isPlaying, unless *)
(* that song's item failed, which nothing observes.                        *)
SettledPlaybackMatches ==
  Settled => /\ item = songID[currentModel]
             /\ player \in {IF isPlaying THEN "playing" ELSE "paused", "failed"}

(* A raised isPreloadingNextSong, which suppresses every further preload,  *)
(* always stands for a request for the song that is next now: in flight or *)
(* answered with a URL.  A failed request or a change of song lowers it.   *)
PreloadFlagBacked ==
  isPreloadingNextSong =>
    /\ playlist # None
    /\ preloadRequests[nextModel] > 0 \/ nextModel \in songUrl

Cursor == INSTANCE PlaylistCursor WITH
  list <- playlist, pos <- currentindex, NoList <- None,
  last <- IF recentPlay = << >> THEN None ELSE recentPlay[Len(recentPlay)],
  played <- {recentPlay[i] : i \in 1 .. Len(recentPlay)}

(* The queue is a cyclic cursor that no answer, preload or seek moves, and *)
(* the recents table records exactly its moves, the last one last.         *)
QueueIsCursor == Cursor!Spec

(* Nothing but the user and the end of an item moves the queue, and an     *)
(* item's end moves it one row and wraps: no answer, preload, seek or      *)
(* failing item moves it, and none that meets an end makes it skip a row.  *)
AutoPlayInOrder == [][Cursor!vars' # Cursor!vars /\ Events => Cursor!Next]_vars

Heard(m) == currentModel = m /\ item = songID[m] /\ player = "playing"

(* No sound, and no answer under way that would bring any: nothing in the  *)
(* code tries again.                                                       *)
Stalled == player # "playing" /\ \A m \in Models : playRequests[m] = 0

(* Once the user has stopped, every entry of the last list gets its turn   *)
(* again and again, and is heard in it or a late answer is, or playback    *)
(* stalls: paused by the user, because the current song's own request      *)
(* failed or another's answer came late, or on an item that failed.        *)
(* Playback never stalls at a list's end, on a cached song, after a seek   *)
(* or for a preload or a cache download that failed.                       *)
StallsOnlyOnFailure ==
  <>[][Events]_vars =>
    \A l \in Lists : \A i \in 1 .. Len(l) :
      \/ <>[](playlist # l)
      \/ []<>(currentModel = l[i] /\ (Heard(l[i]) \/ disturbed))
      \/ <>[](Stalled /\ (~isPlaying \/ disturbed \/ player = "failed"))
=============================================================================
