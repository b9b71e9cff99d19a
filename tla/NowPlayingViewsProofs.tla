----------------------- MODULE NowPlayingViewsProofs -----------------------
(***************************************************************************)
(* TLAPS proofs about the player, for any songs, objects, lists and bounds:*)
(* about MusicPlayerManager, then about NowPlayingViews, whose views run   *)
(* the manager and nothing else of it, and keep up with it.                *)
(***************************************************************************)
EXTENDS NowPlayingViews, TLAPS, SequenceTheorems, FiniteSetTheorems

-----------------------------------------------------------------------------
(* The manager *)

(* The conjunction of the player's safety properties is inductive.         *)
IInv ==
  /\ TypeOK
  /\ CurrentIsPlaylistEntry
  /\ RunningImpliesIsPlaying
  /\ SettledPlaybackMatches
  /\ PreloadFlagBacked

(* What every start of a song establishes in the next state, the queue     *)
(* aside.                                                                  *)
Started(m) ==
  /\ currentModel' = m
  /\ isPlaying' = TRUE /\ isPreloadingNextSong' = FALSE /\ disturbed' = FALSE
  /\ player' \in PlayerStates /\ item' \in SongIDs \cup {None} /\ seeking' \in BOOLEAN
  /\ playRequests' \in [Models -> Nat] /\ preloadRequests' \in [Models -> Nat]
  /\ songUrl' \subseteq Models
  /\ cacheTasks' \in [SongIDs -> Nat] /\ cacheFiles' \subseteq SongIDs
  /\ errorFiles' \subseteq cacheFiles'
  /\ recentPlay' \in Seq(SongIDs)
  /\ playRequests'[m] = 0 => item' = songID[m] /\ player' \in {"playing", "failed"}

(* deleteFromTable keeps a table a sequence of songIDs.                    *)
LEMMA DeleteRowType ==
  ASSUME NEW S, NEW t \in Seq(S), NEW id
  PROVE  deleteRow(t, id) \in Seq(S)
<1>1. CASE ~hasRow(t, id)
  BY <1>1 DEF deleteRow
<1>2. CASE hasRow(t, id)
  <2> DEFINE i == CHOOSE j \in 1 .. Len(t) : t[j] = id
  <2>1. i \in 1 .. Len(t) /\ Len(t) \in Nat
    BY <1>2, LenProperties DEF hasRow
  <2> HIDE DEF i
  <2>2. SubSeq(t, 1, i - 1) \in Seq(S) /\ SubSeq(t, i + 1, Len(t)) \in Seq(S)
    BY <2>1, SubSeqProperties
  <2>3. SubSeq(t, 1, i - 1) \o SubSeq(t, i + 1, Len(t)) \in Seq(S)
    BY <2>2, ConcatProperties
  <2> QED BY <1>2, <2>3 DEF deleteRow, i
<1> QED BY <1>1, <1>2

(* INSERT OR REPLACE keeps a table a sequence of songIDs.                  *)
LEMMA InsertOrReplaceType ==
  ASSUME NEW S, NEW t \in Seq(S), NEW id \in S
  PROVE  insertOrReplaceRow(t, id) \in Seq(S)
BY DeleteRowType, AppendProperties DEF insertOrReplaceRow

(* A chosen list is a non-empty sequence of objects.                       *)
LEMMA ListShape ==
  ASSUME NEW l \in Lists
  PROVE  l \in Seq(Models) /\ Len(l) \in Nat \ {0} /\ \A i \in 1 .. Len(l) : l[i] \in Models
BY ListAssumption, EmptySeq, LenProperties, ElementOfSeq

(* playMusic, from any caller.                                             *)
LEMMA PlayMusicStarts ==
  ASSUME TypeOK, NEW m \in Models, NEW p \in PlayerStates, playMusic(m, p)
  PROVE  Started(m)
<1>1. songID[m] \in SongIDs
  BY SongAssumption
<1>2. recentPlay' \in Seq(SongIDs)
  BY <1>1, InsertOrReplaceType DEF playMusic, fetchMusicURL, addRecentPlaySong, TypeOK
<1>3. /\ preloadRequests' \in [Models -> Nat] /\ songUrl' \subseteq Models
      /\ cacheTasks' \in [SongIDs -> Nat] /\ cacheFiles' \subseteq SongIDs
      /\ errorFiles' \subseteq cacheFiles'
  BY DEF playMusic, fetchMusicURL, TypeOK, cacheVars
<1>4. CASE songID[m] \in cacheFiles
  BY <1>1, <1>2, <1>3, <1>4 DEF playMusic, fetchMusicURL, playStreamWithURL, TypeOK, Started, PlayerStates
<1>5. CASE songID[m] \notin cacheFiles
  <2>1. playRequests' = [playRequests EXCEPT ![m] = @ + 1] /\ playRequests \in [Models -> Nat]
    BY <1>5 DEF playMusic, fetchMusicURL, TypeOK
  <2>2. playRequests' \in [Models -> Nat] /\ playRequests'[m] # 0
    BY <2>1
  <2> QED BY <1>2, <1>3, <1>5, <2>2 DEF playMusic, fetchMusicURL, TypeOK, Started
<1> QED BY <1>4, <1>5

(* The whole invariant follows from a start, once the queue is in place.   *)
LEMMA StartedRestores ==
  ASSUME NEW m \in Models, Started(m), playlist' \in Lists,
         currentindex' \in 0 .. Len(playlist') - 1, playlist'[currentindex' + 1] = m
  PROVE  IInv'
<1>1. TypeOK'
  <2>1. currentindex' \in Int
    BY ListShape
  <2> QED BY <2>1 DEF Started, TypeOK
<1>2. CurrentIsPlaylistEntry'
  BY NoneAssumption DEF Started, CurrentIsPlaylistEntry
<1>3. RunningImpliesIsPlaying' /\ PreloadFlagBacked'
  BY DEF Started, RunningImpliesIsPlaying, PreloadFlagBacked
<1>4. SettledPlaybackMatches'
  BY DEF Started, SettledPlaybackMatches, Settled
<1> QED BY <1>1, <1>2, <1>3, <1>4 DEF IInv

(* The initial states satisfy the invariant. *)
LEMMA InitIInv == Init => IInv
<1> SUFFICES ASSUME Init PROVE IInv
  OBVIOUS
<1>1. TypeOK
  <2>1. /\ playRequests \in [Models -> Nat] /\ preloadRequests \in [Models -> Nat]
        /\ cacheTasks \in [SongIDs -> Nat] /\ currentindex \in Int
    BY DEF Init
  <2>2. recentPlay \in Seq(SongIDs)
    BY EmptySeq DEF Init
  <2>3. /\ isPlaying \in BOOLEAN /\ isPreloadingNextSong \in BOOLEAN
        /\ seeking \in BOOLEAN /\ disturbed \in BOOLEAN
    BY DEF Init
  <2> QED BY <2>1, <2>2, <2>3 DEF Init, TypeOK, PlayerStates
<1>2. CurrentIsPlaylistEntry /\ RunningImpliesIsPlaying /\ SettledPlaybackMatches
  BY DEF Init, CurrentIsPlaylistEntry, RunningImpliesIsPlaying, SettledPlaybackMatches, Settled
<1>3. PreloadFlagBacked
  BY DEF Init, PreloadFlagBacked
<1> QED BY <1>1, <1>2, <1>3 DEF IInv

(* The row after the current one, and its object.                          *)
LEMMA NextRow ==
  ASSUME TypeOK, CurrentIsPlaylistEntry, playlist # None
  PROVE  /\ playlist \in Lists
         /\ currentindex \in 0 .. Len(playlist) - 1 /\ Len(playlist) \in Nat \ {0}
         /\ nextIndex \in 0 .. Len(playlist) - 1 /\ nextModel \in Models
         /\ nextIndex = IF currentindex = Len(playlist) - 1 THEN 0 ELSE currentindex + 1
<1>1. playlist \in Lists /\ currentindex \in 0 .. Len(playlist) - 1
  BY DEF TypeOK, CurrentIsPlaylistEntry
<1>2. Len(playlist) \in Nat \ {0} /\ \A i \in 1 .. Len(playlist) : playlist[i] \in Models
  BY <1>1, ListShape
<1>3. /\ nextIndex \in 0 .. Len(playlist) - 1
      /\ nextIndex = IF currentindex = Len(playlist) - 1 THEN 0 ELSE currentindex + 1
  BY <1>1, <1>2 DEF nextIndex
<1> QED BY <1>1, <1>2, <1>3 DEF nextModel

(* A row is tapped.                                                        *)
LEMMA SelectStep == IInv /\ didSelectRow => IInv'
<1> SUFFICES ASSUME IInv, didSelectRow PROVE IInv'
  OBVIOUS
<1>1. PICK l \in Lists : \E i \in 0 .. Len(l) - 1 :
        playlist' = l /\ currentindex' = i /\ playMusic(l[i + 1], player)
  BY DEF didSelectRow
<1>2. PICK i \in 0 .. Len(l) - 1 :
        playlist' = l /\ currentindex' = i /\ playMusic(l[i + 1], player)
  BY <1>1
<1>3. l[i + 1] \in Models
  BY ListShape
<1>4. Started(l[i + 1])
  BY <1>2, <1>3, PlayMusicStarts DEF IInv, TypeOK
<1> QED BY <1>2, <1>3, <1>4, StartedRestores

(* The queue moves one row on, from a tap or from the end of an item.      *)
LEMMA PlayNextStep ==
  ASSUME IInv, NEW p \in PlayerStates, playNext(p)
  PROVE  IInv'
<1>1. playlist # None /\ playlist' = playlist /\ currentindex' = nextIndex
      /\ playMusic(nextModel, p)
  BY DEF playNext, nextModel
<1>2. /\ playlist \in Lists /\ nextIndex \in 0 .. Len(playlist) - 1 /\ nextModel \in Models
  BY <1>1, NextRow DEF IInv
<1>3. Started(nextModel)
  BY <1>1, <1>2, PlayMusicStarts DEF IInv
<1>4. playlist'[currentindex' + 1] = nextModel
  BY <1>1 DEF nextModel
<1> QED BY <1>1, <1>2, <1>3, <1>4, StartedRestores

(* The queue moves one row back.                                           *)
LEMMA PlayPreviousStep == IInv /\ playPrevious => IInv'
<1> SUFFICES ASSUME IInv, playPrevious PROVE IInv'
  OBVIOUS
<1> DEFINE i == IF currentindex - 1 < 0 THEN Len(playlist) - 1 ELSE currentindex - 1
<1>1. playlist # None /\ playlist' = playlist /\ currentindex' = i
      /\ playMusic(playlist[i + 1], player)
  BY DEF playPrevious
<1>2. playlist \in Lists /\ i \in 0 .. Len(playlist) - 1
  BY <1>1, NextRow DEF IInv
<1>3. playlist[i + 1] \in Models
  BY <1>2, ListShape
<1>4. Started(playlist[i + 1])
  BY <1>1, <1>3, PlayMusicStarts DEF IInv, TypeOK
<1> QED BY <1>1, <1>2, <1>3, <1>4, StartedRestores

(* Every other step leaves the queue alone.                                *)
LEMMA QueueKept ==
  ASSUME IInv, UNCHANGED queueVars
  PROVE  CurrentIsPlaylistEntry' /\ nextModel' = nextModel
BY DEF IInv, queueVars, CurrentIsPlaylistEntry, nextModel, nextIndex

(* Play, pause and seek.                                                   *)
LEMMA ControlStep ==
  ASSUME IInv, togglePlayPause \/ seekToTime \/ \E f \in BOOLEAN : SeekCompletes(f)
  PROVE  IInv'
<1> DEFINE Kept ==
      /\ UNCHANGED <<queueVars, item, playRequests, preloadRequests, isPreloadingNextSong,
                     songUrl, cacheTasks, cacheFiles, errorFiles, recentPlay, disturbed>>
      /\ isPlaying' \in BOOLEAN /\ seeking' \in BOOLEAN /\ player' \in PlayerStates
      /\ player' = "playing" => isPlaying'
      /\ player \in {IF isPlaying THEN "playing" ELSE "paused", "failed"} =>
           player' \in {IF isPlaying' THEN "playing" ELSE "paused", "failed"}
<1>1. Kept
  <2>1. CASE togglePlayPause
    BY <2>1 DEF togglePlayPause, play, pause, playerPlay, playerPause, IInv, TypeOK,
       PlayerStates, RunningImpliesIsPlaying, requestVars, cacheVars
  <2>2. CASE seekToTime
    BY <2>2 DEF seekToTime, IInv, TypeOK, RunningImpliesIsPlaying, requestVars, cacheVars
  <2>3. ASSUME NEW f \in BOOLEAN, SeekCompletes(f) PROVE Kept
    BY <2>3 DEF SeekCompletes, playerPlay, IInv, TypeOK, PlayerStates,
       RunningImpliesIsPlaying, requestVars, cacheVars
  <2> QED BY <2>1, <2>2, <2>3
<1>2. CurrentIsPlaylistEntry' /\ nextModel' = nextModel
  BY <1>1, QueueKept
<1>3. TypeOK'
  BY <1>1 DEF IInv, TypeOK, queueVars
<1>4. RunningImpliesIsPlaying'
  BY <1>1 DEF RunningImpliesIsPlaying
<1>5. SettledPlaybackMatches'
  BY <1>1 DEF IInv, SettledPlaybackMatches, Settled, queueVars
<1>6. PreloadFlagBacked'
  BY <1>1, <1>2 DEF IInv, PreloadFlagBacked, queueVars
<1> QED BY <1>2, <1>3, <1>4, <1>5, <1>6 DEF IInv

(* downLoadSongInBackGround keeps the cache's types.                       *)
LEMMA DownloadType ==
  ASSUME TypeOK, NEW m \in Models, downLoadSongInBackGround(songID[m])
  PROVE  /\ cacheTasks' \in [SongIDs -> Nat] /\ cacheFiles' \subseteq SongIDs
         /\ errorFiles' \subseteq cacheFiles'
BY SongAssumption DEF TypeOK, downLoadSongInBackGround, checkAndPruneCache

(* The URL of a song arrives, for the current song or a former one.        *)
LEMMA PlayURLArrivesStep ==
  ASSUME IInv, NEW m \in Models, PlayURLArrives(m)
  PROVE  IInv'
<1>1. /\ playRequests' \in [Models -> Nat]
      /\ songUrl' = songUrl \cup {m}
      /\ item' = songID[m] /\ player' \in {"playing", "failed"}
      /\ isPlaying' = TRUE /\ seeking' = FALSE
      /\ disturbed' = (disturbed \/ songID[m] # songID[currentModel])
      /\ UNCHANGED <<queueVars, preloadRequests, isPreloadingNextSong, recentPlay>>
  BY DEF PlayURLArrives, playStreamWithURL, IInv, TypeOK
<1>2. /\ cacheTasks' \in [SongIDs -> Nat] /\ cacheFiles' \subseteq SongIDs
      /\ errorFiles' \subseteq cacheFiles'
  BY DownloadType DEF PlayURLArrives, IInv
<1>3. CurrentIsPlaylistEntry' /\ nextModel' = nextModel
  BY <1>1, QueueKept
<1>4. TypeOK'
  <2>1. disturbed' \in BOOLEAN /\ isPlaying' \in BOOLEAN /\ seeking' \in BOOLEAN
    BY <1>1
  <2> QED BY <1>1, <1>2, <2>1, SongAssumption DEF IInv, TypeOK, queueVars, PlayerStates
<1>5. RunningImpliesIsPlaying'
  BY <1>1 DEF RunningImpliesIsPlaying
<1>6. SettledPlaybackMatches'
  BY <1>1 DEF IInv, SettledPlaybackMatches, Settled, queueVars
<1>7. PreloadFlagBacked'
  BY <1>1, <1>3 DEF IInv, PreloadFlagBacked, queueVars
<1> QED BY <1>3, <1>4, <1>5, <1>6, <1>7 DEF IInv

(* The request of playMusic fails.                                         *)
LEMMA PlayURLFailsStep ==
  ASSUME IInv, NEW m \in Models, PlayURLFails(m)
  PROVE  IInv'
<1>1. /\ playRequests' = [playRequests EXCEPT ![m] = @ - 1] /\ playRequests[m] > 0
      /\ playRequests \in [Models -> Nat]
      /\ disturbed' = (disturbed \/ m = currentModel)
      /\ UNCHANGED <<queueVars, isPlaying, player, item, seeking, preloadRequests,
                     isPreloadingNextSong, songUrl, cacheVars, recentPlay>>
  BY DEF PlayURLFails, playerVars, IInv, TypeOK
<1>2. CurrentIsPlaylistEntry' /\ nextModel' = nextModel
  BY <1>1, QueueKept
<1>3. TypeOK'
  <2>1. disturbed' \in BOOLEAN
    BY <1>1
  <2>2. playRequests' \in [Models -> Nat]
    BY <1>1
  <2> QED BY <1>1, <2>1, <2>2 DEF IInv, TypeOK, queueVars, cacheVars
<1>4. SettledPlaybackMatches'
  BY <1>1 DEF IInv, TypeOK, SettledPlaybackMatches, Settled, queueVars
<1>5. RunningImpliesIsPlaying' /\ PreloadFlagBacked'
  BY <1>1, <1>2 DEF IInv, RunningImpliesIsPlaying, PreloadFlagBacked, queueVars
<1> QED BY <1>2, <1>3, <1>4, <1>5 DEF IInv

(* A stream breaks off.                                                    *)
LEMMA ItemFailsStep == IInv /\ ItemFails => IInv'
<1> SUFFICES ASSUME IInv, ItemFails PROVE IInv'
  OBVIOUS
<1>1. /\ player' = "failed"
      /\ UNCHANGED <<queueVars, isPlaying, item, seeking, playRequests, preloadRequests,
                     isPreloadingNextSong, songUrl, cacheVars, recentPlay, disturbed>>
  BY DEF ItemFails, requestVars
<1>2. CurrentIsPlaylistEntry' /\ nextModel' = nextModel
  BY <1>1, QueueKept
<1>3. TypeOK'
  BY <1>1 DEF IInv, TypeOK, queueVars, cacheVars, PlayerStates
<1>4. SettledPlaybackMatches' /\ RunningImpliesIsPlaying'
  BY <1>1 DEF IInv, SettledPlaybackMatches, Settled, RunningImpliesIsPlaying, queueVars
<1>5. PreloadFlagBacked'
  BY <1>1, <1>2 DEF IInv, PreloadFlagBacked, queueVars
<1> QED BY <1>2, <1>3, <1>4, <1>5 DEF IInv

(* The request for the next song is sent, answered or fails, or a cache    *)
(* download ends: the player and playMusic's requests are untouched.       *)
LEMMA BackgroundStep ==
  ASSUME IInv,
         UNCHANGED <<queueVars, isPlaying, player, item, seeking, playRequests, recentPlay,
                     disturbed>>,
         isPreloadingNextSong' \in BOOLEAN, preloadRequests' \in [Models -> Nat],
         songUrl' \subseteq Models,
         cacheTasks' \in [SongIDs -> Nat], cacheFiles' \subseteq SongIDs,
         errorFiles' \subseteq cacheFiles',
         PreloadFlagBacked'
  PROVE  IInv'
<1>1. CurrentIsPlaylistEntry'
  BY QueueKept
<1>2. TypeOK'
  BY DEF IInv, TypeOK, queueVars
<1>3. SettledPlaybackMatches'
  BY DEF IInv, SettledPlaybackMatches, Settled, queueVars
<1>4. RunningImpliesIsPlaying'
  BY DEF IInv, RunningImpliesIsPlaying
<1> QED BY <1>1, <1>2, <1>3, <1>4 DEF IInv

(* startPreloadNextSong raises the flag with its request.                  *)
LEMMA PreloadStep == IInv /\ startPreloadNextSong => IInv'
<1> SUFFICES ASSUME IInv, startPreloadNextSong PROVE IInv'
  OBVIOUS
<1>1. /\ playlist # None /\ isPreloadingNextSong' = TRUE
      /\ preloadRequests' = [preloadRequests EXCEPT ![nextModel] = @ + 1]
      /\ UNCHANGED <<queueVars, isPlaying, player, item, seeking, playRequests, songUrl,
                     cacheTasks, cacheFiles, errorFiles, recentPlay, disturbed>>
  BY DEF startPreloadNextSong, fetchMusicURL, playerVars, cacheVars
<1>2. nextModel \in Models /\ preloadRequests \in [Models -> Nat]
  BY <1>1, NextRow DEF IInv, TypeOK
<1>3. nextModel' = nextModel
  BY <1>1, QueueKept
<1>4. preloadRequests' \in [Models -> Nat] /\ preloadRequests'[nextModel] > 0
  BY <1>1, <1>2
<1>5. PreloadFlagBacked'
  BY <1>1, <1>3, <1>4 DEF PreloadFlagBacked, queueVars
<1> QED BY <1>1, <1>4, <1>5, BackgroundStep DEF IInv, TypeOK

(* The URL of a preloaded song arrives.                                    *)
LEMMA PreloadURLArrivesStep ==
  ASSUME IInv, NEW m \in Models, PreloadURLArrives(m)
  PROVE  IInv'
<1>1. /\ preloadRequests' = [preloadRequests EXCEPT ![m] = @ - 1] /\ preloadRequests[m] > 0
      /\ preloadRequests \in [Models -> Nat]
      /\ songUrl' = songUrl \cup {m}
      /\ UNCHANGED <<queueVars, isPlaying, player, item, seeking, playRequests,
                     isPreloadingNextSong, recentPlay, disturbed>>
  BY DEF PreloadURLArrives, playerVars, IInv, TypeOK
<1>2. /\ cacheTasks' \in [SongIDs -> Nat] /\ cacheFiles' \subseteq SongIDs
      /\ errorFiles' \subseteq cacheFiles'
  BY DownloadType DEF PreloadURLArrives, IInv
<1>3. nextModel' = nextModel
  BY <1>1, QueueKept
<1>4. preloadRequests' \in [Models -> Nat]
      /\ \A n \in Models \ {m} : preloadRequests'[n] = preloadRequests[n]
  BY <1>1
<1>5. PreloadFlagBacked'
  <2>1. playlist # None => nextModel \in Models
    BY NextRow DEF IInv
  <2> QED BY <1>1, <1>3, <1>4, <2>1 DEF IInv, PreloadFlagBacked, queueVars
<1> QED BY <1>1, <1>2, <1>4, <1>5, BackgroundStep DEF IInv, TypeOK

(* A preload request fails and lowers the flag.                            *)
LEMMA PreloadURLFailsStep ==
  ASSUME IInv, NEW m \in Models, PreloadURLFails(m)
  PROVE  IInv'
<1>1. /\ preloadRequests' \in [Models -> Nat] /\ isPreloadingNextSong' = FALSE
      /\ UNCHANGED <<queueVars, isPlaying, player, item, seeking, playRequests, songUrl,
                     cacheTasks, cacheFiles, errorFiles, recentPlay, disturbed>>
  BY DEF PreloadURLFails, playerVars, cacheVars, IInv, TypeOK
<1>2. PreloadFlagBacked'
  BY <1>1 DEF PreloadFlagBacked
<1> QED BY <1>1, <1>2, BackgroundStep DEF IInv, TypeOK

(* A cache download ends.                                                  *)
LEMMA CacheDownloadStep ==
  ASSUME IInv, NEW s \in SongIDs, NEW body \in Bodies, CacheDownloadEnds(s, body)
  PROVE  IInv'
<1>1. /\ cacheTasks' \in [SongIDs -> Nat]
      /\ UNCHANGED <<queueVars, isPlaying, player, item, seeking, playRequests,
                     preloadRequests, isPreloadingNextSong, songUrl, recentPlay, disturbed>>
  BY DEF CacheDownloadEnds, playerVars, requestVars, IInv, TypeOK
<1>3. cacheFiles' \subseteq SongIDs /\ errorFiles' \subseteq cacheFiles'
  BY DEF CacheDownloadEnds, replaceFile, Bodies, IInv, TypeOK
<1>2. PreloadFlagBacked'
  BY <1>1, QueueKept DEF IInv, PreloadFlagBacked, queueVars
<1> QED BY <1>1, <1>2, <1>3, BackgroundStep DEF IInv, TypeOK

(* Every step of the player preserves the invariant.                       *)
LEMMA NextIInv == IInv /\ [Next]_vars => IInv'
<1> SUFFICES ASSUME IInv, [Next]_vars PROVE IInv'
  OBVIOUS
<1>1. player \in PlayerStates /\ "ended" \in PlayerStates
  BY DEF IInv, TypeOK, PlayerStates
<1>2. CASE didSelectRow
  BY <1>2, SelectStep
<1>3. CASE playNext(player)
  BY <1>1, <1>3, PlayNextStep
<1>4. CASE playPrevious
  BY <1>4, PlayPreviousStep
<1>5. CASE togglePlayPause \/ seekToTime \/ \E f \in BOOLEAN : SeekCompletes(f)
  BY <1>5, ControlStep
<1>6. CASE handlePlayEnd
  BY <1>1, <1>6, PlayNextStep DEF handlePlayEnd
<1>7. CASE \E m \in Models : PlayURLArrives(m) \/ PlayURLFails(m)
  BY <1>7, PlayURLArrivesStep, PlayURLFailsStep
<1>8. CASE startPreloadNextSong
  BY <1>8, PreloadStep
<1>9. CASE \E m \in Models : PreloadURLArrives(m) \/ PreloadURLFails(m)
  BY <1>9, PreloadURLArrivesStep, PreloadURLFailsStep
<1>10. CASE \E s \in SongIDs, body \in Bodies : CacheDownloadEnds(s, body)
  BY <1>10, CacheDownloadStep
<1>11. CASE UNCHANGED vars
  <2>1. /\ UNCHANGED <<queueVars, isPlaying, player, item, seeking, playRequests,
                       preloadRequests, isPreloadingNextSong, songUrl, cacheTasks, cacheFiles,
                       errorFiles, recentPlay, disturbed>>
    BY <1>11 DEF vars, playerVars, requestVars, cacheVars
  <2>2. PreloadFlagBacked'
    BY <2>1, QueueKept DEF IInv, PreloadFlagBacked, queueVars
  <2> QED BY <2>1, <2>2, BackgroundStep DEF IInv, TypeOK
<1>12. CASE ItemFails
  BY <1>12, ItemFailsStep
<1> QED BY <1>2, <1>3, <1>4, <1>5, <1>6, <1>7, <1>8, <1>9, <1>10, <1>11, <1>12
        DEF Next, Taps, Events

(* The invariant holds in every reachable state.                           *)
THEOREM Inductive == Spec => []IInv
BY InitIInv, NextIInv, PTL DEF Spec

(* The state of MusicPlayerManager is always well typed: counters of       *)
(* outstanding requests never go below zero.                               *)
THEOREM TypeCorrect == Spec => []TypeOK
<1>1. IInv => TypeOK
  BY DEF IInv
<1> QED BY <1>1, Inductive, PTL

(* playNext, playPrevious and startPreloadNextSong always index inside     *)
(* the playlist, whose current row is currentModel.                        *)
THEOREM QueueInRange == Spec => []CurrentIsPlaylistEntry
<1>1. IInv => CurrentIsPlaylistEntry
  BY DEF IInv
<1> QED BY <1>1, Inductive, PTL

(* The AVPlayer sounds only while isPlaying is YES.                        *)
THEOREM NoSoundWhilePaused == Spec => []RunningImpliesIsPlaying
<1>1. IInv => RunningImpliesIsPlaying
  BY DEF IInv
<1> QED BY <1>1, Inductive, PTL

(* Only a failed request or a late answer parts the sound from the title.  *)
THEOREM TitleMatchesSound == Spec => []SettledPlaybackMatches
<1>1. IInv => SettledPlaybackMatches
  BY DEF IInv
<1> QED BY <1>1, Inductive, PTL

(* A raised preload flag stands for a request for the next song.           *)
THEOREM PreloadNotBlocked == Spec => []PreloadFlagBacked
<1>1. IInv => PreloadFlagBacked
  BY DEF IInv
<1> QED BY <1>1, Inductive, PTL

(* The keys of a table.                                                    *)
Rows(t) == {t[i] : i \in 1 .. Len(t)}

(* The rows left by deleteFromTable, with the key, are the rows there were. *)
LEMMA DeleteRowRange ==
  ASSUME NEW S, NEW t \in Seq(S), NEW id
  PROVE  Rows(deleteRow(t, id)) \cup {id} = Rows(t) \cup {id}
<1>1. CASE ~hasRow(t, id)
  BY <1>1 DEF deleteRow
<1>2. CASE hasRow(t, id)
  <2> DEFINE k == CHOOSE j \in 1 .. Len(t) : t[j] = id
             a == SubSeq(t, 1, k - 1)
             b == SubSeq(t, k + 1, Len(t))
             d == a \o b
  <2>1. k \in 1 .. Len(t) /\ t[k] = id /\ Len(t) \in Nat
    BY <1>2, LenProperties DEF hasRow
  <2>2. deleteRow(t, id) = d
    BY <1>2 DEF deleteRow
  <2> HIDE DEF k
  <2>3. /\ a \in Seq(S) /\ Len(a) = k - 1 /\ \A i \in 1 .. k - 1 : a[i] = t[i]
        /\ b \in Seq(S) /\ Len(b) = Len(t) - k /\ \A i \in 1 .. Len(t) - k : b[i] = t[k + i]
    BY <2>1, SubSeqProperties
  <2> HIDE DEF a, b
  <2>4. /\ Len(d) = Len(t) - 1
        /\ \A i \in 1 .. Len(t) - 1 : d[i] = IF i <= k - 1 THEN t[i] ELSE t[i + 1]
    <3>1. /\ Len(d) = Len(a) + Len(b)
          /\ \A i \in 1 .. Len(a) + Len(b) : d[i] = IF i <= Len(a) THEN a[i] ELSE b[i - Len(a)]
      BY <2>3, ConcatProperties
    <3> HIDE DEF d
    <3>2. Len(a) + Len(b) = Len(t) - 1
      BY <2>1, <2>3
    <3>3. ASSUME NEW i \in 1 .. Len(t) - 1
          PROVE  d[i] = IF i <= k - 1 THEN t[i] ELSE t[i + 1]
      <4>1. CASE i <= k - 1
        <5>1. i \in 1 .. k - 1 /\ i \in 1 .. Len(a) + Len(b) /\ i <= Len(a)
          BY <2>1, <2>3, <3>2, <4>1
        <5>2. d[i] = a[i]
          BY <3>1, <5>1
        <5> QED BY <2>3, <4>1, <5>1, <5>2
      <4>2. CASE ~(i <= k - 1)
        <5>1. i - (k - 1) \in 1 .. Len(t) - k /\ k + (i - (k - 1)) = i + 1
          BY <2>1, <4>2
        <5>2. d[i] = b[i - (k - 1)]
          BY <2>1, <2>3, <3>1, <3>2, <4>2
        <5> QED BY <2>3, <4>2, <5>1, <5>2
      <4> QED BY <4>1, <4>2
    <3> QED BY <3>1, <3>2, <3>3
  <2> HIDE DEF d
  <2>5. ASSUME NEW i \in 1 .. Len(t), t[i] # id
        PROVE  \E j \in 1 .. Len(d) : d[j] = t[i]
    <3>1. CASE i < k
      BY <2>1, <2>4, <3>1
    <3>2. CASE i > k
      <4>1. i - 1 \in 1 .. Len(d) /\ d[i - 1] = t[i]
        BY <2>1, <2>4, <3>2
      <4> QED BY <4>1
    <3> QED BY <2>1, <2>5, <3>1, <3>2
  <2>6. ASSUME NEW i \in 1 .. Len(d)
        PROVE  \E j \in 1 .. Len(t) : t[j] = d[i]
    BY <2>1, <2>4
  <2> QED BY <2>2, <2>5, <2>6 DEF Rows
<1> QED BY <1>1, <1>2

(* A play puts its song last in the recents table, and adds only it.       *)
LEMMA PlayRecords ==
  ASSUME NEW t \in Seq(SongIDs), NEW s \in SongIDs
  PROVE  /\ addRecentPlaySong(t, s) # << >>
         /\ addRecentPlaySong(t, s)[Len(addRecentPlaySong(t, s))] = s
         /\ Rows(addRecentPlaySong(t, s)) = Rows(t) \cup {s}
<1> DEFINE d == deleteRow(t, s)
           u == Append(d, s)
<1>1. d \in Seq(SongIDs) /\ Len(d) \in Nat
  BY DeleteRowType, LenProperties
<1>2. Rows(d) \cup {s} = Rows(t) \cup {s}
  BY DeleteRowRange
<1>3. addRecentPlaySong(t, s) = u
  BY DEF addRecentPlaySong, insertOrReplaceRow
<1> HIDE DEF d
<1>4. Len(u) = Len(d) + 1 /\ u[Len(d) + 1] = s /\ \A i \in 1 .. Len(d) : u[i] = d[i]
  BY <1>1, AppendProperties
<1>5. u # << >>
  BY <1>1, AppendProperties
<1> HIDE DEF u
<1>6. Rows(u) = Rows(d) \cup {s}
  BY <1>1, <1>4 DEF Rows
<1> QED BY <1>2, <1>3, <1>4, <1>5, <1>6

(* The next state's recents table has m as the song played last.           *)
Recorded(m) ==
  /\ recentPlay' # << >> /\ recentPlay'[Len(recentPlay')] = songID[m]
  /\ Rows(recentPlay') = Rows(recentPlay) \cup {songID[m]}

(* playMusic records its song: the cursor's arrival.                       *)
LEMMA PlayMusicRecords ==
  ASSUME IInv, NEW m \in Models, NEW p \in PlayerStates, playMusic(m, p)
  PROVE  Recorded(m)
<1>1. songID[m] \in SongIDs /\ recentPlay \in Seq(SongIDs)
  BY SongAssumption DEF IInv, TypeOK
<1>2. recentPlay' = addRecentPlaySong(recentPlay, songID[m])
  BY DEF playMusic
<1> QED BY <1>1, <1>2, PlayRecords DEF Recorded

(* playNext is the cursor's Next, for any state of the AVPlayer.           *)
LEMMA PlayNextIsNext ==
  ASSUME IInv, NEW p \in PlayerStates, playNext(p)
  PROVE  Cursor!Next
<1>1. playlist # None /\ currentindex' = nextIndex /\ playlist' = playlist
      /\ playMusic(nextModel, p)
  BY DEF playNext, nextModel
<1>2. nextModel \in Models /\ playlist \in Lists
      /\ nextIndex = IF currentindex = Len(playlist) - 1 THEN 0 ELSE currentindex + 1
  BY <1>1, NextRow DEF IInv
<1>3. Recorded(nextModel)
  BY <1>1, <1>2, PlayMusicRecords
<1>4. nextModel = playlist[currentindex' + 1]
  BY <1>1 DEF nextModel
<1> QED BY <1>1, <1>2, <1>3, <1>4 DEF Cursor!Next, Cursor!Arrive, Recorded, Rows

(* Selecting a row is the cursor's Load.                                   *)
LEMMA SelectIsLoad == IInv /\ didSelectRow => Cursor!Load
<1> SUFFICES ASSUME IInv, didSelectRow PROVE Cursor!Load
  OBVIOUS
<1>1. PICK l \in Lists : \E i \in 0 .. Len(l) - 1 :
        playlist' = l /\ currentindex' = i /\ playMusic(l[i + 1], player)
  BY DEF didSelectRow
<1>2. PICK i \in 0 .. Len(l) - 1 :
        playlist' = l /\ currentindex' = i /\ playMusic(l[i + 1], player)
  BY <1>1
<1>3. l[i + 1] \in Models /\ player \in PlayerStates
  BY <1>2, ListShape DEF IInv, TypeOK
<1>4. Recorded(l[i + 1])
  BY <1>2, <1>3, PlayMusicRecords
<1> QED BY <1>2, <1>4 DEF Cursor!Load, Cursor!Arrive, Recorded, Rows

(* A step that leaves queue and recents alone does not move the cursor.    *)
LEMMA CursorKept ==
  ASSUME UNCHANGED queueVars, UNCHANGED recentPlay
  PROVE  UNCHANGED Cursor!vars
BY DEF queueVars, Cursor!vars

(* The play queue and the recents table implement the cyclic cursor.       *)
THEOREM QueueRefinesCursor == Spec => QueueIsCursor
<1>1. Init => Cursor!Init
  BY DEF Init, Cursor!Init
<1>2. IInv /\ [Next]_vars => [Cursor!Load \/ Cursor!Next \/ Cursor!Previous]_(Cursor!vars)
  <2> SUFFICES ASSUME IInv, [Next]_vars
               PROVE  Cursor!Load \/ Cursor!Next \/ Cursor!Previous \/ UNCHANGED Cursor!vars
    OBVIOUS
  <2>1. CASE didSelectRow
    BY <2>1, SelectIsLoad
  <2>2. player \in PlayerStates /\ "ended" \in PlayerStates
    BY DEF IInv, TypeOK, PlayerStates
  <2>3. CASE playNext(player) \/ handlePlayEnd
    BY <2>2, <2>3, PlayNextIsNext DEF handlePlayEnd
  <2>4. CASE playPrevious
    <3> DEFINE j == IF currentindex - 1 < 0 THEN Len(playlist) - 1 ELSE currentindex - 1
    <3>1. /\ playlist # None /\ playlist' = playlist
          /\ currentindex' = j /\ playMusic(playlist[j + 1], player)
      BY <2>4 DEF playPrevious
    <3>2. playlist \in Lists /\ currentindex \in 0 .. Len(playlist) - 1 /\ j \in 0 .. Len(playlist) - 1
      BY <3>1, NextRow DEF IInv
    <3>3. playlist[j + 1] \in Models
      BY <3>2, ListShape
    <3>4. Recorded(playlist[j + 1])
      BY <2>2, <3>1, <3>3, PlayMusicRecords
    <3>5. j = IF currentindex = 0 THEN Len(playlist) - 1 ELSE currentindex - 1
      BY <3>2
    <3> HIDE DEF j
    <3> QED BY <3>1, <3>2, <3>4, <3>5 DEF Cursor!Previous, Cursor!Arrive, Recorded, Rows
  <2>5. CASE UNCHANGED queueVars /\ UNCHANGED recentPlay
    BY <2>5, CursorKept
  <2> QED BY <2>1, <2>3, <2>4, <2>5 DEF Next, Taps, Events, vars, togglePlayPause,
       seekToTime, SeekCompletes, ItemFails, PlayURLArrives, PlayURLFails, startPreloadNextSong,
       PreloadURLArrives, PreloadURLFails, CacheDownloadEnds
<1> QED BY <1>1, <1>2, Inductive, PTL DEF Spec, QueueIsCursor, Cursor!Spec

(* No event of the player moves the queue but the end of an item, and that *)
(* moves it one row on, whatever the user does in between.                 *)
THEOREM EventsAdvanceByOne == Spec => AutoPlayInOrder
<1>1. ASSUME IInv, Events, Cursor!vars' # Cursor!vars PROVE Cursor!Next
  <2>1. CASE handlePlayEnd
    <3>1. "ended" \in PlayerStates
      BY DEF PlayerStates
    <3> QED BY <1>1, <2>1, <3>1, PlayNextIsNext DEF handlePlayEnd
  <2>2. CASE UNCHANGED queueVars /\ UNCHANGED recentPlay
    BY <1>1, <2>2, CursorKept
  <2> QED BY <1>1, <2>1, <2>2 DEF Events, SeekCompletes, ItemFails, PlayURLArrives,
       PlayURLFails, startPreloadNextSong, PreloadURLArrives, PreloadURLFails, CacheDownloadEnds
<1>2. IInv /\ [Next]_vars => [Cursor!vars' # Cursor!vars /\ Events => Cursor!Next]_vars
  BY <1>1
<1> QED BY <1>2, Inductive, PTL DEF Spec, AutoPlayInOrder

-----------------------------------------------------------------------------
(* The views *)

Blocks == {"updateData", "downLoadFinished"}

(* What updateData draws, with the tables it reads made explicit.          *)
Drawn(m, playing, likes, files) ==
  IF m = None THEN PageOf(None, playing, FALSE, FALSE)
  ELSE PageOf(m, playing, isSongLiked(likes, songID[m]), songID[m] \in files)

(* Besides the two properties: a page opened before any song was chosen    *)
(* stays blank but for its button.                                         *)
PageInv ==
  /\ mainQueue \in Seq(Blocks)
  /\ mini = ViewOf(currentModel, isPlaying)
  /\ page # None =>
       /\ page.playing = isPlaying
       /\ currentModel = None => page = Drawn(None, isPlaying, favourite, downLoaded)
       /\ mainQueue = << >> /\ handling = None =>
            page = Drawn(currentModel, isPlaying, favourite, downLoaded)

ViewInv == IInv /\ PageInv

-----------------------------------------------------------------------------
(* Each step of the composed specification is a step of the manager, or    *)
(* leaves the manager alone.                                               *)
LEMMA ViewStepIsManagerStep == [ViewNext]_allVars => [Next]_vars
<1> SUFFICES ASSUME [ViewNext]_allVars PROVE Next \/ UNCHANGED vars
  OBVIOUS
<1>1. CASE SelectRow \/ ChangeSong
  BY <1>1 DEF SelectRow, ChangeSong, Next, Taps, Events
<1>2. CASE ChangeState
  BY <1>2 DEF ChangeState, Next, Taps, Events
<1>3. CASE Unseen
  BY <1>3 DEF Unseen, Next, Taps, Events
<1>4. CASE tapAction \/ dismiss \/ TapLikedButton \/ downLoadCurrentSongForUser \/ RunBlock
  BY <1>4 DEF tapAction, dismiss, TapLikedButton, downLoadCurrentSongForUser, RunBlock
<1>5. CASE HandlerEnds \/ \E s \in SongIDs :
             DownLoadFails(s) \/ HandlerBegins(s) \/ deleteDownLoadedSongsFile(s)
  BY <1>5 DEF HandlerEnds, DownLoadFails, HandlerBegins, deleteDownLoadedSongsFile
<1>6. CASE UNCHANGED allVars
  BY <1>6 DEF allVars
<1> QED
  BY <1>1, <1>2, <1>3, <1>4, <1>5, <1>6 DEF ViewNext

(* What the views add to the manager changes nothing of its behaviour, so  *)
(* all that is proved of the manager holds with its views.                 *)
THEOREM ViewsRunTheManager == ViewSpec => Spec
<1>1. ViewInit => Init
  BY DEF ViewInit
<1> QED
  BY <1>1, ViewStepIsManagerStep, PTL DEF ViewSpec, Spec

-----------------------------------------------------------------------------
(* The fields of a page, whatever they hold.                               *)
LEMMA PageFields ==
  ASSUME NEW t, NEW p, NEW l, NEW d
  PROVE  /\ PageOf(t, p, l, d).title = t /\ PageOf(t, p, l, d).playing = p
         /\ PageOf(t, p, l, d).liked = l /\ PageOf(t, p, l, d).downloaded = d
  BY DEF PageOf

(* A new state of the button is all that tells two such drawings apart.    *)
LEMMA ButtonRedrawn ==
  ASSUME NEW m, NEW p, NEW q, NEW likes, NEW files
  PROVE  LET D == Drawn(m, p, likes, files)
         IN  /\ D.playing = p
             /\ PageOf(D.title, q, D.liked, D.downloaded) = Drawn(m, q, likes, files)
<1>1. CASE m = None
  <2> DEFINE no == FALSE
  <2>1. \A x : Drawn(m, x, likes, files) = PageOf(None, x, no, no)
    BY <1>1 DEF Drawn
  <2> HIDE DEF no
  <2> QED BY <2>1, PageFields
<1>2. CASE m # None
  <2> DEFINE l == isSongLiked(likes, songID[m])
             d == songID[m] \in files
  <2>1. \A x : Drawn(m, x, likes, files) = PageOf(m, x, l, d)
    BY <1>2 DEF Drawn
  <2> HIDE DEF l, d
  <2> QED BY <2>1, PageFields
<1> QED BY <1>1, <1>2

(* A page created now is drawn from the manager and the tables.            *)
LEMMA LoadedIsDrawn ==
  ASSUME NEW m, NEW playing
  PROVE  updateData(loadView, m, playing) = Drawn(m, playing, favourite, downLoaded)
<1>1. CASE m = None
  <2> DEFINE no == FALSE
  <2>1. loadView = PageOf(None, no, no, no)
    BY DEF loadView
  <2>2. Drawn(m, playing, favourite, downLoaded) = PageOf(None, playing, no, no)
    BY <1>1 DEF Drawn
  <2> HIDE DEF no
  <2>3. loadView.title = None /\ loadView.liked = no /\ loadView.downloaded = no
    BY <2>1, PageFields
  <2> QED
    BY <1>1, <2>2, <2>3, NoneIsNoView DEF updateData, updatePlayState
<1>2. CASE m # None
  BY <1>2 DEF updateData, Drawn, isSongDownLoad
<1> QED BY <1>1, <1>2

(* A block queued behind others.                                           *)
LEMMA BlockQueued ==
  ASSUME NEW b \in Blocks, mainQueue \in Seq(Blocks)
  PROVE  Append(mainQueue, b) \in Seq(Blocks) /\ Append(mainQueue, b) # << >>
  BY AppendProperties

(* The launch.                                                             *)
LEMMA InitViewInv == ViewInit => ViewInv
<1> SUFFICES ASSUME ViewInit PROVE ViewInv
  OBVIOUS
<1>1. IInv
  BY InitIInv DEF ViewInit
<1>2. page = None /\ mainQueue = << >> /\ mini = ViewOf(currentModel, isPlaying)
  BY DEF ViewInit, Init
<1> QED
  BY <1>1, <1>2 DEF ViewInv, PageInv

(* A selected row or a tap on the mini player creates a page.              *)
LEMMA PresentStep ==
  ASSUME ViewInv, SelectRow \/ tapAction PROVE PageInv'
<1>1. /\ page' = updateData(loadView, currentModel', isPlaying')
      /\ mini' = ViewOf(currentModel', isPlaying')
      /\ UNCHANGED <<mainQueue, favourite, downLoaded>>
  <2>1. CASE SelectRow
    BY <2>1 DEF SelectRow, viewDidLoad, library
  <2>2. CASE tapAction
    BY <2>2 DEF tapAction, viewDidLoad, library, vars, queueVars, playerVars, ViewInv, PageInv
  <2> QED BY <2>1, <2>2
<1>2. page' = Drawn(currentModel', isPlaying', favourite', downLoaded')
  BY <1>1, LoadedIsDrawn
<1>3. page'.playing = isPlaying'
  BY <1>2, ButtonRedrawn
<1> QED
  BY <1>1, <1>2, <1>3 DEF ViewInv, PageInv

(* playNext, playPrevious and the end of an item queue a refresh.          *)
LEMMA ChangeSongStep ==
  ASSUME ViewInv, IInv', ChangeSong PROVE PageInv'
<1>1. playlist' # None
  BY DEF ChangeSong, playPrevious, playNext, handlePlayEnd
<1>2. currentModel' # None
  BY <1>1 DEF IInv, CurrentIsPlaylistEntry
<1>3. /\ mini' = ViewOf(currentModel', isPlaying')
      /\ page' = updatePlayState(page, isPlaying') /\ mainQueue' = dispatchUpdate
  BY DEF ChangeSong, postSongAndState
<1>4. mainQueue' \in Seq(Blocks) /\ (page # None => mainQueue' # << >>)
  BY <1>3, BlockQueued DEF dispatchUpdate, ViewInv, PageInv, Blocks
<1>5. page' # None => page # None /\ page'.playing = isPlaying'
  BY <1>3, PageFields DEF updatePlayState
<1> QED
  BY <1>2, <1>3, <1>4, <1>5 DEF PageInv

(* Steps that only change isPlaying redraw both buttons at once.           *)
LEMMA ChangeStateStep ==
  ASSUME ViewInv, ChangeState PROVE PageInv'
<1>1. UNCHANGED <<currentModel, mainQueue, favourite, downLoaded, handling>>
  BY DEF ChangeState, postStateNotification, library, queueVars,
         togglePlayPause, SeekCompletes, PlayURLArrives
<1>2. mini' = ViewOf(mini.title, isPlaying') /\ page' = updatePlayState(page, isPlaying')
  BY DEF ChangeState, postStateNotification
<1>3. mini.title = currentModel
  BY DEF ViewInv, PageInv, ViewOf
<1>4. ASSUME page' # None
      PROVE  page # None /\ page'.playing = isPlaying'
             /\ page' = PageOf(page.title, isPlaying', page.liked, page.downloaded)
  BY <1>2, <1>4, PageFields DEF updatePlayState
<1>5. ASSUME NEW m, page' # None, page = Drawn(m, isPlaying, favourite, downLoaded)
      PROVE  page' = Drawn(m, isPlaying', favourite, downLoaded)
  BY <1>4, <1>5, ButtonRedrawn
<1> QED
  BY <1>1, <1>2, <1>3, <1>4, <1>5 DEF ViewInv, PageInv

(* Steps of the manager nobody is told of change nothing the views show.   *)
LEMMA UnseenStep ==
  ASSUME ViewInv, Unseen PROVE PageInv'
<1>1. UNCHANGED <<currentModel, isPlaying>>
  BY DEF Unseen, queueVars, playerVars, seekToTime, SeekCompletes, ItemFails, startPreloadNextSong,
         PlayURLFails, PreloadURLArrives, PreloadURLFails, CacheDownloadEnds
<1>2. UNCHANGED <<mini, page, mainQueue, favourite, downLoaded, handling>>
  BY DEF Unseen, views, library
<1> QED
  BY <1>1, <1>2 DEF ViewInv, PageInv

(* The page goes; the blocks of downloads stay queued.                     *)
LEMMA DismissStep ==
  ASSUME ViewInv, dismiss PROVE PageInv'
<1>1. downLoadBlocks \in Nat
  <2>1. Len(mainQueue) \in Nat
    BY DEF ViewInv, PageInv
  <2>2. IsFiniteSet(1 .. Len(mainQueue))
    BY <2>1, FS_Interval
  <2> QED
    BY <2>2, FS_Subset, FS_CardinalityType DEF downLoadBlocks
<1>2. mainQueue' \in Seq(Blocks)
  BY <1>1 DEF dismiss, Blocks
<1>3. page' = None /\ UNCHANGED <<mini, currentModel, isPlaying>>
  BY DEF dismiss, vars, queueVars, playerVars
<1> QED
  BY <1>2, <1>3 DEF ViewInv, PageInv

(* The like button queues a refresh behind its write.                      *)
LEMMA LikeStep ==
  ASSUME ViewInv, TapLikedButton PROVE PageInv'
<1>1. UNCHANGED <<currentModel, isPlaying, mini, page, downLoaded, handling>> /\ page # None
  BY DEF TapLikedButton, vars, queueVars, playerVars
<1>2. mainQueue' \in Seq(Blocks) /\ mainQueue' # << >>
  BY <1>1, BlockQueued DEF TapLikedButton, dispatchUpdate, ViewInv, PageInv, Blocks
<1>3. Drawn(None, isPlaying, favourite, downLoaded) = Drawn(None, isPlaying, favourite', downLoaded)
  BY DEF Drawn
<1> QED
  BY <1>1, <1>2, <1>3 DEF ViewInv, PageInv

(* A block refreshes the page, or queues the refresh of a download.        *)
LEMMA BlockStep ==
  ASSUME ViewInv, RunBlock PROVE PageInv'
<1>1. UNCHANGED <<currentModel, isPlaying, mini, favourite, downLoaded, handling>>
  BY DEF RunBlock, vars, queueVars, playerVars, library
<1>2. mainQueue \in Seq(Blocks) /\ mainQueue # << >>
  BY DEF RunBlock, ViewInv, PageInv
<1>3. CASE RunUpdateData(Head(mainQueue))
  <2>1. mainQueue' \in Seq(Blocks)
    BY <1>2, <1>3 DEF RunUpdateData
  <2>2. ASSUME page' # None
        PROVE  page' = Drawn(currentModel, isPlaying, favourite, downLoaded)
    <3>1. page # None /\ page' = updateData(page, currentModel, isPlaying)
      BY <1>3, <2>2 DEF RunUpdateData
    <3>2. CASE currentModel = None
      <4>1. page = Drawn(None, isPlaying, favourite, downLoaded)
        BY <3>1, <3>2 DEF ViewInv, PageInv
      <4>2. page' = PageOf(page.title, isPlaying, page.liked, page.downloaded)
        BY <3>1, <3>2 DEF updateData, updatePlayState
      <4> QED BY <3>2, <4>1, <4>2, ButtonRedrawn
    <3>3. CASE currentModel # None
      BY <3>1, <3>3 DEF updateData, Drawn, isSongDownLoad
    <3> QED BY <3>2, <3>3
  <2>3. page' # None => page'.playing = isPlaying
    BY <2>2, ButtonRedrawn
  <2> QED
    BY <1>1, <2>1, <2>2, <2>3 DEF ViewInv, PageInv
<1>4. CASE RunDownLoadFinished(Head(mainQueue))
  <2>1. UNCHANGED page /\ mainQueue' = Tail(dispatchUpdate)
    BY <1>4 DEF RunDownLoadFinished
  <2>2. mainQueue' \in Seq(Blocks) /\ (page # None => mainQueue' # << >>)
    <3>1. CASE page = None
      BY <1>2, <2>1, <3>1 DEF dispatchUpdate
    <3>2. CASE page # None
      <4> DEFINE q == Append(mainQueue, "updateData")
      <4>1. q \in Seq(Blocks) /\ Len(q) = Len(mainQueue) + 1 /\ Len(mainQueue) > 0
        BY <1>2 DEF Blocks
      <4>2. mainQueue' = Tail(q)
        BY <2>1, <3>2 DEF dispatchUpdate
      <4> HIDE DEF q
      <4>3. Tail(q) \in Seq(Blocks) /\ Len(Tail(q)) = Len(q) - 1
        BY <1>2, <4>1
      <4> QED BY <1>2, <4>1, <4>2, <4>3
    <3> QED BY <3>1, <3>2
  <2> QED
    BY <1>1, <2>1, <2>2 DEF ViewInv, PageInv
<1> QED
  BY <1>3, <1>4 DEF RunBlock

(* Downloads: a file changes only under a handler or without a page, and a *)
(* handler that ends has queued its notification.                          *)
LEMMA DownloadStep ==
  ASSUME ViewInv,
         \/ downLoadCurrentSongForUser \/ HandlerEnds
         \/ \E s \in SongIDs : DownLoadFails(s) \/ HandlerBegins(s) \/ deleteDownLoadedSongsFile(s)
  PROVE  PageInv'
<1>1. UNCHANGED <<currentModel, isPlaying, mini, page, favourite>>
  BY DEF downLoadCurrentSongForUser, HandlerEnds, DownLoadFails, HandlerBegins,
         deleteDownLoadedSongsFile, vars, queueVars, playerVars, views
<1>2. Drawn(None, isPlaying, favourite, downLoaded) = Drawn(None, isPlaying, favourite, downLoaded')
  BY DEF Drawn
<1>3. CASE downLoadCurrentSongForUser \/ \E s \in SongIDs : DownLoadFails(s)
  BY <1>1, <1>3 DEF downLoadCurrentSongForUser, DownLoadFails, views, ViewInv, PageInv
<1>4. CASE HandlerEnds
  <2>1. mainQueue' \in Seq(Blocks) /\ mainQueue' # << >>
    BY <1>4, BlockQueued DEF HandlerEnds, Blocks, ViewInv, PageInv
  <2> QED BY <1>1, <1>2, <2>1 DEF ViewInv, PageInv
<1>5. CASE \E s \in SongIDs : HandlerBegins(s)
  <2>1. handling' # None /\ UNCHANGED mainQueue
    BY <1>5, NoneAssumption DEF HandlerBegins, views
  <2> QED BY <1>1, <1>2, <2>1 DEF ViewInv, PageInv
<1>6. CASE \E s \in SongIDs : deleteDownLoadedSongsFile(s)
  <2>1. page = None /\ UNCHANGED mainQueue
    BY <1>6 DEF deleteDownLoadedSongsFile, views
  <2> QED BY <1>1, <2>1 DEF ViewInv, PageInv
<1> QED BY <1>3, <1>4, <1>5, <1>6

-----------------------------------------------------------------------------
(* Every step of the composition keeps the invariant.                      *)
LEMMA NextViewInv == ViewInv /\ [ViewNext]_allVars => ViewInv'
<1> SUFFICES ASSUME ViewInv, [ViewNext]_allVars PROVE ViewInv'
  OBVIOUS
<1>1. IInv'
  BY NextIInv, ViewStepIsManagerStep DEF ViewInv
<1>2. PageInv'
  <2>1. CASE UNCHANGED allVars
    BY <2>1 DEF allVars, vars, queueVars, playerVars, views, library, ViewInv, PageInv
  <2>2. CASE SelectRow \/ tapAction
    BY <2>2, PresentStep
  <2>3. CASE ChangeSong
    BY <1>1, <2>3, ChangeSongStep
  <2>4. CASE ChangeState
    BY <2>4, ChangeStateStep
  <2>5. CASE Unseen
    BY <2>5, UnseenStep
  <2>6. CASE dismiss
    BY <2>6, DismissStep
  <2>7. CASE TapLikedButton
    BY <2>7, LikeStep
  <2>8. CASE RunBlock
    BY <2>8, BlockStep
  <2>9. CASE \/ HandlerEnds \/ downLoadCurrentSongForUser
             \/ \E s \in SongIDs :
                  DownLoadFails(s) \/ HandlerBegins(s) \/ deleteDownLoadedSongsFile(s)
    BY <2>9, DownloadStep
  <2> QED
    BY <2>1, <2>2, <2>3, <2>4, <2>5, <2>6, <2>7, <2>8, <2>9 DEF ViewNext
<1> QED
  BY <1>1, <1>2 DEF ViewInv

(* The composition keeps the manager's invariant and the views'.           *)
LEMMA ViewInductive == ViewSpec => []ViewInv
  BY InitViewInv, NextViewInv, PTL DEF ViewSpec

(* The mini player names the current song and both play buttons show       *)
(* isPlaying after every step, in whatever order the manager's handlers,   *)
(* queued blocks and downloads run.                                        *)
THEOREM ButtonsAlwaysAgree == ViewSpec => []ButtonsAgree
<1>1. ViewInv => ButtonsAgree
  BY DEF ViewInv, PageInv, ButtonsAgree, ViewOf
<1> QED BY <1>1, ViewInductive, PTL

(* Once the main queue is drained and no handler is between two file       *)
(* operations, an open page shows the current song, its like and its       *)
(* download state.                                                         *)
THEOREM DrainedPageCurrent == ViewSpec => []DrainedPageIsCurrent
<1>1. ViewInv => DrainedPageIsCurrent
  BY LoadedIsDrawn DEF ViewInv, PageInv, DrainedPageIsCurrent
<1> QED BY <1>1, ViewInductive, PTL
=============================================================================
