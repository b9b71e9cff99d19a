# Verification of the Spotify clone (Objective-C, iOS)

TLA+ models of the app's own logic (playback, its cache, downloads, the lists kept in
the database, the pages that load data over the network and the views that show it) and
of the three pieces of library code the app's behaviour hangs on: the AFNetworking client,
SDWebImage's shared downloads, and the write-ahead log of WCDB's SQLCipher. TLC checks
them on small instances, TLAPS proves the main results for every value of the constants.
`PROJECT.json` maps each definition to its source lines and lists runs, mutants, findings,
hazards and theorems.

## 1. The system

Everything the app does centres on one singleton, `MusicPlayerManager`. Pages
(album, search, liked, downloads, recents) give it a list, an index and a song;
it asks the API for the song's URL, plays it with one `AVPlayer`, caches it in the
background, records the play in the database and posts notifications that the
player page and the mini player redraw from.

| Component | State | Operations | Interacts with |
|---|---|---|---|
| Playback core (`MusicPlayerManager.mm`) | playlist, currentindex, currentModel, isPlaying, isPreloadingNextSong, the AVPlayer and its item, outstanding requests | select a row, play/pause, next, previous, seek, end of item, answers, preload | every page (calls), API (completions), AVPlayer (callbacks), views (notifications) |
| Player page, mini player, tab bar (`VCMusicPlayer.mm`, `MusicPlayerDetailView.mm`, `MiniPlayerView.mm`, `MainTabBarController.mm`) | title, play, like and download buttons; queued refreshes | redraw on notifications, present, dismiss, like, download | playback core, database, downloads |
| Music cache (`MusicPlayerManager.mm`) | files of `musicCache` and their dates | play touches a file, a download replaces one, a prune lists, reads and evicts | URLSession queue and main queue share the directory |
| User downloads (same file, `VCDownLoadSongsLib.mm`) | files of `downLoadSpace`, `downLoadSongsTable`, the page's list | download button, completion handler, swipe to delete, list read | three queues share files and table |
| Song database (`MusicDBModel.mm`) | three WCDB tables keyed by songID | insert-or-replace, delete, query | called from all queues |
| Liked and recents pages, library menu (`VCLikeSongsLib.mm`, `VCrecentSongsLib.mm`, `VCMusicLibrary.mm`) | the page on the stack and its list | open, appear, read, show, go back | playback and the like button write what they read |
| Search page (`VCSearchPage.mm`, `SpotifySearchModel.mm`) | text, delayed call, requests, list | edit, clear, search, details, show | API |
| Home page (`VCHomePage.mm`, its cells) | one answer, five slices | fetch, configure cells | API |
| Comment page (`VCCommentPage.mm`, `CommentPageModel.mm`) | dataSource, offset, hasMore, isLoading | load a page, completion | API, a feed other users post to |
| API client (`SpotifyAPIManager.mm`, AFNetworking) | tasks, delegates, three queues | GET, data, completion, init's enumeration | every page that fetches |
| Image loading (SDWebImage) | views' loads, operations, tokens, entries per URL | set an image, cancel, share a download, finish | every cell with a cover |
| Write-ahead log (`wal.c` of WCDB's SQLCipher) | log, database file, wal-index, locks | read, write, checkpoint, restart, recover | everything that touches a table |
| Login, launch, cells, layout | none of interest | | |

**Queues.** Taps, AFNetworking completions, `dispatch_async(main)` blocks and AVPlayer
callbacks run on the serial main queue. (The end notification and the seek completion
are not documented to arrive there; no step of theirs is split in the model.) Completion
handlers of `NSURLSession.sharedSession` tasks run one at a time on the session's own
queue, in parallel with the main queue. The library pages read the database on a
concurrent global queue. A handler is therefore one step where only the main queue
touches its state (MusicPlayerManager, SearchPage, CommentPage, HomePage) and one step per
file, table, lock or queue operation where threads share it (MusicCache, SongDownload,
LibraryLists, APIClient, ImageViews, WriteAheadLog).

**What is hard here.** Answers come in any order and are applied without asking whether
they are still wanted; pause, seek and end of item race with them; some refreshes are
immediate and some queued; file and row are two writes; files vanish between listing and
reading; a process can end anywhere; a feed moves while it is paged; downloads are shared
by views that come and go; a checkpointer rewrites what readers read. `hazards` in
`PROJECT.json` has each at its line.

## 2. Modules

| Module | Models | Steps |
|---|---|---|
| `MusicDBModel` | the tables as sequences of keys in rowid order; insert-or-replace moves a row to the end | pure operators |
| `MusicPlayerManager` | the playback core | one per handler |
| `PlaylistCursor` | abstract: a cyclic cursor on a list that records where it arrives | Load, Next, Previous |
| `NowPlayingViews` | both views, composed with `MusicPlayerManager` (EXTENDS) | one per handler, queued block or file operation |
| `MusicCache` | the cache directory | one per file operation |
| `SongDownload` | user downloads, their table and page | one per file or table operation |
| `LibraryLists` | liked and recents tables and pages, library menu | one per table operation |
| `SearchPage` | the search page | one per handler, answer or block |
| `HomePage` | slices of the answer and the cells that index them | one per cell callback |
| `CommentPage` | paging of comments | one per handler or server event |
| `RequestReply` | abstract: what a caller of GET relies on | Ask, Reply |
| `APIClient` | GET through AFNetworking | one per lock, queue or session event |
| `ImageViews` | image loading through SDWebImage | one per lock, queue or session event |
| `WriteAheadLog` | wal.c | one per lock, file or shared-memory access |
| `MCMusicPlayerManager`, `MCNowPlayingViews`, `MCMusicCache`, `MCWriteAheadLog` | instances for TLC | |
| `NowPlayingViewsProofs` (also of the manager), `MusicCacheProofs`, `SongDownloadProofs`, `LibraryListsProofs`, `PageProofs` (of `SearchPage`, `CommentPage` and `HomePage`), `APIClientProofs`, `ImageViewsProofs`, `WriteAheadLogProofs` | theorems | |

### MusicPlayerManager

Variables carry the names of the properties; `player` is what the AVPlayer does (`none`,
`playing`, `paused`, `ended`, `failed`), `item` the song it holds. An item may fail at its start, when
the URL or the cached file is no music, or at any time later (`ItemFails`): `MusicPlayerManager.mm:277`
observes only the end of an item, so no handler runs then. `SpotifySongsModels` objects and
songIDs are separate sets, because two fetches of one song are two objects: requests and
`songUrl` belong to objects, files and rows to songIDs. `playMusic(m, p)` is the whole
method, with its database write and both branches (file in the cache, or a request); its
callers are `didSelectRow` (the body that every page with a list of songs repeats),
`playNext`, `playPrevious`, `handlePlayEnd`. `PlayURLArrives` is the completion: it plays
and downloads whatever `currentModel` is by then. Which files `checkAndPruneCache` evicts
is left open here (any subset of the files) and decided in `MusicCache`. The end of a cache download
looks at no HTTP status (`:158`), so the body of an error answer becomes a file as well: `errorFiles`
are those, and playing one gives a failed item. One variable is history, `disturbed`: since the current song was chosen its own request failed, or a late
answer for another song was played.

### NowPlayingViews

`NSNotificationCenter` calls observers inside the poster's call, so each step of the manager
is conjoined with what its notifications do: `SelectRow`, `ChangeSong`, `ChangeState` and
`Unseen` partition the manager's actions by what they post. The mini player and the page's
play button redraw at once; title, like and download button redraw in a block queued on the
main queue (`RunUpdateData`). The handler of a user download has two steps here, before and
after its file operations, and posts from a block of its own. The page covers the lists, so
no row is tapped and no download deleted while it is open.

### MusicCache

A prune is `downLoadSongInBackGround` (the listing), one `StatFile` per name, `SortFiles`,
`EvictOldest` while the total is at the limit, `PruneEnds`; the handler of a download is
`HandlerBegins` (exists?), `HandlerRemoves`, `HandlerMoves` or `HandlerMoveFails`.
Removals and moves may fail: the code passes `error:nil`. `StatFile` of a file that has
gone is the exception that a nil date in a dictionary literal raises (`main = "crashed"`);
`Relaunch` is the next start after that or any other end of the process. Modification
dates are a counter. `inFlight`, `stuck` and `pruned` are history.

### SongDownload

The handler of `downLoadCurrentSongForUser` is `HandlerBegins`, `HandlerRemoves`,
`HandlerMoves`, `HandlerSaves`; a swipe to delete is `deleteDownLoadedSongsFile` then
`RemoveRow`; a list is read by `ReadTable` and shown by `ShowList`. Any write may fail.
`torn` is history: the songs whose pair of writes failed, was cut by the end of the
process or crossed a pair of the other kind; `ghosts`: songs deleted under a list that was
read and not yet shown.

### LibraryLists

Both pages have the same code but for the query, so `fentchData` is one pair of actions,
`ReadTable` on the global queue and `ShowList` on the main queue, for the page that is open.
`since` keeps, per table, when a song was liked or its `lastPlayTime`, to say what a list
should contain; wall-clock time is taken to increase. `outrun` is history: the list shown
was read for an earlier appearance of the page than the last.

### SearchPage

`TypeText` and `ClearText` are the two branches of `updateSearchResultsForSearchController:`,
`performSearch` the delayed call, which every edit cancels and schedules anew (see Fairness). A search is a request to `/search` and, if it finds songs,
one to `/song/detail`; the list then takes one or two blocks of the main queue to the table.
A list is its keyword and whether it has songs. `astray` is history: the last list applied
was not the text's, or the text's own search failed.

### HomePage, CommentPage

`HomePage` represents an album by its index in the answer and a slice by its start and
length. `CommentPage` numbers comments from the oldest and lets other users post between
any two steps; the server's `more` is "something is left after this page" (external).

### APIClient and RequestReply

The main thread inside GET (create the task, register its delegate, resume it), the
session's serial `operationQueue`, the concurrent queue that parses answers, the main queue
that runs completions, and the callback of `getTasksWithCompletionHandler` that `init` asks
for and that registers delegates without a completion. `NSLock` makes one registration, lookup
or removal a step. `didCompleteWithError` tells the delegate and removes it in two steps, as the code
does. `RequestReply` is what the page modules assume of a request.

### ImageViews

A load (`SDWebImageCombinedOperation`) queries memory at once, the disk on its queue, then joins
or creates the download operation of its URL and leaves a token on it. Operations start,
complete, decode and run their completion block on other threads. What the caches hold is
left open. `dropped` is history: tokens left on an operation after it had collected whom to
tell and before it finished.

### WriteAheadLog

Built as the Pod builds it: `SQLITE_WCDB_IMPROVED_CHECKPOINT`, synchronous = NORMAL, the log file
kept, PASSIVE checkpoints from a handle of their own. A page's content is the stamp of the
transaction that wrote it; the running checksum is the sequence of what was summed (so equal
checksums mean equal histories, the assumption recovery rests on); a salt is a number never
drawn before. `walTryBeginRead` is split at every access another handle can get between
(`walIndexReadHdr`, `CheckBackfill`, `LockZero`, `ScanMarks`, `ClaimMark`, `LockMark`,
`CheckRead`), `walCheckpoint` into reading the marks, copying page by page, syncing and publishing
`nBackfill`, and WCDB's restart of the log with its new header. `Kill` keeps what was written and
may tear the frame being written; `PowerFails` keeps any part of what was not synced.
Taken as atomic: reading the header (the code compares two copies), the exclusive lock around one
read mark, looking up a frame through the hash tables. Left out: spilling a page twice in one transaction
(iReCksum), database truncation (nPage), snapshots, `walLimitSize`, the other checkpoint modes,
failing syncs.

## 3. Runs

| Run | Bounds | States | Shows |
|---|---|---|---|
| `player` | two songs as three objects, lists of three rows and of one, a free user, any answer an error, any item or file bad; one URL request per object, one preload and one cache download at a time | 595,118 | `CurrentIsPlaylistEntry`, `SettledPlaybackMatches`, `QueueIsCursor`, `AutoPlayInOrder`, `StallsOnlyOnFailure` |
| `views` | one list of two objects of one song, one request and preload of each, one cache and one user download, two queued blocks | 2,930,848 | types, `RunningImpliesIsPlaying`, `PreloadFlagBacked`, the views' invariants |
| `cache` | three songs of sizes 1, 2, 2, limit 4, four dates, one request and task per song | 1,807,176 | `SizeBound`, `PruneIsLRU`, `EvictsTrulyOldest`, `MissingOnlyMidReplace` |
| `download` | two songs, two tasks each, two list reads | 852,984 | `FileIffRow`, `ShownRowsExist`, `OrphanIsForever` |
| `library` | three songs, LIMIT 2, four plays or likes, two reads under way | 726,597 | `LikedListExact`, `CompleteBelowLimit` |
| `comments` | 8 comments, pages of 3, 5 posts | 933 | paging, `PagingEnds` |
| `search` | two keywords and the empty one, one request of each kind per keyword, two blocks | 198,500 | `SettledResultsMatch`, `TextIsSearched` |
| `client` | two calls, bodies of up to two pieces | 60,669 | refinement of `RequestReply`, answers, bodies, delegates |
| `images` | two views, two URLs, two loads and downloads | 158,529 | `NoStaleImage`, `EntryIsKnown`, `LoadsEnd` |
| `wal` | two handles and the checkpointer, two pages, two read marks, two transactions, two salts | 1,581,578 (up to symmetry) | `SnapshotReads` |
| `wal_recovery` | one handle and the checkpointer, two transactions, three salts, two faults of either kind | 763,781 | `RecoversCommits` |
| `home_short` | answers of 10 and 30 | violation | the finding |

The bounds let the interesting cases happen: in `player` a list change with an answer outstanding, a late
answer for another song and for the same song as another object, an index from a longer list,
lists whose ends wrap onto themselves or have the same song at both ends; in `views` two preloads of one song
outstanding over changes of song; further a page presented and dismissed
with refreshes queued, two downloads of one song with a prune and an eviction between them, a
cache exactly at its limit, a delete across a handler, reads that overtake each other, more songs
than the LIMIT, a feed that gains more than a page between two pages, a bar cleared with the timer
running, a download shared, left and asked for again, a log restarted under readers, a second
fault after a recovery. Larger instances pass as well but take longer: `search` with two
requests per keyword (3.1 million states, safety), `images` with three loads (1.4 million up to symmetry),
`player` with lists of two rows
and of one and any number of preloads and downloads at a time (1.5 million, safety), `wal_recovery` with three transactions and
one power failure or two kills (6.5 million each).

Deadlock checking is off where the system may stop: a page that
shows everything, calls and loads used up, transactions used up.

What the properties say:

- `CurrentIsPlaylistEntry`, `QueueIsCursor`: the index is a row of the list, that row is the
  current song, only selection, next, previous and the end of an item move it, and the
  recents table records exactly these moves, the last one last.
- `RunningImpliesIsPlaying`: no sound while the buttons show "paused". The converse is not
  true of the code: isPlaying is YES from the moment a song is chosen.
- `SettledPlaybackMatches`: title and sound can differ only while the current song's request is
  outstanding, after it failed, or after a late answer for another song. Otherwise the
  AVPlayer holds the current song and runs exactly when isPlaying, or that song's item failed.
- `PreloadFlagBacked`: the flag that suppresses preloading always stands for a request for
  the song that is next now.
- `ButtonsAgree`, `DrainedPageIsCurrent`: the mini player is never behind the
  manager, the two play buttons never disagree, and once the main queue is drained the page shows
  the current song, like and download state.
- `AutoPlayInOrder`: no answer, preload, seek or failing item moves the queue, and the end of an item
  moves it exactly one row on.
- `StallsOnlyOnFailure`: whatever the user did before, once they stop, every row of the list gets its turn
  again and again and is heard in it (or a late answer is, instead), or playback stalls for good: because the
  user paused, the current song's request failed, a late answer came, or an item failed. Each of the exceptions
  is needed: without it TLC finds the property violated. Nothing else stops playback: not the end of a list, a
  cached song, a seek, a failed preload or a failed cache download.
- `SizeBound`, `PruneIsLRU`, `EvictsTrulyOldest`, `MissingOnlyMidReplace`: what may exceed the limit,
  what a prune removes against a reference definition, when it may take a newer file first, and the only
  way its crash can happen.
- `FileIffRow`, `OrphanIsForever`, `ShownRowsExist`: file and row agree unless a pair of writes was torn; a
  file without a row is never repaired by the app; a deleted song reappears in the list only from a read
  that was under way.
- `LikedListExact`, `CompleteBelowLimit`: a page up to date lists its table exactly and in order, the
  recents only up to the LIMIT.
- `SettledResultsMatch`, `TextIsSearched`: with nothing under way the list is the text's unless a late or
  failed answer came last; once the user stops editing, everything under way ends and the text's list stays.
- `NothingSkipped`, `RepeatsOnlyFromPosts`, `EndMeansAll`, `PagingEnds`: paging a moving feed
  leaves no gap, repeats at most one comment per post, ends complete, and ends.
- `AnswersOnce`, `AnsweredUnlessReplaced`, `WholeBody`, `DelegatesFreed`: a completion runs at most once, and
  does run unless init's callback took the delegate; it gets the whole body; no delegate leaks.
- `NoStaleImage`, `EntryIsKnown`, `LoadsEnd`: a reused cell never shows a former URL's image; the entry of a
  URL is never an operation that has been forgotten; every load ends unless its token was dropped.
- `SnapshotReads`, `RecoversCommits`: a transaction reads one commit's pages; a launch after a fault
  brings back the commits that had to survive, whole transactions only.

Each property has a mutant in `PROJECT.json`: a plausible bug in the mapped code that makes
TLC report it violated.

### Finding

`AlbumTableViewCell` always announces six items, so an answer of fewer than 30 albums
indexes past a row's slice, in a page whose comments say it is guarded against that (`home_short`).
The theorem `HomeFullAnswerSafe` shows that 30 is the threshold from which it is safe.

### Weaknesses the models show

Each is an exception that a property above names, so the runs also say that there is no other.

- A late URL is played over a newer choice, and as long as answers take longer than songs, songs go on
  sounding under the next one's title; a failed request at the end of a song stops hands-off
  playback (`disturbed`).
- An item that cannot be played or breaks off is not observed (`MusicPlayerManager.mm:277`): playback stops with
  isPlaying YES, although every request was answered (`player = "failed"`).
- An error answer's body is cached as the song's file (`:158`) and played from then on (`errorFiles`).
- A prune can crash against a second download of a cached song, and evicts by dates read earlier.
- The download button trusts the file: a process that ends between file (`MusicPlayerManager.mm:193`)
  and row (`:195`) leaves a song the button refuses to download and the library cannot show (`torn`).
- `getRecentPlaySongs` has a LIMIT and no ORDER BY: beyond 100 songs the page shows the oldest and
  not the latest. A slow read of either list can be shown last (`outrun`).
- A cleared search bar does not cancel the delayed search, and `SpotifySearchModel.mm:15` answers the empty
  keyword without returning, so that it is sent too; late answers replace newer ones (`astray`).
- AFNetworking: `getTasksWithCompletionHandler` in init can replace the delegate of a request made
  meanwhile, whose completion then never runs (`replaced`). The app's first request follows the
  creation of the manager at once.
- SDWebImage: a handler added to an operation between the collection of its tokens and its end after an error
  is never called (`dropped`), although `SDWebImageDownloader.m:260` argues the locks make this safe; a
  completion block that runs late removes the entry of its successor, and the URL is downloaded twice.
- wal.c under `SQLITE_WCDB_IMPROVED_CHECKPOINT` skips the log header when the file has one and the writer did not
  restart the log (`wal.c:3589`). After a first transaction that wrote the header and did not commit, the
  next one writes frames with salt 0 under it, and the next recovery finds none of them valid (`stray`). The
  comment at `wal.c:3577` says the first frame always writes the header.

### Fairness

- `MusicPlayerManager`: weak fairness of the end of an item that plays (time passes; an item that is paused or
  fails first owes no end) and of each outstanding request's answer or error (AFNetworking's timeout is 15 s).
  Seeks, preloads, cache downloads and the failure of an item may happen or not. The user is free: that they
  stop is the premise of `StallsOnlyOnFailure` (`<>[][Events]_vars`), not part of the specification.
- `SearchPage`: weak fairness of the main queue and of each request's end. The timer is fair only if the user
  stops editing, because `VCSearchPage.mm:70-71` cancels and reschedules the call on every edit: edits less than
  0.5 s apart put the search off for as long as they go on. `TextIsSearched` has the same premise.
- `CommentPage`: weak fairness of `LoadData` (the user keeps scrolling at the end of the list),
  of some answer (timeout), strong fairness of a good answer (not every one of
  endlessly many retries fails).
- `APIClient`: the main thread finishes a GET it began, every queue is served, a task ends (15 s). Nobody has
  to call GET, and init's callback may never come.
- `ImageViews`: the main thread, the disk queue and each operation get on; a download ends (15 s).

## 4. Proofs

`NowPlayingViewsProofs` proves first of the manager alone, for any songs, non-empty lists and bounds, that `Spec`
implies the five invariants of the manager that `player` and `views` check, `QueueIsCursor` and
`AutoPlayInOrder`. The inductive invariant is the conjunction of the five. It is needed as a
whole: `SettledPlaybackMatches` after `SeekCompletes` and `togglePlayPause` needs
`RunningImpliesIsPlaying` and the types, `PreloadFlagBacked` and the refinement need
`CurrentIsPlaylistEntry` to know that the next index is inside the list. There is one lemma per
action, and lemmas on what an insert-or-replace leaves in a table. Assumptions: `songID` maps
objects to IDs, lists are non-empty sequences of objects, `None` is none of them.

It then shows that the composition implements the manager alone
(`ViewsRunTheManager`: each of its steps is a step of the manager or leaves the manager alone), so
that all theorems about the manager hold in it, and proves `ButtonsAgree` and
`DrainedPageIsCurrent`. The second needs a strengthening: an open page that is out of date has a
block waiting or a handler between its two file operations. One lemma per group of steps shows that
whatever makes the page stale leaves such a block behind. Assumption: `None` is no page.

`MusicCacheProofs` proves all five properties of the cache, for any songs, sizes, limit and number of
downloads. The inductive invariant relates the prune's bookkeeping to the directory: a download under
way was so when the directory was listed (`UnderWayListed`), what was read of a file that was not being
downloaded is still so (`ReadsHold`, `EvictedGone`), no date is given twice (`DatesUnique`), `totalSizes`
is the size of what is listed and not dealt with (`TotalExact`), and what was dealt with is older than the
rest and did not fit with what is more recent (`OldestFirst`). The last two turn the loop's exit condition into
`PruneIsLRU` and `SizeBound`. Sizes are sums over a set, which cannot be proved about by
induction here; `Bytes` is therefore the cardinality of a set of bytes, and the lemmas on it come from
those on finite sets.

`SongDownloadProofs` proves `TypeOK`, `FileIffRow`, `ShownRowsExist` and `OrphanIsForever`, for any songs and
any number of downloads, with writes that may fail. `Paired` says where a pair of writes stands at each
point of a handler or a delete; `ReadRowsExist` says of a list on its way what `ShownRowsExist` says of
the list shown.

`LibraryListsProofs` proves `LikedListExact` and `CompleteBelowLimit`, for any songs and any limit. The
inductive invariant says that each table holds the songs with a time, in the order of their times
(`TablesInStep`), and that a result read after the table's last change is still the answer of the
query (`ReadsAreCurrent`).

`PageProofs` proves, of the search page, `SearchTypeOK` and `SettledResultsMatch` for any keywords and bounds. The
inductive invariant is `SearchTypeOK` with `Awaited`: unless something went astray, a table that is not
the text's has a search for the text scheduled, under way, waiting for its pictures or queued
(`UnderWay`). Each answer hands the list on to the next of these stations.

Of the comment page, which it also extends, it proves `TypeOK`, `NothingSkipped`, `EndMeansAll` and
`RepeatsOnlyFromPosts`, for any feed, page size and number of posts. The inductive invariant adds that the shown comments cover every
number from `feedSize` down to what `offset` has reached, and that a request is outstanding
exactly when `isLoading`. `RepeatsOnlyFromPosts` needs more than itself: `RepeatsAccounted` says that some p
of the posts account for all repeats and that nothing older is shown than `offset` reaches in a
feed with those p; a page then either lies in what the other posts pushed down, and uses up as
many of them, or brings that many fewer new comments.

Of the home page, which it instantiates, it proves, for answers of any number of albums, that the grid and the rows never
share an album or show one the answer does not hold (`SlicesDisjoint`), and that no index runs out
when the answer has at least 30 albums (`FullAnswerSafe`). The inductive invariant says each slice
is the one cut from the single answer that ever arrives, and rests on a lemma on `safeSubarrayFrom`.

`APIClientProofs` proves `TypeOK`, `WholeBody`, `DelegatesFreed` and `AnswersOnce`, the refinement of
`RequestReply`, for any number of requests. The inductive invariant follows a task through its
life: it is suspended while GET is inside the call (`IssuingIsSuspended`), nothing happens to it before it is
resumed (`IdleBeforeResume`), its last callback is the one that is not data (`EndsAreLast`), its answer is
in one place at a time and there once (`OneAnswer`), its delegate has collected every piece but those
whose callbacks wait (`Collected`), and the delegate of a finished task has a callback coming that
removes it (`Removal`).

`ImageViewsProofs` proves `TypeOK`, `NoStaleImage` and `EntryIsKnown` for any views and URLs, and, as the
safety half of `LoadsEnd`, that a load that has not ended is owed its answer by the I/O queue, a
download or a queued block unless its token was lost (`LoadsAreAwaited`). The inductive invariant: a load
that has not ended is its view's current one, for the URL the view wants (`OpenIsCurrent`), tokens are of
loads that have asked the downloader (`TokensAsked`, `AddingAsked`), a token that was told has its
completion dispatched (`ToldIsAnswered`), an operation cancelled before its start serves no load
(`CancelledIsEmpty`), and every load that has not ended is owed (`OpenIsOwed`).

`WriteAheadLogProofs` proves `SnapshotReads` for any handles, pages, read marks and transactions, across
kills, power failures and recoveries. The inductive invariant `WalInv` says what readers, the writer and
the checkpointer guarantee each other:

- `IndexOK`: the frames from `nBackfill + 1` to the header's `mxFrame`, over the database file, hold the last
  commit.
- `Version`: a header that a handle has read and that is still the shared one (same salt, same `mxFrame`)
  stands for the snapshot the handle took; a log found copied to its end still is. This makes the second look
  at the header in `LockZero` and `CheckRead` enough.
- `Locked`: a read lock keeps the log from starting again: the reader's `minFrame` stays at or below
  `nBackfill + 1`, and the last commit is found from any frame between the two on.
- `Snapshot`, `Spared`: what a reader needs is found from its `minFrame` up to its `mxFrame`, its mark is not
  beyond its snapshot, and a checkpointer that has passed its mark does not copy beyond it. A read
  mark may be claimed anew between `ReadMark` and `PassMark`, and `Spared` says why that is harmless.
- `Writing`, `Appending`: the holder of the write lock has the last commit before it, and what it has appended
  beyond `mxFrame` is its own pages, each of them there.
- `Backfilling`: of the frames being copied, those not left to copy are overwritten by a later frame
  or are in the database file.

It has one lemma per action, over lemmas on what looking a page up depends on (`Find`). After a fault every handle
is idle and the invariant asks nothing of the files, so that recovery may find anything; that what it finds is
what had to survive is `RecoversCommits`.

Only model-checked: liveness (`StallsOnlyOnFailure`, `TextIsSearched`, `PagingEnds`,
`AnsweredUnlessReplaced`, `LoadsEnd`), which is out of the prover's reach, and `RecoversCommits`: which frames
recovery accepts is a recursion along the checksums, and what holds of it for every log needs an induction
over data.

## 5. Not modelled

- Layout, drawing, gestures, login, launch. The progress slider of the player page: one flag, and which
  touch events UIKit sends for it is not decided in this code.
- JSON parsing, reduced to "an answer, an answer without data, an error".
- AFNetworking's uploads, downloads, progress, reachability and security policy; SDWebImage's transformers,
  progressive and animated images, prefetching and cache expiry: the app does not use them.
- The rest of the vendored code, which is most of the repository's lines: SQL compiler, b-tree, pager,
  full-text search and crypto of SQLCipher, WCDB's object layer, image codecs, Masonry, YYModel,
  LookinServer. The app reaches it only through the interfaces modelled above, and nothing of the app's
  correctness is decided in it beyond what the log, the client and the image loader already show.

## 6. Plan

1. The album page's fetch and its selection; the progress slider.
2. Proofs: of `RecoversCommits`, what does not depend on the recursion along the checksums.
