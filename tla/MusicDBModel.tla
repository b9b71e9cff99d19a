---------------------------- MODULE MusicDBModel ----------------------------
(***************************************************************************)
(* The three WCDB tables of MusicDBModel.mm.  They hold SpotifySongsModels *)
(* rows whose primary key is songID (SpotifySongsModels.mm), so a table is *)
(* the sequence of its keys in rowid order, the order a query without      *)
(* ORDER BY scans.  INSERT OR REPLACE deletes the conflicting row and      *)
(* inserts the new one with the next rowid, at the end of the scan.        *)
(***************************************************************************)
EXTENDS Integers, Sequences

hasRow(table, id) == \E i \in 1 .. Len(table) : table[i] = id

(* WCDB: deleteFromTable: where: songID == id.                             *)
deleteRow(table, id) ==
  IF hasRow(table, id)
  THEN LET i == CHOOSE j \in 1 .. Len(table) : table[j] = id
       IN  SubSeq(table, 1, i - 1) \o SubSeq(table, i + 1, Len(table))
  ELSE table

(* WCDB: insertOrReplaceObject: intoTable:.                                *)
insertOrReplaceRow(table, id) == Append(deleteRow(table, id), id)

-----------------------------------------------------------------------------
(* favouriteSongsTable *)
likeSong(favourite, id) == insertOrReplaceRow(favourite, id)
unLikeMisses(favourite, id) == favourite
unLikeSong(favourite, id) == deleteRow(favourite, id)
isSongLiked(favourite, id) == hasRow(favourite, id)
getAllLikeSong(favourite) == favourite

(* downLoadSongsTable *)
saveDownLoadSongs(downLoadSongs, id) == insertOrReplaceRow(downLoadSongs, id)
removeDownLoadSong(downLoadSongs, id) == deleteRow(downLoadSongs, id)
getAllDownLoadSongs(downLoadSongs) == downLoadSongs

addRecentForgotten(recentPlay, id) == recentPlay
addRecentOrIgnore(recentPlay, id) ==
  IF hasRow(recentPlay, id) THEN recentPlay ELSE Append(recentPlay, id)
(* recentPlayTableName: the row's lastPlayTime is what orders two plays,   *)
(* and insertion order is lastPlayTime order because every play inserts.   *)
addRecentPlaySong(recentPlay, id) == insertOrReplaceRow(recentPlay, id)

(* LIMIT without ORDER BY: the first `limit' rows of the scan.             *)
getRecentPlaySongs(recentPlay, limit) ==
  SubSeq(recentPlay, 1, IF Len(recentPlay) < limit THEN Len(recentPlay) ELSE limit)
=============================================================================
