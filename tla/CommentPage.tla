---------------------------- MODULE CommentPage ----------------------------
(***************************************************************************)
(* VCCommentPage: the comments of a song, loaded page by page as the user  *)
(* scrolls.  The server lists comments newest first and other users post   *)
(* new ones while the page is open; comments are numbered from the oldest, *)
(* 1, to the newest there was when the page opened, feedSize.              *)
(***************************************************************************)
EXTENDS Integers, Sequences, FiniteSets

CONSTANTS
  feedSize,  \* comments when the page opens
  limit,     \* comments asked for at a time, 20 in the code
  maxPosts   \* bound: comments posted while the page is open

ASSUME FeedAssumption == feedSize \in Nat /\ limit \in Nat \ {0} /\ maxPosts \in Nat

VARIABLES
  songID,      \* the page was given a song
  dataSource, offset, hasMore, isLoading,
  requested,   \* requests that are outstanding
  posted,      \* comments posted so far
  cutShort     \* history: an answer without comments and without "more" came in

vars == <<songID, dataSource, offset, hasMore, isLoading, requested, posted, cutShort>>

(* The type of the page's state; the feed is read at offset, the number of *)
(* comments shown. *)
TypeOK ==
  /\ songID \in BOOLEAN /\ hasMore \in BOOLEAN /\ isLoading \in BOOLEAN /\ cutShort \in BOOLEAN
  /\ posted \in 0 .. maxPosts /\ requested \in 0 .. 1
  /\ dataSource \in Seq(1 .. feedSize + posted)
  /\ offset = Len(dataSource)

(* viewDidLoad ends with a LoadData, which a page without a song ignores.  *)
Init ==
  /\ songID \in BOOLEAN
  /\ dataSource = << >> /\ offset = 0 /\ hasMore = TRUE /\ isLoading = songID
  /\ requested = (IF songID THEN 1 ELSE 0)
  /\ posted = 0 /\ cutShort = FALSE

-----------------------------------------------------------------------------
(* Server (external): the page at an offset of the feed, newest first.     *)
total == feedSize + posted
pageLength(from) == IF from >= total THEN 0 ELSE IF total - from < limit THEN total - from ELSE limit
page(from) == [i \in 1 .. pageLength(from) |-> total - from - i + 1]

Post ==
  /\ posted < maxPosts /\ posted' = posted + 1
  /\ UNCHANGED <<songID, dataSource, offset, hasMore, isLoading, requested, cutShort>>

-----------------------------------------------------------------------------
LoadDataUnguarded ==
  /\ songID /\ hasMore /\ requested < 2
  /\ isLoading' = TRUE /\ requested' = requested + 1
  /\ UNCHANGED <<songID, dataSource, offset, hasMore, posted, cutShort>>
(* The list is scrolled near its end.                                      *)
LoadData ==
  /\ songID /\ hasMore /\ ~isLoading
  /\ isLoading' = TRUE /\ requested' = requested + 1
  /\ UNCHANGED <<songID, dataSource, offset, hasMore, posted, cutShort>>

(* Every completion first lowers isLoading.                                *)
Completion == requested > 0 /\ requested' = requested - 1 /\ isLoading' = FALSE

AnswerKeepsOffset ==
  /\ Completion
  /\ hasMore' = (offset + limit < total)
  /\ dataSource' = dataSource \o page(offset)
  /\ UNCHANGED <<songID, offset, posted, cutShort>>
AnswerSkipsOne ==
  /\ Completion
  /\ offset' = offset + pageLength(offset + 1)
  /\ hasMore' = (offset + 1 + limit < total)
  /\ dataSource' = dataSource \o page(offset + 1)
  /\ UNCHANGED <<songID, posted, cutShort>>
AnswerEndsEarly ==
  /\ Completion
  /\ offset' = offset + pageLength(offset)
  /\ hasMore' = (offset' + limit < total)
  /\ dataSource' = dataSource \o page(offset)
  /\ UNCHANGED <<songID, posted, cutShort>>
AnswerArrives ==
  /\ Completion
  /\ offset' = offset + pageLength(offset)
  /\ hasMore' = (offset + limit < total)
  /\ dataSource' = dataSource \o page(offset)
  /\ UNCHANGED <<songID, posted, cutShort>>

(* A body without "comments" and "more" (the API's own error answers) is   *)
(* an empty last page.                                                     *)
AnswerWithoutPage ==
  /\ Completion
  /\ hasMore' = FALSE /\ cutShort' = TRUE
  /\ UNCHANGED <<songID, dataSource, offset, posted>>

FailureKeepsLoading ==
  /\ requested > 0 /\ requested' = requested - 1
  /\ UNCHANGED <<songID, dataSource, offset, hasMore, isLoading, posted, cutShort>>
(* An error or a timeout: the next scroll asks again.                      *)
AnswerFails ==
  /\ Completion
  /\ UNCHANGED <<songID, dataSource, offset, hasMore, posted, cutShort>>

Next == Post \/ LoadData \/ AnswerArrives \/ AnswerWithoutPage \/ AnswerFails

Spec == Init /\ [][Next]_vars

(* The user keeps scrolling at the end of the list; every request ends     *)
(* (15 s timeout), and not every one of endlessly many fails.              *)
Fairness ==
  /\ WF_vars(LoadData)
  /\ WF_vars(AnswerArrives \/ AnswerFails \/ AnswerWithoutPage)
  /\ SF_vars(AnswerArrives)

FairSpec == Spec /\ Fairness

-----------------------------------------------------------------------------
Shown == {dataSource[i] : i \in 1 .. Len(dataSource)}

(* No gap: with a comment, every newer one of those that were there when   *)
(* the page opened is shown, whatever was posted between two pages.        *)
NothingSkipped == \A c \in Shown : \A d \in c .. feedSize : d \in Shown

(* A comment is repeated only because new ones pushed it into a later      *)
(* page: never more repeats than posts, none on a feed at rest.            *)
RepeatsOnlyFromPosts == Len(dataSource) - Cardinality(Shown) <= posted

(* When the page stops asking, all comments there were are shown, unless   *)
(* an answer without a page ended it.                                      *)
EndMeansAll == ~hasMore /\ ~cutShort => 1 .. feedSize \subseteq Shown

(* A page with a song gets to the end of its comments, errors on the way   *)
(* included.                                                               *)
PagingEnds == songID ~> ~hasMore
=============================================================================
