----------------------------- MODULE PageProofs -----------------------------
(***************************************************************************)
(* What the pages that load their lists over the network show: the search  *)
(* page, for any keywords and bounds; the comment page, for a feed, a page *)
(* length and a number of posts of any size; and the home page, for an     *)
(* answer of any number of albums.                                         *)
(***************************************************************************)
EXTENDS SearchPage, CommentPage, TLAPS, SequenceTheorems, FiniteSetTheorems

CONSTANTS Counts, Nil
VARIABLES fetching, allModels, girdData, grid, albums, displayed, crashed

(* The home page, whose state and constants are those just declared.       *)
Home == INSTANCE HomePage

-----------------------------------------------------------------------------
(* The search page *)

Block == [list : Lists, hops : 1 .. 2]

Queued(k) == \E i \in 1 .. Len(mainQueue) : mainQueue[i].list.of = k

(* A list for the text is still on its way: its search will be made, is    *)
(* under way, waits for its pictures or for the main queue.                *)
UnderWay == timer \/ searches[text] > 0 \/ details[text] > 0 \/ Queued(text)

(* Unless something went astray, a table that is not the text's is waiting *)
(* for it.                                                                 *)
Awaited == ~astray /\ results.of # text => UnderWay

SearchInv == SearchTypeOK /\ Awaited

-----------------------------------------------------------------------------
(* The lists of the page are lists.                                        *)
LEMMA ListType ==
  ASSUME NEW k \in Texts, NEW songs \in BOOLEAN PROVE List(k, songs) \in Lists /\ List(k, songs).of = k
  BY DEF List, Lists

(* A dispatched block is the last of the queue, the others keep their      *)
(* place.                                                                  *)
LEMMA DispatchLast ==
  ASSUME NEW q \in Seq(Block), NEW list \in Lists, NEW hops \in 1 .. 2
  PROVE  /\ dispatch(q, list, hops) \in Seq(Block)
         /\ Len(dispatch(q, list, hops)) = Len(q) + 1
         /\ dispatch(q, list, hops)[Len(q) + 1].list = list
         /\ \A i \in 1 .. Len(q) : dispatch(q, list, hops)[i] = q[i]
<1>1. [list |-> list, hops |-> hops] \in Block
  BY DEF Block
<1>2. [list |-> list, hops |-> hops].list = list
  OBVIOUS
<1> QED
  BY <1>1, <1>2, AppendProperties DEF dispatch

(* The initial page is empty, as is its text.                              *)
LEMMA SearchInvInit == SearchInit => SearchInv
<1> SUFFICES ASSUME SearchInit PROVE SearchInv
  OBVIOUS
<1>1. List(Empty, FALSE) \in Lists /\ List(Empty, FALSE).of = Empty
  BY ListType DEF Texts
<1>2. mainQueue \in Seq([list : Lists, hops : 1 .. 2])
  BY EmptySeq DEF SearchInit
<1>3. results \in Lists
  BY <1>1 DEF SearchInit
<1>4. /\ text \in Texts
      /\ searches \in [Texts -> Nat] /\ details \in [Texts -> Nat]
  BY DEF SearchInit, Texts
<1>5. timer \in BOOLEAN /\ astray \in BOOLEAN
  BY DEF SearchInit
<1>6. SearchTypeOK
  BY <1>2, <1>3, <1>4, <1>5 DEF SearchTypeOK
<1> QED
  BY <1>1, <1>6 DEF SearchInit, SearchInv, Awaited

(* Editing and clearing the bar.                                           *)
LEMMA EditStep == SearchInv /\ updateSearchResults => SearchInv'
<1> SUFFICES ASSUME SearchInv, updateSearchResults PROVE SearchInv'
  OBVIOUS
<1>1. CASE ClearText
  <2>1. List(Empty, FALSE) \in Lists /\ List(Empty, FALSE).of = Empty
    BY ListType DEF Texts
  <2> QED
    BY <1>1, <2>1 DEF ClearText, SearchInv, SearchTypeOK, Awaited, Texts, requests
<1>2. ASSUME NEW k \in Keywords, TypeText(k) PROVE SearchInv'
  BY <1>2 DEF TypeText, SearchInv, SearchTypeOK, Awaited, UnderWay, Texts, requests
<1> QED BY <1>1, <1>2 DEF updateSearchResults

(* The delayed call searches for the text of its moment.                   *)
LEMMA PerformStep == SearchInv /\ performSearch => SearchInv'
<1> SUFFICES ASSUME SearchInv, performSearch PROVE SearchInv'
  OBVIOUS
<1>1. mainQueue' \in Seq(Block)
  <2> DEFINE none == List(Empty, FALSE)
  <2>1. none \in Lists
    BY ListType DEF Texts
  <2>2. mainQueue \in Seq(Block)
    BY DEF SearchInv, SearchTypeOK, Block
  <2>3. mainQueue' = dispatch(mainQueue, none, 1) \/ mainQueue' = mainQueue
    BY DEF performSearch
  <2> HIDE DEF none
  <2>4. dispatch(mainQueue, none, 1) \in Seq(Block)
    BY <2>1, <2>2, DispatchLast
  <2> QED BY <2>2, <2>3, <2>4
<1>2. searches' \in [Texts -> Nat] /\ searches'[text] > 0
  BY DEF performSearch, SearchInv, SearchTypeOK
<1>3. SearchTypeOK'
  BY <1>1, <1>2 DEF performSearch, SearchInv, SearchTypeOK, Block
<1> QED
  BY <1>2, <1>3 DEF performSearch, SearchInv, Awaited, UnderWay

(* Answers take the list on to its next station, or lose it and say so.    *)
LEMMA SearchAnswerStep == ASSUME NEW k \in Texts, SearchInv, Answer(k) PROVE SearchInv'
<1> DEFINE rest == \A j \in Texts \ {k} : searches'[j] = searches[j] /\ details'[j] = details[j]
<1>1. CASE SearchFails(k)
  <2>1. searches' \in [Texts -> Nat] /\ rest
    BY <1>1 DEF SearchFails, SearchInv, SearchTypeOK
  <2>2. SearchTypeOK'
    BY <1>1, <2>1 DEF SearchFails, SearchInv, SearchTypeOK
  <2>3. Awaited'
    BY <1>1, <2>1 DEF SearchFails, SearchInv, SearchTypeOK, Awaited, UnderWay, Queued
  <2> QED BY <2>2, <2>3 DEF SearchInv
<1>2. CASE SearchFindsSongs(k)
  <2>1. /\ searches' \in [Texts -> Nat] /\ details' \in [Texts -> Nat]
        /\ rest /\ details'[k] > 0
    BY <1>2 DEF SearchFindsSongs, SearchInv, SearchTypeOK
  <2>2. SearchTypeOK'
    BY <1>2, <2>1 DEF SearchFindsSongs, SearchInv, SearchTypeOK
  <2>3. Awaited'
    BY <1>2, <2>1 DEF SearchFindsSongs, SearchInv, SearchTypeOK, Awaited, UnderWay, Queued
  <2> QED BY <2>2, <2>3 DEF SearchInv
<1>3. CASE SearchFindsNothing(k) \/ fentchDetailsEnds(k)
  <2>1. /\ searches' \in [Texts -> Nat] /\ details' \in [Texts -> Nat] /\ rest
        /\ UNCHANGED <<text, timer, results, astray>>
    <3>1. CASE SearchFindsNothing(k)
      BY <3>1 DEF SearchFindsNothing, SearchInv, SearchTypeOK
    <3>2. CASE fentchDetailsEnds(k)
      BY <3>2 DEF fentchDetailsEnds, SearchInv, SearchTypeOK
    <3> QED BY <1>3, <3>1, <3>2
  <2>2. PICK songs \in BOOLEAN, hops \in 1 .. 2 :
          mainQueue' = dispatch(mainQueue, List(k, songs), hops)
    <3> DEFINE no == FALSE
               yes == TRUE
    <3>1. no \in BOOLEAN /\ yes \in BOOLEAN /\ 1 \in 1 .. 2 /\ 2 \in 1 .. 2
      OBVIOUS
    <3>2. \/ mainQueue' = dispatch(mainQueue, List(k, no), 1)
          \/ mainQueue' = dispatch(mainQueue, List(k, yes), 2)
      BY <1>3 DEF SearchFindsNothing, fentchDetailsEnds
    <3> HIDE DEF no, yes
    <3> QED BY <3>1, <3>2
  <2>3. List(k, songs) \in Lists /\ List(k, songs).of = k /\ mainQueue \in Seq(Block)
    BY ListType DEF SearchInv, SearchTypeOK, Block
  <2>4. mainQueue' \in Seq(Block) /\ Queued(k)' /\ \A j : Queued(j) => Queued(j)'
    <3>1. /\ mainQueue' \in Seq(Block) /\ Len(mainQueue') = Len(mainQueue) + 1
          /\ mainQueue'[Len(mainQueue) + 1].list = List(k, songs)
          /\ \A i \in 1 .. Len(mainQueue) : mainQueue'[i] = mainQueue[i]
      BY <2>2, <2>3, DispatchLast
    <3>2. Len(mainQueue) \in Nat
      BY <2>3
    <3> QED BY <2>3, <3>1, <3>2 DEF Queued
  <2>5. SearchTypeOK'
    BY <2>1, <2>4 DEF SearchInv, SearchTypeOK, Block
  <2>6. Awaited'
    BY <2>1, <2>4 DEF SearchInv, SearchTypeOK, Awaited, UnderWay
  <2> QED BY <2>5, <2>6 DEF SearchInv
<1> QED BY <1>1, <1>2, <1>3 DEF Answer

(* A block moves its list to the end of the queue, or shows it.            *)
LEMMA RunBlockStep == SearchInv /\ RunBlock => SearchInv'
<1> SUFFICES ASSUME SearchInv, RunBlock PROVE SearchInv'
  OBVIOUS
<1> DEFINE b == Head(mainQueue)
           t == Tail(mainQueue)
<1>1. mainQueue \in Seq(Block) /\ mainQueue # << >>
  BY DEF SearchInv, SearchTypeOK, RunBlock, Block
<1>2. /\ b \in Block /\ b = mainQueue[1] /\ t \in Seq(Block)
      /\ Len(t) = Len(mainQueue) - 1 /\ Len(mainQueue) \in Nat
      /\ \A i \in 1 .. Len(t) : t[i] = mainQueue[i + 1]
  BY <1>1, HeadTailProperties
<1>3. b.list \in Lists
  BY <1>2 DEF Block
<1> HIDE DEF b, t
<1>4. UNCHANGED <<text, timer, searches, details>>
  BY DEF RunBlock, requests
<1>5. CASE b.hops = 2
  <2>1. mainQueue' = dispatch(t, b.list, 1) /\ UNCHANGED <<results, astray>>
    BY <1>5 DEF RunBlock, b, t
  <2>2. /\ mainQueue' \in Seq(Block) /\ Len(mainQueue') = Len(mainQueue)
        /\ mainQueue'[Len(mainQueue)].list = b.list
        /\ \A i \in 1 .. Len(t) : mainQueue'[i] = t[i]
    <3>1. /\ dispatch(t, b.list, 1) \in Seq(Block)
          /\ Len(dispatch(t, b.list, 1)) = Len(t) + 1
          /\ dispatch(t, b.list, 1)[Len(t) + 1].list = b.list
          /\ \A i \in 1 .. Len(t) : dispatch(t, b.list, 1)[i] = t[i]
      <4>1. t \in Seq(Block) /\ 1 \in 1 .. 2
        BY <1>2
      <4> QED BY <1>3, <4>1, DispatchLast
    <3>2. Len(t) + 1 = Len(mainQueue)
      BY <1>2
    <3> QED BY <2>1, <3>1, <3>2
  <2>3. ASSUME NEW j, Queued(j) PROVE Queued(j)'
    <3>1. PICK i \in 1 .. Len(mainQueue) : mainQueue[i].list.of = j
      BY <2>3 DEF Queued
    <3>2. CASE i = 1
      BY <1>2, <2>2, <3>1, <3>2 DEF Queued
    <3>3. CASE i # 1
      <4>1. i - 1 \in 1 .. Len(t) /\ i - 1 \in 1 .. Len(mainQueue')
        BY <1>2, <2>2, <3>3
      <4>2. mainQueue'[i - 1] = mainQueue[i]
        BY <1>2, <2>2, <4>1
      <4> QED BY <3>1, <4>1, <4>2 DEF Queued
    <3> QED BY <3>2, <3>3
  <2>4. SearchTypeOK'
    BY <1>4, <2>1, <2>2 DEF SearchInv, SearchTypeOK, Block
  <2>5. Awaited'
    BY <1>4, <2>1, <2>3 DEF SearchInv, Awaited, UnderWay
  <2> QED BY <2>4, <2>5 DEF SearchInv
<1>6. CASE b.hops = 1
  <2>1. mainQueue' = t /\ results' = b.list /\ astray' = (b.list.of # text)
    BY <1>6 DEF RunBlock, b, t
  <2>2. SearchTypeOK'
    BY <1>2, <1>3, <1>4, <2>1 DEF SearchInv, SearchTypeOK, Block
  <2> QED BY <1>4, <2>1, <2>2 DEF SearchInv, Awaited
<1> QED BY <1>5, <1>6 DEF RunBlock, b

-----------------------------------------------------------------------------
(* The invariant holds throughout.                                         *)
LEMMA SearchInductive == SearchSpec => []SearchInv
<1>1. SearchInv /\ [SearchNext]_searchVars => SearchInv'
  <2> SUFFICES ASSUME SearchInv, [SearchNext]_searchVars PROVE SearchInv'
    OBVIOUS
  <2>1. CASE UNCHANGED searchVars
    BY <2>1 DEF searchVars, requests, SearchInv, SearchTypeOK, Awaited, UnderWay, Queued
  <2> QED
    BY <2>1, EditStep, PerformStep, SearchAnswerStep, RunBlockStep DEF SearchNext
<1> QED
  BY <1>1, SearchInvInit, PTL DEF SearchSpec

(* The page's state keeps its type: no request is answered twice, and a    *)
(* block has one or two hops.                                              *)
THEOREM SearchTypeCorrect == SearchSpec => []SearchTypeOK
<1>1. SearchInv => SearchTypeOK
  BY DEF SearchInv
<1> QED BY <1>1, SearchInductive, PTL

(* With nothing under way the table is the text's, unless a late answer to *)
(* another search was shown last or the text's search failed.              *)
THEOREM ResultsMatchText == SearchSpec => []SettledResultsMatch
<1>1. SearchInv => SettledResultsMatch
  <2> SUFFICES ASSUME SearchInv, Quiet, ~astray PROVE results.of = text
    BY DEF SettledResultsMatch
  <2>1. ~Queued(text)
    BY DEF Quiet, Queued
  <2> QED
    BY <2>1 DEF SearchInv, SearchTypeOK, Awaited, UnderWay, Quiet
<1> QED BY <1>1, SearchInductive, PTL

-----------------------------------------------------------------------------
(* The comment page *)

(* The first `offset' places of today's feed have been shown, as far as    *)
(* they hold comments from before the page opened.  This is what makes     *)
(* NothingSkipped inductive: the next page starts where it stops.          *)
Covered == \A d \in 1 .. feedSize : d > total - offset => d \in Shown

(* isLoading stands for the one request that may be outstanding.           *)
OneRequest == requested = (IF isLoading THEN 1 ELSE 0)

CommentInv == TypeOK /\ OneRequest /\ Covered /\ NothingSkipped /\ EndMeansAll

(* Concatenation shows the elements of both sequences.                     *)
LEMMA ShownConcat ==
  ASSUME NEW s \in Seq(Int), NEW t \in Seq(Int)
  PROVE  {(s \o t)[i] : i \in 1 .. Len(s \o t)}
           = {s[i] : i \in 1 .. Len(s)} \cup {t[i] : i \in 1 .. Len(t)}
<1>1. /\ Len(s) \in Nat /\ Len(t) \in Nat /\ Len(s \o t) = Len(s) + Len(t)
      /\ \A i \in 1 .. Len(s) + Len(t) :
           (s \o t)[i] = IF i <= Len(s) THEN s[i] ELSE t[i - Len(s)]
  BY ConcatProperties, LenProperties
<1>2. ASSUME NEW i \in 1 .. Len(s \o t)
      PROVE  (s \o t)[i] \in {s[j] : j \in 1 .. Len(s)} \cup {t[j] : j \in 1 .. Len(t)}
  <2>1. CASE i <= Len(s)
    BY <1>1, <2>1
  <2>2. CASE i > Len(s)
    <3>1. i - Len(s) \in 1 .. Len(t) /\ (s \o t)[i] = t[i - Len(s)]
      BY <1>1, <2>2
    <3> QED BY <3>1
  <2> QED BY <1>1, <2>1, <2>2
<1>3. ASSUME NEW i \in 1 .. Len(s)
      PROVE  s[i] \in {(s \o t)[j] : j \in 1 .. Len(s \o t)}
  <2>1. i \in 1 .. Len(s \o t) /\ (s \o t)[i] = s[i]
    BY <1>1
  <2> QED BY <2>1
<1>4. ASSUME NEW i \in 1 .. Len(t)
      PROVE  t[i] \in {(s \o t)[j] : j \in 1 .. Len(s \o t)}
  <2>1. i + Len(s) \in 1 .. Len(s \o t) /\ (s \o t)[i + Len(s)] = t[i]
    BY <1>1
  <2> QED BY <2>1
<1> QED BY <1>2, <1>3, <1>4

(* The page at an offset: how long it is and which comments it holds.      *)
LEMMA PageShape ==
  ASSUME TypeOK
  PROVE  /\ offset \in Nat /\ total \in Nat
         /\ pageLength(offset) \in Nat
         /\ page(offset) \in Seq(1 .. total) /\ Len(page(offset)) = pageLength(offset)
         /\ offset < total => pageLength(offset) <= total - offset
         /\ \A c : c \in {page(offset)[i] : i \in 1 .. Len(page(offset))} <=>
                     c \in Int /\ total - offset - pageLength(offset) < c /\ c <= total - offset
<1>1. offset \in Nat /\ total \in Nat
  BY FeedAssumption, LenProperties DEF TypeOK, total
<1>2. /\ pageLength(offset) \in Nat
      /\ offset < total => pageLength(offset) <= total - offset
      /\ offset >= total => pageLength(offset) = 0
  BY <1>1, FeedAssumption DEF pageLength
<1>3. \A i \in 1 .. pageLength(offset) : total - offset - i + 1 \in 1 .. total
  BY <1>1, <1>2
<1>4. page(offset) \in [1 .. pageLength(offset) -> 1 .. total]
  BY <1>3 DEF page
<1>5. page(offset) \in Seq(1 .. total) /\ Len(page(offset)) = pageLength(offset)
  <2>1. page(offset) \in Seq(1 .. total)
    BY <1>2, <1>4, SeqDef
  <2>2. Len(page(offset)) \in Nat /\ DOMAIN page(offset) = 1 .. Len(page(offset))
    BY <2>1, LenProperties
  <2>3. 1 .. Len(page(offset)) = 1 .. pageLength(offset)
    BY <1>4, <2>2
  <2> HIDE DEF page, pageLength
  <2>4. Len(page(offset)) = pageLength(offset)
    BY <1>2, <2>2, <2>3
  <2> QED BY <2>1, <2>4
<1>6. ASSUME NEW c, c \in {page(offset)[i] : i \in 1 .. Len(page(offset))}
      PROVE  c \in Int /\ total - offset - pageLength(offset) < c /\ c <= total - offset
  <2>1. PICK i \in 1 .. pageLength(offset) : c = page(offset)[i]
    BY <1>5, <1>6
  <2> QED BY <1>1, <1>2, <2>1 DEF page
<1>7. ASSUME NEW c \in Int, total - offset - pageLength(offset) < c, c <= total - offset
      PROVE  c \in {page(offset)[i] : i \in 1 .. Len(page(offset))}
  <2>1. total - offset - c + 1 \in 1 .. pageLength(offset)
    BY <1>1, <1>2, <1>7
  <2>2. page(offset)[total - offset - c + 1] = c
    BY <1>1, <1>7, <2>1 DEF page
  <2> QED BY <1>5, <2>1, <2>2
<1> QED BY <1>1, <1>2, <1>5, <1>6, <1>7

(* A page is appended to what is shown.                                    *)
LEMMA AnswerShows ==
  ASSUME TypeOK, AnswerArrives
  PROVE  /\ dataSource' \in Seq(1 .. feedSize + posted') /\ offset' = Len(dataSource')
         /\ offset' = offset + pageLength(offset) /\ total' = total
         /\ \A c : c \in Shown' <=>
                     \/ c \in Shown
                     \/ c \in Int /\ total - offset' < c /\ c <= total - offset
<1> DEFINE s == dataSource  t == page(offset)
<1>1. s \in Seq(1 .. total) /\ t \in Seq(1 .. total) /\ Len(t) = pageLength(offset)
      /\ offset = Len(s)
  BY PageShape DEF TypeOK, total
<1>2. dataSource' = s \o t /\ posted' = posted /\ offset' = offset + pageLength(offset)
  BY DEF AnswerArrives
<1>3. s \o t \in Seq(1 .. total) /\ Len(s \o t) = Len(s) + Len(t)
  BY <1>1, ConcatProperties
<1>4. dataSource' \in Seq(1 .. feedSize + posted') /\ offset' = Len(dataSource')
      /\ total' = total
  BY <1>1, <1>2, <1>3 DEF total
<1>5. s \in Seq(Int) /\ t \in Seq(Int)
  <2>1. 1 .. total \subseteq Int
    BY PageShape
  <2> QED BY <1>1, <2>1, SeqMonotonic
<1>6. Shown' = Shown \cup {t[i] : i \in 1 .. Len(t)}
  <2>1. Shown' = {(s \o t)[i] : i \in 1 .. Len(s \o t)}
    BY <1>2 DEF Shown
  <2>2. Shown = {s[i] : i \in 1 .. Len(s)}
    BY DEF Shown
  <2> HIDE DEF s, t
  <2> QED BY <1>5, <2>1, <2>2, ShownConcat
<1>7. total - offset' = total - offset - pageLength(offset)
  BY <1>2, PageShape
<1> QED BY <1>2, <1>4, <1>6, <1>7, PageShape

(* The initial states satisfy the invariant. *)
LEMMA CommentInvInit == Init => CommentInv
<1> SUFFICES ASSUME Init PROVE CommentInv
  OBVIOUS
<1>1. Len(dataSource) = 0 /\ offset = 0 /\ posted = 0 /\ dataSource \in Seq(1 .. feedSize + posted)
  BY EmptySeq DEF Init
<1>2. TypeOK
  <2>1. requested \in 0 .. 1 /\ posted \in 0 .. maxPosts
    BY FeedAssumption DEF Init
  <2>2. songID \in BOOLEAN /\ hasMore \in BOOLEAN /\ isLoading \in BOOLEAN /\ cutShort \in BOOLEAN
    BY DEF Init
  <2> QED BY <1>1, <2>1, <2>2 DEF TypeOK
<1>3. OneRequest /\ EndMeansAll
  BY DEF Init, OneRequest, EndMeansAll
<1>4. Covered /\ NothingSkipped
  BY <1>1, FeedAssumption DEF Covered, NothingSkipped, Shown, total
<1> QED BY <1>2, <1>3, <1>4 DEF CommentInv

(* A page arrives.                                                         *)
LEMMA AnswerStep == CommentInv /\ AnswerArrives => CommentInv'
<1> SUFFICES ASSUME CommentInv, AnswerArrives PROVE CommentInv'
  OBVIOUS
<1>1. TypeOK
  BY DEF CommentInv
<1>2. /\ offset \in Nat /\ total \in Nat /\ pageLength(offset) \in Nat
      /\ offset' = offset + pageLength(offset) /\ total' = total
      /\ dataSource' \in Seq(1 .. feedSize + posted') /\ offset' = Len(dataSource')
  BY <1>1, PageShape, AnswerShows
<1>3. \A c : c \in Shown' <=>
               c \in Shown \/ (c \in Int /\ total - offset' < c /\ c <= total - offset)
  BY <1>1, AnswerShows
<1>4. /\ requested > 0 /\ requested' = requested - 1 /\ isLoading' = FALSE
      /\ UNCHANGED <<songID, posted, cutShort>>
  BY DEF AnswerArrives, Completion
<1>4a. hasMore' \in BOOLEAN /\ (~hasMore' => ~(offset + limit < total))
  <2> DEFINE more == offset + limit < total
  <2>1. hasMore' = more
    BY DEF AnswerArrives
  <2>2. more \in BOOLEAN
    BY <1>2, FeedAssumption
  <2> HIDE DEF more
  <2>3. hasMore' \in BOOLEAN /\ (~hasMore' => ~more)
    BY <2>1, <2>2, Zenon
  <2> QED BY <2>3 DEF more
<1>5. requested = 1
  BY <1>1, <1>4 DEF TypeOK
<1>6. TypeOK' /\ OneRequest'
  <2>1. hasMore' \in BOOLEAN /\ isLoading' \in BOOLEAN
    BY <1>4, <1>4a
  <2>2. requested' \in 0 .. 1
    BY <1>4, <1>5
  <2>3. TypeOK'
    BY <1>1, <1>2, <1>4, <2>1, <2>2 DEF TypeOK
  <2> QED BY <1>4, <1>5, <2>3 DEF OneRequest
<1>7. Covered'
  <2> SUFFICES ASSUME NEW d \in 1 .. feedSize, d > total' - offset' PROVE d \in Shown'
    BY DEF Covered
  <2>1. CASE d > total - offset
    BY <1>3, <2>1 DEF CommentInv, Covered
  <2>2. CASE d <= total - offset
    BY <1>2, <1>3, <2>2
  <2> QED BY <1>2, <2>1, <2>2
<1>8. NothingSkipped'
  <2> SUFFICES ASSUME NEW c \in Shown', NEW d \in c .. feedSize PROVE d \in Shown'
    BY DEF NothingSkipped
  <2>1. CASE c \in Shown
    BY <1>3, <2>1 DEF CommentInv, NothingSkipped
  <2>2. CASE c \notin Shown
    <3>1. c \in Int /\ total - offset' < c
      BY <1>3, <2>2
    <3>2. c >= 1
      <4>1. Shown' \subseteq 1 .. feedSize + posted'
        BY <1>2, ElementOfSeq DEF Shown
      <4> QED BY <4>1
    <3>3. d \in 1 .. feedSize /\ d > total' - offset'
      BY <1>2, <3>1, <3>2, FeedAssumption
    <3> QED BY <1>7, <3>3 DEF Covered
  <2> QED BY <2>1, <2>2
<1>9. EndMeansAll'
  <2> SUFFICES ASSUME ~hasMore', NEW d \in 1 .. feedSize PROVE d \in Shown'
    BY DEF EndMeansAll
  <2>1. offset + limit >= total
    BY <1>2, <1>4a, FeedAssumption
  <2>2. offset' >= total
    BY <1>2, <2>1, FeedAssumption DEF pageLength
  <2> QED BY <1>2, <1>7, <2>2, FeedAssumption DEF Covered
<1> QED BY <1>6, <1>7, <1>8, <1>9 DEF CommentInv

(* Every step preserves the invariant.                                     *)
LEMMA CommentInvNext == CommentInv /\ [Next]_vars => CommentInv'
<1> SUFFICES ASSUME CommentInv, [Next]_vars PROVE CommentInv'
  OBVIOUS
<1>1. CASE AnswerArrives
  BY <1>1, AnswerStep
<1>2. CASE Post
  <2>1. /\ posted' = posted + 1 /\ posted < maxPosts
        /\ UNCHANGED <<songID, dataSource, offset, hasMore, isLoading, requested, cutShort>>
    BY <1>2 DEF Post
  <2>2. posted \in Nat /\ offset \in Nat /\ total \in Nat /\ total' = total + 1
    BY <2>1, FeedAssumption, PageShape DEF CommentInv, TypeOK, total
  <2>3. dataSource' \in Seq(1 .. feedSize + posted')
    <3>1. 1 .. feedSize + posted \subseteq 1 .. feedSize + posted'
      BY <2>1, <2>2, FeedAssumption
    <3>2. dataSource \in Seq(1 .. feedSize + posted)
      BY DEF CommentInv, TypeOK
    <3>3. dataSource \in Seq(1 .. feedSize + posted')
      BY <3>1, <3>2, SeqMonotonic
    <3> QED BY <2>1, <3>3
  <2>4. TypeOK'
    BY <2>1, <2>2, <2>3, FeedAssumption DEF CommentInv, TypeOK
  <2>5. Covered'
    BY <2>1, <2>2, FeedAssumption DEF CommentInv, Covered, Shown
  <2>6. OneRequest' /\ NothingSkipped' /\ EndMeansAll'
    BY <2>1 DEF CommentInv, OneRequest, NothingSkipped, EndMeansAll, Shown
  <2> QED BY <2>4, <2>5, <2>6 DEF CommentInv
<1>3. CASE LoadData \/ AnswerWithoutPage \/ AnswerFails \/ UNCHANGED vars
  <2>1. /\ UNCHANGED <<songID, dataSource, offset, posted>>
        /\ hasMore' \in BOOLEAN /\ isLoading' \in BOOLEAN /\ cutShort' \in BOOLEAN
        /\ ~hasMore' /\ ~cutShort' => ~hasMore /\ ~cutShort
    BY <1>3 DEF LoadData, AnswerWithoutPage, AnswerFails, Completion, vars, CommentInv, TypeOK
  <2>2. requested' \in 0 .. 1 /\ OneRequest'
    BY <1>3 DEF LoadData, AnswerWithoutPage, AnswerFails, Completion, vars, CommentInv, TypeOK,
       OneRequest
  <2>3. TypeOK'
    BY <2>1, <2>2 DEF CommentInv, TypeOK
  <2>4. Covered' /\ NothingSkipped' /\ EndMeansAll'
    BY <2>1 DEF CommentInv, Covered, NothingSkipped, EndMeansAll, Shown, total
  <2> QED BY <2>2, <2>3, <2>4 DEF CommentInv
<1> QED BY <1>1, <1>2, <1>3 DEF Next

(* The invariant holds in every reachable state.                           *)
THEOREM CommentInductive == Spec => []CommentInv
BY CommentInvInit, CommentInvNext, PTL DEF Spec

(* The page's state is well typed: offset is the number of comments shown  *)
(* and LoadData has at most one request outstanding.                       *)
THEOREM CommentTypeCorrect == Spec => []TypeOK
<1>1. CommentInv => TypeOK
  BY DEF CommentInv
<1> QED BY <1>1, CommentInductive, PTL

(* Paging by offset never skips a comment, however many are posted.        *)
THEOREM NoGap == Spec => []NothingSkipped
<1>1. CommentInv => NothingSkipped
  BY DEF CommentInv
<1> QED BY <1>1, CommentInductive, PTL

(* When LoadData stops asking, every comment there was is shown.           *)
THEOREM EndIsComplete == Spec => []EndMeansAll
<1>1. CommentInv => EndMeansAll
  BY DEF CommentInv
<1> QED BY <1>1, CommentInductive, PTL

-----------------------------------------------------------------------------
(* Repeats *)

(* p posts account for the repeats so far: no more comments are repeated,  *)
(* and nothing older is shown than `offset' reaches in a feed with p more  *)
(* comments.  The other posts have pushed down the feed, but what they     *)
(* pushed has not been read again yet.                                     *)
AccountFor(p) ==
  /\ Len(dataSource) - Cardinality(Shown) <= p
  /\ \A c \in Shown : c > feedSize + p - offset
RepeatsAccounted == \E p \in 0 .. posted : AccountFor(p)

(* The comments shown are finitely many numbers.                           *)
LEMMA ShownFinite ==
  ASSUME TypeOK
  PROVE  Shown \subseteq 1 .. total /\ IsFiniteSet(Shown) /\ Cardinality(Shown) \in Nat
<1>1. total \in Nat
  BY PageShape
<1>2. Shown \subseteq 1 .. total
  BY ElementOfSeq DEF TypeOK, Shown, total
<1>3. IsFiniteSet(1 .. total)
  BY <1>1, FS_Interval
<1>4. IsFiniteSet(Shown)
  BY <1>2, <1>3, FS_Subset
<1> QED BY <1>2, <1>4, FS_CardinalityType

(* A page repeats what the posts not yet accounted for pushed into it, and *)
(* no more: the rest of it lies below everything shown.                    *)
LEMMA AnswerAccounted == CommentInv /\ RepeatsAccounted /\ AnswerArrives => RepeatsAccounted'
<1> SUFFICES ASSUME CommentInv, RepeatsAccounted, AnswerArrives PROVE RepeatsAccounted'
  OBVIOUS
<1> DEFINE n == pageLength(offset)
<1>1. TypeOK /\ TypeOK'
  BY AnswerStep DEF CommentInv
<1>2. PICK p \in 0 .. posted : AccountFor(p)
  BY DEF RepeatsAccounted
<1>3. /\ offset \in Nat /\ n \in Nat /\ posted \in Nat /\ feedSize \in Nat /\ p \in Nat
      /\ p <= posted /\ total = feedSize + posted
  BY <1>1, PageShape, FeedAssumption DEF TypeOK, total
<1>4. /\ offset' = offset + n /\ total' = total /\ posted' = posted
      /\ Len(dataSource) = offset /\ Len(dataSource') = offset + n
      /\ \A c : c \in Shown' <=>
                  \/ c \in Shown
                  \/ c \in Int /\ total - (offset + n) < c /\ c <= total - offset
  <2>1. offset' = offset + n
    BY <1>1, AnswerShows
  <2> QED BY <1>1, <2>1, AnswerShows DEF TypeOK, AnswerArrives
<1>5. /\ IsFiniteSet(Shown) /\ Cardinality(Shown) \in Nat /\ Shown \subseteq Int
      /\ IsFiniteSet(Shown') /\ Cardinality(Shown') \in Nat
  <2>1. IsFiniteSet(Shown) /\ Cardinality(Shown) \in Nat /\ Shown \subseteq 1 .. total
    BY <1>1, ShownFinite
  <2>2. (IsFiniteSet(Shown) /\ Cardinality(Shown) \in Nat)'
    BY <1>1, ShownFinite, PTL
  <2>3. 1 .. total \subseteq Int
    BY <1>3
  <2> QED BY <2>1, <2>2, <2>3
<1>6. offset - Cardinality(Shown) <= p /\ \A c \in Shown : c > feedSize + p - offset
  BY <1>2, <1>4 DEF AccountFor
<1> HIDE DEF n
<1>7. CASE n <= posted - p
  <2>1. p + n \in 0 .. posted'
    BY <1>3, <1>4, <1>7
  <2>2. Cardinality(Shown) <= Cardinality(Shown')
    <3>1. Shown \subseteq Shown'
      BY <1>4
    <3> QED BY <1>5, <3>1, FS_Subset
  <2>3. Len(dataSource') - Cardinality(Shown') <= p + n
    BY <1>3, <1>4, <1>5, <1>6, <2>2
  <2>4. ASSUME NEW c \in Shown' PROVE c > feedSize + (p + n) - offset'
    <3>1. CASE c \in Shown
      <4>1. c \in Int /\ c > feedSize + p - offset
        BY <1>5, <1>6, <3>1
      <4> QED BY <1>3, <1>4, <4>1
    <3>2. CASE c \in Int /\ total - (offset + n) < c
      BY <1>3, <1>4, <1>7, <3>2
    <3> QED BY <1>4, <3>1, <3>2
  <2> QED BY <2>1, <2>3, <2>4 DEF RepeatsAccounted, AccountFor
<1>8. CASE n > posted - p
  <2> DEFINE low == total - (offset + n) + 1
             high == feedSize + p - offset
             Fresh == low .. high
  <2>1. low \in Int /\ high \in Int /\ high - low + 1 = n - (posted - p) /\ ~(low > high)
    BY <1>3, <1>8
  <2>2. IsFiniteSet(Fresh) /\ Cardinality(Fresh) = n - (posted - p)
    <3> HIDE DEF low, high
    <3>1. IsFiniteSet(Fresh) /\ Cardinality(Fresh) = high - low + 1
      BY <2>1, FS_Interval
    <3> QED BY <2>1, <3>1
  <2>3. Shown \cap Fresh = {}
    BY <1>3, <1>5, <1>6
  <2>4. Shown \cup Fresh \subseteq Shown'
    <3>1. ASSUME NEW c \in Fresh PROVE c \in Shown'
      BY <1>3, <1>4, <3>1
    <3> QED BY <1>4, <3>1
  <2> HIDE DEF Fresh
  <2>5. Cardinality(Shown) + n - (posted - p) <= Cardinality(Shown')
    <3>1. /\ IsFiniteSet(Shown \cup Fresh)
          /\ Cardinality(Shown \cup Fresh)
               = Cardinality(Shown) + Cardinality(Fresh) - Cardinality(Shown \cap Fresh)
      BY <1>5, <2>2, FS_Union
    <3>2. Cardinality(Shown \cap Fresh) = 0
      BY <2>3, FS_EmptySet
    <3>3. Cardinality(Shown \cup Fresh) <= Cardinality(Shown')
      BY <1>5, <2>4, FS_Subset
    <3> QED BY <1>3, <1>5, <2>2, <3>1, <3>2, <3>3
  <2>6. Len(dataSource') - Cardinality(Shown') <= posted
    BY <1>3, <1>4, <1>5, <1>6, <2>5
  <2>7. ASSUME NEW c \in Shown' PROVE c > feedSize + posted - offset'
    <3>1. CASE c \in Shown
      <4>1. c \in Int /\ c > feedSize + p - offset
        BY <1>5, <1>6, <3>1
      <4> QED BY <1>3, <1>4, <1>8, <4>1
    <3>2. CASE c \in Int /\ total - (offset + n) < c
      BY <1>3, <1>4, <3>2
    <3> QED BY <1>4, <3>1, <3>2
  <2>8. posted \in 0 .. posted'
    BY <1>3, <1>4
  <2> QED BY <2>6, <2>7, <2>8 DEF RepeatsAccounted, AccountFor
<1> QED BY <1>3, <1>7, <1>8

(* Every step keeps the account: a post adds to what may be repeated, the  *)
(* other steps show nothing.                                               *)
LEMMA NextAccounted == CommentInv /\ RepeatsAccounted /\ [Next]_vars => RepeatsAccounted'
<1> SUFFICES ASSUME CommentInv, RepeatsAccounted, [Next]_vars PROVE RepeatsAccounted'
  OBVIOUS
<1>1. CASE AnswerArrives
  BY <1>1, AnswerAccounted
<1>2. CASE Post \/ LoadData \/ AnswerWithoutPage \/ AnswerFails \/ UNCHANGED vars
  <2>1. UNCHANGED <<dataSource, offset>> /\ (posted' = posted \/ posted' = posted + 1)
    BY <1>2 DEF Post, LoadData, AnswerWithoutPage, AnswerFails, vars
  <2>2. posted \in Nat
    BY FeedAssumption DEF CommentInv, TypeOK
  <2>3. PICK p \in 0 .. posted : AccountFor(p)
    BY DEF RepeatsAccounted
  <2>4. p \in 0 .. posted'
    BY <2>1, <2>2, <2>3
  <2>5. AccountFor(p)'
    BY <2>1, <2>3 DEF AccountFor, Shown
  <2> QED BY <2>4, <2>5 DEF RepeatsAccounted, AccountFor
<1> QED BY <1>1, <1>2 DEF Next

(* LoadData repeats a comment only because a new one was posted: never     *)
(* more repeats than posts.                                                *)
THEOREM RepeatsArePosts == Spec => []RepeatsOnlyFromPosts
<1>1. Init => RepeatsAccounted
  <2> SUFFICES ASSUME Init PROVE 0 \in 0 .. posted /\ AccountFor(0)
    BY DEF RepeatsAccounted
  <2>1. Len(dataSource) = 0 /\ Shown = {} /\ posted = 0
    BY EmptySeq DEF Init, Shown
  <2> QED BY <2>1, FS_EmptySet DEF AccountFor
<1>2. CommentInv /\ RepeatsAccounted => RepeatsOnlyFromPosts
  <2> SUFFICES ASSUME CommentInv, RepeatsAccounted PROVE RepeatsOnlyFromPosts
    OBVIOUS
  <2>1. PICK p \in 0 .. posted : Len(dataSource) - Cardinality(Shown) <= p
    BY DEF RepeatsAccounted, AccountFor
  <2>2. Len(dataSource) \in Nat /\ Cardinality(Shown) \in Nat /\ posted \in Nat
    BY ShownFinite, LenProperties, FeedAssumption DEF CommentInv, TypeOK
  <2> QED BY <2>1, <2>2 DEF RepeatsOnlyFromPosts
<1> QED BY <1>1, <1>2, NextAccounted, CommentInductive, PTL DEF Spec

-----------------------------------------------------------------------------
(* The home page *)

(* An answer holds a number of albums, and nil is none.                    *)
CountsAreNumbers == Counts \subseteq Nat /\ Nil \notin Nat

RowSlice(r) == Home!safeSubarrayFrom(allModels, 6 * r, 6)
GridSlice == Home!Slice(0, Home!Smaller(6, allModels))

(* The slices follow from the one answer that ever arrives; only an answer *)
(* too short for the four rows lets an index run out.                      *)
HomeInv ==
  /\ CountsAreNumbers
  /\ allModels \in Nat \cup {Nil}
  /\ fetching => allModels = Nil
  /\ albums \in [Home!Rows -> {Nil} \cup [from : Nat, len : Nat]]
  /\ girdData = Home!Slice(0, 0) \/ (allModels # Nil /\ girdData = GridSlice)
  /\ grid = Nil \/ grid = Home!Slice(0, 0) \/ (allModels # Nil /\ grid = GridSlice)
  /\ \A r \in Home!Rows : albums[r] = Nil \/ (allModels # Nil /\ albums[r] = RowSlice(r))
  /\ crashed => allModels # Nil /\ allModels < 30

(* A row's slice starts at 6r, holds at most six albums, all of them in    *)
(* the answer, and holds six when the answer reaches that far.             *)
LEMMA RowSliceShape ==
  ASSUME NEW n \in Nat, NEW r \in Home!Rows
  PROVE  LET s == Home!safeSubarrayFrom(n, 6 * r, 6)
         IN  /\ s \in [from : Nat, len : Nat]
             /\ s.from = 6 * r /\ s.len <= 6
             /\ s.len > 0 => 6 * r + s.len <= n
             /\ n >= 30 => s.len = 6
  BY DEF Home!safeSubarrayFrom, Home!Slice, Home!Smaller, Home!Rows

(* The state before the answer satisfies the invariant.                    *)
LEMMA HomeInit == CountsAreNumbers /\ Home!Init => HomeInv
  BY DEF Home!Init, HomeInv, Home!Slice, Home!Rows

(* Every step keeps it.                                                    *)
LEMMA HomeStep == HomeInv /\ [Home!Next]_(Home!vars) => HomeInv'
<1> SUFFICES ASSUME HomeInv, [Home!Next]_(Home!vars) PROVE HomeInv'
  OBVIOUS
<1>1. CASE UNCHANGED Home!vars
  BY <1>1 DEF HomeInv, Home!vars, RowSlice, GridSlice
<1>2. CASE Home!AnswerFails
  BY <1>2 DEF Home!AnswerFails, HomeInv, RowSlice, GridSlice
<1>3. CASE Home!AnswerArrives
  <2>1. PICK n \in Counts \ {0} :
          /\ allModels' = n
          /\ girdData' = IF n >= 6 THEN Home!Slice(0, 6) ELSE Home!Slice(0, n)
    BY <1>3 DEF Home!AnswerArrives
  <2>2. allModels = Nil /\ n \in Nat /\ n # Nil
    BY <1>3 DEF Home!AnswerArrives, HomeInv, CountsAreNumbers
  <2>3. girdData' = GridSlice'
    BY <2>1, <2>2 DEF GridSlice, Home!Slice, Home!Smaller
  <2>4. (grid = Nil \/ grid = Home!Slice(0, 0)) /\ \A r \in Home!Rows : albums[r] = Nil
    BY <2>2 DEF HomeInv
  <2> QED
    BY <1>3, <2>1, <2>2, <2>3, <2>4 DEF Home!AnswerArrives, HomeInv
<1>4. CASE Home!cellForGrid
  BY <1>4 DEF Home!cellForGrid, HomeInv, RowSlice, GridSlice
<1>5. ASSUME NEW r \in Home!Rows, Home!cellForRow(r) PROVE HomeInv'
  <2>1. allModels \in Nat /\ allModels # Nil
    BY <1>5 DEF Home!cellForRow, HomeInv
  <2>2. RowSlice(r) \in [from : Nat, len : Nat]
    BY <2>1, RowSliceShape DEF RowSlice
  <2>3. albums' = [albums EXCEPT ![r] = RowSlice(r)] /\ UNCHANGED allModels
    BY <1>5 DEF Home!cellForRow, RowSlice
  <2>4. albums' \in [Home!Rows -> {Nil} \cup [from : Nat, len : Nat]]
    BY <2>2, <2>3 DEF HomeInv
  <2>5. \A q \in Home!Rows : albums'[q] = Nil \/ albums'[q] = RowSlice(q)'
    BY <2>3 DEF HomeInv, RowSlice
  <2> QED
    BY <1>5, <2>1, <2>3, <2>4, <2>5 DEF Home!cellForRow, HomeInv, GridSlice
<1>6. ASSUME NEW r \in Home!Rows, NEW item \in 0 .. 5, Home!cellForItem(r, item) PROVE HomeInv'
  <2>1. allModels # Nil /\ allModels \in Nat /\ albums[r] = RowSlice(r)
    BY <1>6 DEF Home!cellForItem, HomeInv
  <2>2. allModels >= 30 => albums[r].len = 6
    BY <2>1, RowSliceShape DEF RowSlice
  <2>3. crashed' => allModels < 30
    <3>1. SUFFICES ASSUME allModels >= 30 PROVE ~crashed'
      BY <2>1
    <3>2. item < albums[r].len
      BY <2>2, <3>1
    <3> QED
      BY <1>6, <3>2 DEF Home!cellForItem
  <2> QED
    BY <1>6, <2>1, <2>3 DEF Home!cellForItem, HomeInv, RowSlice, GridSlice
<1>7. ASSUME NEW item \in 0 .. 5, Home!cellForGridItem(item) PROVE HomeInv'
  BY <1>7 DEF Home!cellForGridItem, HomeInv, RowSlice, GridSlice
<1> QED
  BY <1>1, <1>2, <1>3, <1>4, <1>5, <1>6, <1>7 DEF Home!Next

(* The invariant's slices are disjoint and inside the answer.              *)
LEMMA HomeDisjoint == HomeInv => Home!SlicesDisjoint
<1> SUFFICES ASSUME HomeInv PROVE Home!SlicesDisjoint
  OBVIOUS
<1> DEFINE S == [k \in 0 .. 4 |-> IF k = 0 THEN grid ELSE albums[k]]
           Holds(k, i) == S[k] # Nil /\ S[k].from <= i /\ i < S[k].from + S[k].len
<1>1. ASSUME NEW k \in 0 .. 4, NEW i \in 0 .. 35, Holds(k, i)
      PROVE  i < allModels /\ 6 * k <= i /\ i < 6 * k + 6
  <2>1. CASE k = 0
    <3>1. S[k] = grid /\ grid # Nil
      BY <1>1, <2>1
    <3>2. grid # Home!Slice(0, 0)
      BY <1>1, <3>1 DEF Home!Slice
    <3>3. grid = Home!Slice(0, Home!Smaller(6, allModels)) /\ allModels \in Nat
      BY <3>1, <3>2 DEF HomeInv, GridSlice
    <3>4. grid.from = 0 /\ grid.len = Home!Smaller(6, allModels)
      BY <3>3 DEF Home!Slice
    <3> QED
      BY <1>1, <2>1, <3>1, <3>3, <3>4 DEF Home!Smaller
  <2>2. CASE k \in Home!Rows
    <3>1. S[k] = albums[k] /\ albums[k] # Nil
      BY <1>1, <2>2 DEF Home!Rows
    <3>2. albums[k] = RowSlice(k) /\ allModels \in Nat
      BY <2>2, <3>1 DEF HomeInv
    <3>3. /\ albums[k] \in [from : Nat, len : Nat]
          /\ albums[k].from = 6 * k /\ albums[k].len <= 6
          /\ albums[k].len > 0 => 6 * k + albums[k].len <= allModels
      BY <2>2, <3>2, RowSliceShape DEF RowSlice
    <3> HIDE DEF S
    <3>4. /\ albums[k].from <= i /\ i < albums[k].from + albums[k].len
          /\ albums[k].from \in Nat /\ albums[k].len \in Nat
      BY <1>1, <3>1, <3>3
    <3> QED
      BY <3>2, <3>3, <3>4
  <2> QED
    BY <2>1, <2>2 DEF Home!Rows
<1> HIDE DEF Holds
<1>2. ASSUME NEW k \in 0 .. 4, NEW i \in 0 .. 35, Holds(k, i), NEW j \in 0 .. 4 \ {k}
      PROVE  ~Holds(j, i)
  BY <1>1, <1>2
<1>3. \A k \in 0 .. 4 : \A i \in 0 .. 35 :
        Holds(k, i) => i < allModels /\ \A j \in 0 .. 4 \ {k} : ~Holds(j, i)
  BY <1>1, <1>2
<1> QED
  BY <1>3 DEF Home!SlicesDisjoint, Holds

(* The grid and the four rows never share an album and never show one the  *)
(* answer does not hold, whatever the number of albums.                    *)
THEOREM HomeSlicesDisjoint == CountsAreNumbers /\ Home!Spec => []Home!SlicesDisjoint
<1>1. CountsAreNumbers /\ Home!Init /\ [][Home!Next]_(Home!vars) => []HomeInv
  BY HomeInit, HomeStep, PTL
<1> QED
  BY <1>1, HomeDisjoint, PTL DEF Home!Spec

(* An answer of at least the 30 albums the page's rows need, or none at    *)
(* all, never takes an item index out of bounds.                           *)
THEOREM HomeFullAnswerSafe == CountsAreNumbers /\ Home!Spec => []Home!FullAnswerSafe
<1>1. CountsAreNumbers /\ Home!Init /\ [][Home!Next]_(Home!vars) => []HomeInv
  BY HomeInit, HomeStep, PTL
<1>2. HomeInv => Home!FullAnswerSafe
  BY DEF CountsAreNumbers, HomeInv, Home!FullAnswerSafe
<1> QED
  BY <1>1, <1>2, PTL DEF Home!Spec
=============================================================================
