----------------------------- MODULE SearchPage -----------------------------
(***************************************************************************)
(* The search page of VCSearchPage.mm and the two requests behind a search *)
(* (SpotifySearchModel.mm): /search, then /song/detail for the pictures.   *)
(* Everything here runs on the main queue.  Requests are answered in any   *)
(* order; a list reaches the page through one block of the main queue, or  *)
(* two when it has been through /song/detail.  A list is its keyword and   *)
(* whether it has songs.                                                   *)
(***************************************************************************)
EXTENDS Integers, Sequences

CONSTANTS
  Keywords,     \* texts to search for
  Empty,        \* the empty text
  maxRequests,  \* bound: outstanding requests per keyword
  maxBlocks     \* bound: blocks waiting on the main queue

ASSUME EmptyAssumption == Empty \notin Keywords
ASSUME Bounds == maxRequests \in Nat /\ maxBlocks \in Nat

Texts == Keywords \cup {Empty}
List(k, songs) == [of |-> k, songs |-> songs]
Lists == [of : Texts, songs : BOOLEAN]

VARIABLES
  text,       \* searchBar.text
  timer,      \* a delayed performSearch is scheduled
  searches,   \* outstanding /search requests, per keyword
  details,    \* outstanding /song/detail requests, per keyword searched
  mainQueue,  \* dispatched blocks: a list and the hops it has left
  results,    \* the list the table shows
  astray      \* history: since the last search was made or the bar cleared, the
              \* last list applied was another keyword's, or the text's search failed

requests == <<searches, details>>
searchVars == <<text, timer, requests, mainQueue, results, astray>>

(* The type of the page's state. *)
SearchTypeOK ==
  /\ text \in Texts /\ timer \in BOOLEAN
  /\ searches \in [Texts -> Nat] /\ details \in [Texts -> Nat]
  /\ mainQueue \in Seq([list : Lists, hops : 1 .. 2])
  /\ results \in Lists /\ astray \in BOOLEAN

SearchInit ==
  /\ text = Empty /\ timer = FALSE
  /\ searches = [k \in Texts |-> 0] /\ details = [k \in Texts |-> 0]
  /\ mainQueue = << >>
  /\ results = List(Empty, FALSE) /\ astray = FALSE

DispatchAgain(queue, list, hops) == Append(queue, [list |-> list, hops |-> 2])
dispatch(queue, list, hops) == Append(queue, [list |-> list, hops |-> hops])

-----------------------------------------------------------------------------
(* The search bar *)

ClearKeepsResults ==
  /\ text' = Empty /\ astray' = FALSE
  /\ UNCHANGED <<timer, requests, mainQueue, results>>
(* Cleared: the table is emptied; a scheduled performSearch is not         *)
(* cancelled.                                                              *)
ClearText ==
  /\ text' = Empty
  /\ results' = List(Empty, FALSE) /\ astray' = FALSE
  /\ UNCHANGED <<timer, requests, mainQueue>>

(* Edited: a scheduled performSearch is cancelled and scheduled anew, in   *)
(* 0.5 s.  `timer' stays TRUE; that edits put the call off is in the       *)
(* fairness of SearchSpec.                                                 *)
TypeText(k) ==
  /\ text' = k /\ timer' = TRUE
  /\ UNCHANGED <<requests, mainQueue, results, astray>>

updateSearchResults == ClearText \/ \E k \in Keywords : TypeText(k)

(* The timer: a search for the text of this moment.  An empty text gets an *)
(* empty list at once, and is searched for as well.                        *)
performSearch ==
  /\ timer /\ timer' = FALSE
  /\ searches[text] < maxRequests /\ Len(mainQueue) < maxBlocks
  /\ mainQueue' = IF text = Empty THEN dispatch(mainQueue, List(Empty, FALSE), 1)
                                  ELSE mainQueue
  /\ searches' = [searches EXCEPT ![text] = @ + 1]
  /\ astray' = FALSE
  /\ UNCHANGED <<text, details, results>>

-----------------------------------------------------------------------------
(* Answers to /search *)

FailsUnasked(k) ==
  /\ searches' = [searches EXCEPT ![k] = @ - 1]
  /\ astray' = (astray \/ k = text)
  /\ UNCHANGED <<text, timer, details, mainQueue, results>>
SearchFails(k) ==
  /\ searches[k] > 0 /\ searches' = [searches EXCEPT ![k] = @ - 1]
  /\ astray' = (astray \/ k = text)
  /\ UNCHANGED <<text, timer, details, mainQueue, results>>

SearchFindsNothing(k) ==
  /\ searches[k] > 0 /\ searches' = [searches EXCEPT ![k] = @ - 1]
  /\ Len(mainQueue) < maxBlocks
  /\ mainQueue' = dispatch(mainQueue, List(k, FALSE), 1)
  /\ UNCHANGED <<text, timer, details, results, astray>>

SearchFindsSongs(k) ==
  /\ searches[k] > 0 /\ searches' = [searches EXCEPT ![k] = @ - 1]
  /\ details[k] < maxRequests
  /\ details' = [details EXCEPT ![k] = @ + 1]
  /\ UNCHANGED <<text, timer, mainQueue, results, astray>>

(* /song/detail, which adds pictures: an error adds none and the list is   *)
(* passed on all the same.                                                 *)
fentchDetailsEnds(k) ==
  /\ details[k] > 0 /\ details' = [details EXCEPT ![k] = @ - 1]
  /\ Len(mainQueue) < maxBlocks
  /\ mainQueue' = dispatch(mainQueue, List(k, TRUE), 2)
  /\ UNCHANGED <<text, timer, searches, results, astray>>

-----------------------------------------------------------------------------
(* The first block of the main queue passes its list to the page's         *)
(* completion, which dispatches it again; the page's block shows it.       *)
RunBlock ==
  /\ mainQueue # << >>
  /\ LET b == Head(mainQueue)
     IN  \/ /\ b.hops = 2
            /\ mainQueue' = dispatch(Tail(mainQueue), b.list, 1)
            /\ UNCHANGED <<results, astray>>
         \/ /\ b.hops = 1
            /\ mainQueue' = Tail(mainQueue)
            /\ results' = b.list
            /\ astray' = (b.list.of # text)
  /\ UNCHANGED <<text, timer, requests>>

-----------------------------------------------------------------------------
Answer(k) ==
  SearchFails(k) \/ SearchFindsNothing(k) \/ SearchFindsSongs(k) \/ fentchDetailsEnds(k)

SearchNext == updateSearchResults \/ performSearch \/ RunBlock \/ \E k \in Texts : Answer(k)

(* From some point on no edit reaches the page.  (An update that finds the *)
(* same text and the timer running is no step here: that these end as well *)
(* is part of the assumption.)                                             *)
StopsEditing == <>[][~updateSearchResults]_searchVars

(* Fairness: requests end within AFNetworking's 15 s timeout, the main     *)
(* queue is served.  The timer fires if the user stops editing: edits less *)
(* than 0.5 s apart put performSearch off for as long as they go on.       *)
SearchSpec ==
  /\ SearchInit /\ [][SearchNext]_searchVars
  /\ StopsEditing => WF_searchVars(performSearch)
  /\ WF_searchVars(RunBlock)
  /\ \A k \in Texts : WF_searchVars(SearchFails(k) \/ SearchFindsNothing(k) \/ SearchFindsSongs(k))
  /\ \A k \in Texts : WF_searchVars(fentchDetailsEnds(k))

-----------------------------------------------------------------------------
(* Properties *)

Quiet ==
  /\ ~timer /\ mainQueue = << >>
  /\ \A k \in Texts : searches[k] = 0 /\ details[k] = 0

(* With nothing under way the table belongs to the text in the bar, unless *)
(* a late answer to another search was shown last or the search failed:    *)
(* no order of edits, clears, timers and answers is another way there.     *)
SettledResultsMatch == Quiet /\ ~astray => results.of = text

(* Once the user has stopped, everything under way ends, and the table     *)
(* stays on the list of the text in the bar unless its search failed or a  *)
(* late answer was shown last: no answer gets lost between the timer, the  *)
(* two requests and the blocks.  A cleared bar gets its list too.          *)
TextIsSearched ==
  StopsEditing =>
    \A k \in Texts : <>[](text = k) => <>[](Quiet /\ (results.of = k \/ astray))
=============================================================================
