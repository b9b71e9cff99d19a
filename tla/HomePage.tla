------------------------------ MODULE HomePage ------------------------------
(***************************************************************************)
(* VCHomePage: one answer of /personalized is cut into a grid of six       *)
(* albums and four rows of six.  An album is its index in the answer; a    *)
(* slice is its first index and its length.  The table asks for its rows,  *)
(* and each row's collection view for its items, as they scroll into view. *)
(***************************************************************************)
EXTENDS Integers

CONSTANTS
  Counts,    \* the numbers of albums an answer may hold
  Nil        \* nil

VARIABLES
  fetching,   \* the request is outstanding
  allModels,  \* the number of albums kept, or Nil
  girdData,   \* the grid's slice, empty at first
  grid,       \* the slice the grid's cell was given, or Nil
  albums,     \* the slice each row's cell was given, or Nil
  displayed,  \* the album a row or the grid last configured an item with
  crashed     \* an index was out of bounds

vars == <<fetching, allModels, girdData, grid, albums, displayed, crashed>>

Rows == 1 .. 4
Slice(from, len) == [from |-> from, len |-> len]
Smaller(a, b) == IF a < b THEN a ELSE b

Init ==
  /\ fetching = TRUE /\ allModels = Nil /\ girdData = Slice(0, 0)
  /\ grid = Nil /\ albums = [r \in Rows |-> Nil]
  /\ displayed = Nil /\ crashed = FALSE

(* fetchData's completion: an error or an empty answer changes nothing.    *)
AnswerFails == fetching /\ fetching' = FALSE
               /\ UNCHANGED <<allModels, girdData, grid, albums, displayed, crashed>>

AnswerArrives ==
  /\ fetching /\ fetching' = FALSE
  /\ \E n \in Counts \ {0} :
       /\ allModels' = n
       /\ girdData' = IF n >= 6 THEN Slice(0, 6) ELSE Slice(0, n)
  /\ UNCHANGED <<grid, albums, displayed, crashed>>

safeSubarrayFrom(count, from, len) ==
  IF from >= count THEN Slice(from, 0) ELSE Slice(from, Smaller(len, count - from))

cellForGrid ==
  /\ ~crashed /\ grid' = girdData
  /\ UNCHANGED <<fetching, allModels, girdData, albums, displayed, crashed>>

(* Without data the cell is returned as it is.                             *)
cellForRow(r) ==
  /\ ~crashed /\ allModels # Nil
  /\ albums' = [albums EXCEPT ![r] = safeSubarrayFrom(allModels, 6 * r, 6)]
  /\ UNCHANGED <<fetching, allModels, girdData, grid, displayed, crashed>>

(* A row's collection view always has six items; nil[item] is nil.         *)
cellForItem(r, item) ==
  /\ ~crashed /\ albums[r] # Nil
  /\ IF item < albums[r].len
     THEN displayed' = albums[r].from + item /\ UNCHANGED crashed
     ELSE crashed' = TRUE /\ UNCHANGED displayed
  /\ UNCHANGED <<fetching, allModels, girdData, grid, albums>>

(* The grid has MIN(count, 6).                                             *)
cellForGridItem(item) ==
  /\ ~crashed /\ grid # Nil /\ item < Smaller(grid.len, 6)
  /\ displayed' = grid.from + item
  /\ UNCHANGED <<fetching, allModels, girdData, grid, albums, crashed>>

Next ==
  \/ AnswerFails \/ AnswerArrives \/ cellForGrid
  \/ \E r \in Rows : cellForRow(r)
  \/ \E r \in Rows, item \in 0 .. 5 : cellForItem(r, item)
  \/ \E item \in 0 .. 5 : cellForGridItem(item)

Spec == Init /\ [][Next]_vars

-----------------------------------------------------------------------------
(* Configured slices of the grid and the rows hold different albums, all   *)
(* of them albums of the answer, for every number of albums.               *)
SlicesDisjoint ==
  LET S == [k \in 0 .. 4 |-> IF k = 0 THEN grid ELSE albums[k]]
      Holds(k, i) == S[k] # Nil /\ S[k].from <= i /\ i < S[k].from + S[k].len
  IN \A k \in 0 .. 4 : \A i \in 0 .. 35 :
       Holds(k, i) => i < allModels /\ \A j \in 0 .. 4 \ {k} : ~Holds(j, i)

(* An answer of the 30 albums asked for, or of none, never takes an item   *)
(* out of bounds.                                                          *)
FullAnswerSafe == (allModels = Nil \/ allModels >= 30) => ~crashed

(* What the comments say of the page: no array index is out of bounds.     *)
NoIndexOutOfBounds == ~crashed
=============================================================================
