--------------------------- MODULE PlaylistCursor ---------------------------
(***************************************************************************)
(* What the player promises of its play queue: a cursor on a list that     *)
(* Load places on any row, and that Next and Previous move one row at a    *)
(* time, cyclically.  Every move, and nothing else, records the song it    *)
(* arrives at as the one played last.                                      *)
(***************************************************************************)
EXTENDS Integers, Sequences

CONSTANTS Lists,   \* the non-empty lists of songs the pages show
          songID,  \* the ID a song is recorded under
          NoList   \* no list has been chosen, no song played yet

VARIABLES list, pos,
          last,    \* the song recorded last
          played   \* all songs recorded

vars == <<list, pos, last, played>>

Init == list = NoList /\ pos = 0 /\ last = NoList /\ played = {}

Arrive(m) == last' = songID[m] /\ played' = played \cup {songID[m]}

Load == \E l \in Lists : \E i \in 0 .. Len(l) - 1 :
          list' = l /\ pos' = i /\ Arrive(l[i + 1])

Next == /\ list \in Lists
        /\ pos' = IF pos = Len(list) - 1 THEN 0 ELSE pos + 1
        /\ Arrive(list[pos' + 1])
        /\ UNCHANGED list

Previous == /\ list \in Lists
            /\ pos' = IF pos = 0 THEN Len(list) - 1 ELSE pos - 1
            /\ Arrive(list[pos' + 1])
            /\ UNCHANGED list

Spec == Init /\ [][Load \/ Next \/ Previous]_vars
=============================================================================
