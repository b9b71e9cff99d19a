------------------------ MODULE MCMusicPlayerManager ------------------------
(* Two songs, three objects: m1 and m3 are two fetches of song s1.  A list *)
(* of three rows and one of a single row.                                  *)
EXTENDS MusicPlayerManager

CONSTANTS m1, m2, m3, s1, s2

MCModels == {m1, m2, m3}
MCSongIDs == {s1, s2}
MCsongID == [m \in MCModels |-> IF m = m2 THEN s2 ELSE s1]
MCLists == {<<m1, m2, m3>>, <<m2>>}
=============================================================================
