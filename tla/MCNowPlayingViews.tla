------------------------- MODULE MCNowPlayingViews -------------------------
(* One list of two objects, which are two fetches of the same song.        *)
EXTENDS NowPlayingViews

CONSTANTS m1, m2, s1

MCModels == {m1, m2}
MCSongIDs == {s1}
MCsongID == [m \in MCModels |-> s1]
MCLists == {<<m1, m2>>}
=============================================================================
