---------------------------- MODULE MCMusicCache ----------------------------
(* Three songs of different sizes, any two of the larger ones too much.    *)
EXTENDS MusicCache

CONSTANTS s1, s2, s3

MCSongIDs == {s1, s2, s3}
MCSize == [s \in MCSongIDs |-> CASE s = s1 -> 1 [] s = s2 -> 2 [] OTHER -> 2]
=============================================================================
