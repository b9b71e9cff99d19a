---------------------------- MODULE RequestReply ----------------------------
(***************************************************************************)
(* What the pages rely on when they call GET of SpotifyAPIManager.mm: each *)
(* call's completion runs at most once, on the main thread, with an object *)
(* or an error, and the calls' completions run in any order.  The other    *)
(* modules model the requests of a page this way.                          *)
(***************************************************************************)
EXTENDS Naturals, Sequences

CONSTANT Requests

VARIABLES
  asked,    \* the calls of GET made so far
  replies   \* what each call's completion was given, in order

replyVars == <<asked, replies>>

ReplyInit == asked = {} /\ replies = [r \in Requests |-> << >>]

Ask(r) ==
  /\ r \notin asked /\ asked' = asked \cup {r}
  /\ UNCHANGED replies

Reply(r) ==
  /\ r \in asked /\ replies[r] = << >>
  /\ \E outcome \in {"object", "error"} : replies' = [replies EXCEPT ![r] = <<outcome>>]
  /\ UNCHANGED asked

ReplyNext == \E r \in Requests : Ask(r) \/ Reply(r)

ReplySpec == ReplyInit /\ [][ReplyNext]_replyVars
=============================================================================
