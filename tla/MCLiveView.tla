----------------------------- MODULE MCLiveView -----------------------------
(***************************************************************************)
(* Two boards with a post each, a comment on the first post, and a page    *)
(* without a list.                                                         *)
(***************************************************************************)
EXTENDS LiveView

MCPlaces == {"hub", "a", "b", "thread", "mod", "settings"}
MCKindOf == [p \in MCPlaces |-> IF p \in {"a", "b"} THEN "board" ELSE p]
MCLists == [p \in MCPlaces |->
  CASE p = "hub" -> {"post", "other"} [] p = "a" -> {"post"} [] p = "b" -> {"other"}
    [] p = "thread" -> {"comment"} [] p = "mod" -> {"post", "comment"} [] p = "settings" -> {}]
MCNeeds == [p \in MCPlaces |-> IF p = "thread" THEN {"post"} ELSE {}]
MCHeadAtStart == {{"post", "comment"}}
=============================================================================
