---------------------------- MODULE MCUpdateFeeds ----------------------------
(* Instances of UpdateFeeds for TLC.                                       *)
EXTENDS UpdateFeeds, TLC

\* Two releases, shipped and rolled back.
Releases == {[tag |-> v, version |-> v, readable |-> TRUE] : v \in 1..2}

\* An apply names no feed, for all of them.
All == {<<>>}

=============================================================================
