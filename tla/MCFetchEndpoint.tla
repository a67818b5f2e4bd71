-------------------------- MODULE MCFetchEndpoint --------------------------
(* FetchEndpoint on a few records, one per page, so that every change made *)
(* while a window is open falls between two pages of it.                   *)
EXTENDS FetchEndpoint

MCIds == 1..3
MCRunIds == 1..5
MCTwoIds == 1..2
MCFourRunIds == 1..4
MCSynced == {"synced"}
MCEmpty == {"empty"}
MCBoth == {"synced", "empty"}
=============================================================================
