----------------------------- MODULE MCTakeOver -----------------------------
(* TakeOver on two records, one per page, of which one changes.            *)
EXTENDS TakeOver

MCTwoIds == 1..2
MCFiveRunIds == 1..5
MCSynced == {"synced"}
=============================================================================
