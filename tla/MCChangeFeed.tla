---------------------------- MODULE MCChangeFeed ----------------------------
(* Two endpoints with two records each, and versions that are older, newer *)
(* and of the same time as one another.                                    *)
EXTENDS ChangeFeed, TLC

CONSTANTS e1, e2, r1, r2

MCEndpoints == {e1, e2}
MCIds == {r1, r2}
MCRunIds == {1}
MCVersions == {[mod |-> 1, rev |-> 1], [mod |-> 2, rev |-> 2], [mod |-> 2, rev |-> 3]}
MCReader == <<"changes", "records", "seq">>
MCCommand == <<"changes", "seq", "records">>
MCReaderOnly == {MCReader}
MCBoth == {MCReader, MCCommand}
MCSymmetry == Permutations({e1, e2}) \cup Permutations({r1, r2})
=============================================================================
