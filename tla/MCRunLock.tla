----------------------------- MODULE MCRunLock -----------------------------
(* Two runs on one host and one on another whose clock is ahead or not. A  *)
(* unit is the five minutes of the longest Retry-After: StaleAfter is 3.   *)
EXTENDS RunLock, TLC

CONSTANTS p1, p2, p3, here, there

MCProcs == {p1, p2, p3}
MCHosts == {here, there}
MCHostOf == (p1 :> here) @@ (p2 :> here) @@ (p3 :> there)
MCPids == {1, 2}
MCNoSkew == [h \in MCHosts |-> 0]
MCSkew == (here :> 0) @@ (there :> 1)
MCSymmetry == Permutations({p1, p2})
=============================================================================
