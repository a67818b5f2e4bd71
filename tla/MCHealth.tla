------------------------------ MODULE MCHealth ------------------------------
(* Two command slots, one on the check's host, and two endpoints.          *)
EXTENDS Health, TLC

CONSTANTS p1, p2, here, there

MCProcs == {p1, p2}
MCHosts == {here, there}
MCHostOf == (p1 :> here) @@ (p2 :> there)
MCEndpoints == 1..2
MCRequests == {{}, {1, 2}}
=============================================================================
