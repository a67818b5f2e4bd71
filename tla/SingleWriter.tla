---------------------------- MODULE SingleWriter ----------------------------
(***************************************************************************)
(* What the lock promises of the transactions it guards: each process is   *)
(* made the writer at most once, and only the present writer writes.       *)
(***************************************************************************)
CONSTANTS Procs, None

VARIABLES
  writer,  \* the process that may write
  past,    \* processes that were made the writer, or never will be
  log      \* the process that wrote last

vars == <<writer, past, log>>

Init == writer = None /\ past = {} /\ log = None

Grant(p) ==
  /\ p \notin past
  /\ writer' = p /\ past' = past \cup {p}
  /\ UNCHANGED log

Forgo(p) ==
  /\ p \notin past
  /\ past' = past \cup {p}
  /\ UNCHANGED <<writer, log>>

Resign ==
  /\ writer' = None
  /\ UNCHANGED <<past, log>>

Write ==
  /\ writer # None
  /\ log' = writer
  /\ UNCHANGED <<writer, past>>

Next == Resign \/ Write \/ \E p \in Procs : Grant(p) \/ Forgo(p)

Spec == Init /\ [][Next]_vars
=============================================================================
