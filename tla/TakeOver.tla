------------------------------ MODULE TakeOver ------------------------------
(***************************************************************************)
(* The fetch of an endpoint by a run that took the lock over while its     *)
(* former owner still lives: the owner went 15 minutes without a heartbeat *)
(* (it waited for retries, or its host slept) and goes on until its next   *)
(* heartbeat raises LockError.  RunLock shows that such a run still writes *)
(* what carries no heartbeat; here is what those writes do to the window,  *)
(* the cursor and the records of the run that holds the lock.              *)
(*                                                                         *)
(* The run of FetchEndpoint holds the lock.  All the deposed one still     *)
(* writes of what the holder reads is the pending window, so all that is   *)
(* kept of it is that window and the page it compares the next one with.   *)
(* Its request is answered, and its window saved or dropped, after any     *)
(* time in which the holder and Centric go on.                             *)
(***************************************************************************)
EXTENDS FetchEndpoint

VARIABLES
  deposed,  \* no run yet ("none"), or it is "opening" a window, "reading" a page of it,
            \* "saving" it before a later pass, "dropping" it, or "gone"
  dwindow,  \* its window
  dprev     \* the last page it has read

deposedVars == <<deposed, dwindow, dprev>>

BornBy(w) == {v.run : v \in {w} \ {None}}

-----------------------------------------------------------------------------
Again(w) == [w EXCEPT !.pass = @ + 1, !.skip = 0, !.fetched = 0]

(* The run under way goes stale and another takes the lock.  At any other  *)
(* point, all it does begins with a heartbeat, which raises LockError:     *)
(* that is Stop.                                                           *)
Depose ==
  /\ deposed = "none"
  /\ \/ /\ pc = "save" \/ (pc = "count" /\ window.pass > 1)
        /\ deposed' = "saving" /\ dwindow' = window /\ dprev' = EmptyPage
     \/ /\ pc = "read" \/ (pc = "count" /\ window.pass = 1)
        /\ deposed' = "reading" /\ dwindow' = window /\ dprev' = pass.prev
     \/ /\ pc = "reject"
        /\ deposed' = "dropping" /\ dwindow' = None /\ dprev' = EmptyPage
  /\ pc' = "idle"
  /\ window' = None /\ req' = NoReq /\ pass' = NoPass /\ check' = NoCheck
  /\ gone' = {}
  /\ UNCHANGED <<centricVars, now, dbVars, shifts, quiet, stops, stepBacks>>

(* A run bears a new id, also among those of the runs alive.               *)
UnusedBy(w) ==
  LET free == RunIds \ (Used \cup BornBy(w))
  IN  {r \in free : \A q \in free : r <= q}

(* A run deposed at an earlier endpoint, whose fetch failed before any     *)
(* heartbeat, comes to this one and reads its state: the transaction that  *)
(* saves the window it opens is another.                                   *)
Arrive(full, restart) ==
  /\ deposed = "none"
  /\ deposed' = "opening" /\ dprev' = EmptyPage
  /\ \E run \in UnusedBy(window) :
       /\ dwindow' = Opened(run, full, restart)
       /\ quiet' = IF Resumes(full, restart) THEN quiet ELSE quiet \cup {run}
  /\ UNCHANGED <<centricVars, now, dbVars, procVars, gone, shifts, stops, stepBacks>>

(* Its request for a page is answered.  An empty page ends the pass, and   *)
(* another may be called for: what the count and the records say of it is  *)
(* left open.  A page that came before raises IntegrityError; any other is *)
(* stored under a heartbeat, which raises LockError: that is Depart.       *)
Answer ==
  LET page == Page(dwindow)
  IN  /\ deposed = "reading"
      /\ \/ /\ DOMAIN page = {} /\ dwindow.pass < MaxPasses
            /\ deposed' = "saving" /\ dwindow' = Again(dwindow)
         \/ /\ DOMAIN page # {} /\ SameIds(page, dprev)
            /\ deposed' = "dropping" /\ dwindow' = None
      /\ dprev' = EmptyPage
      /\ UNCHANGED vars

(* A transaction without a heartbeat: a window just opened, counted before *)
(* its first page is read, and saved once more if that is a later pass's.  *)
SaveWindow ==
  /\ deposed \in {"opening", "saving"}
  /\ pending' = dwindow
  /\ deposed' = IF deposed = "opening" /\ dwindow.pass > 1 THEN "saving" ELSE "reading"
  /\ UNCHANGED <<centricVars, now, bronze, cursor, procVars, histVars, dwindow, dprev>>

(* The IntegrityError of a page that came twice, or of too many.           *)
DropWindow ==
  /\ deposed = "dropping"
  /\ deposed' = "gone"
  /\ pending' = None
  /\ UNCHANGED <<centricVars, now, bronze, cursor, procVars, histVars, dwindow, dprev>>

(* It is stopped, or its heartbeat fails, before it writes.                *)
Depart ==
  /\ deposed \in {"opening", "reading", "saving", "dropping"}
  /\ deposed' = "gone" /\ dwindow' = None /\ dprev' = EmptyPage
  /\ UNCHANGED vars

-----------------------------------------------------------------------------
Deposed == \/ Depose \/ \E full, restart \in BOOLEAN : Arrive(full, restart)
           \/ Answer \/ SaveWindow \/ DropWindow \/ Depart

HolderStart ==
  \E full, restart, allow \in BOOLEAN, run \in UnusedBy(dwindow) :
    /\ Open(run, full, restart, allow)
    /\ quiet' = IF Resumes(full, restart) THEN quiet
                ELSE {run} \cup (quiet \cap BornBy(dwindow))

Holder == HolderStart \/ Process \/ Stop \/ Centric \/ Tick \/ StepBack

TakeOverInit == Init /\ deposed = "none" /\ dwindow = None /\ dprev = EmptyPage

TakeOverNext == Deposed \/ (Holder /\ UNCHANGED deposedVars)

TakeOverSpec == TakeOverInit /\ [][TakeOverNext]_<<vars, deposedVars>>

-----------------------------------------------------------------------------
(* Every variable keeps its type, and a run that reads or is about to save *)
(* has a window.                                                           *)
TakeOverTypeOK ==
  /\ TypeOK
  /\ deposed \in {"none", "opening", "reading", "saving", "dropping", "gone"}
  /\ dwindow \in Window \cup {None} /\ IsPage(dprev, Ids)
  /\ deposed \in {"opening", "reading", "saving"} <=> dwindow # None
=============================================================================
