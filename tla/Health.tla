------------------------------- MODULE Health -------------------------------
(***************************************************************************)
(* The health check (src/centric_api/maintenance.py, collect_health) while *)
(* the commands of Runs go on: it reads the latest fetch, the lock and the *)
(* endpoints in three SELECTs of an autocommit connection, and compares    *)
(* the heartbeat with the time at which it began.                          *)
(***************************************************************************)
EXTENDS Runs, Sequences

CONSTANTS
  CheckHost    \* the host the check runs on

ASSUME CheckHostAssumption == CheckHost \in Hosts
ASSUME NoVerdictAssumption == None \notin {"dead", "bad", "fine"}

VARIABLES
  read,    \* how many of Order the check has read
  saw,     \* the latest fetch and how the lock looked, until both are known
  verdict, \* what it made of them
  aged,    \* the lock became stale after the check began
  \* history
  steady,  \* the fetch it saw running has been running, with its lock, ever since
  doomed   \* a fetch had died when the check began, and none has taken the lock since

healthVars == <<read, saw, verdict, aged, steady, doomed>>
allVars == <<vars, healthVars>>

(* Mutant of Order: the lock is read before the latest fetch.              *)
LockFirst == <<"lock", "runs">>

(* The endpoints are read last, in Report.                                 *)
Order == <<"runs", "lock">>

-----------------------------------------------------------------------------
(* Mutant of LockAlive: the heartbeat alone tells.                         *)
HeartbeatAlive == lock.fresh \/ aged

(* The heartbeat is recent and its process not known to be dead.           *)
LockAlive == (lock.fresh \/ aged) /\ ~DeadLocal(CheckHost, lock.owner)

LockLook == IF lock = None THEN "none" ELSE IF LockAlive THEN "alive" ELSE "abandoned"

(* Mutant of FetchLook: a run that failed is looked for, a partial one is  *)
(* not.                                                                    *)
FetchFailed == IF last = None \/ last.status = "failed" THEN "bad" ELSE last.status

FetchLook == IF last = None \/ last.status \in {"partial", "failed"} THEN "bad" ELSE last.status

Unseen == [fetch |-> None, lock |-> None]

(* What the first two SELECTs make of it: a fetch that never finished or   *)
(* an abandoned lock, a fetch that went wrong, or neither.                 *)
Verdict(seen) ==
  IF seen.lock = "abandoned" \/ (seen.fetch = "running" /\ seen.lock # "alive") THEN "dead"
  ELSE IF seen.fetch = "bad" THEN "bad" ELSE "fine"

(* Never fetched, or the last attempt failed.                              *)
Trouble == {e \in Endpoints : e \notin success \/ attempt[e] = "failed"}

(* Some process is at the lock, or could be for all this host can tell.    *)
Held == lock # None /\ (Live(lock.owner) \/ (lock.fresh /\ HostOf[lock.owner] # CheckHost))

(* The latest fetch runs and has its lock, which is not stale.             *)
Running == /\ last # None /\ last.run # None
           /\ Owns(last.run) /\ Live(last.run) /\ lock.fresh

DeadFetch == /\ last # None /\ last.status = "running"
             /\ last.run = None \/ ~Live(last.run)
             /\ ~Held

Select ==
  LET runs == Order[read + 1] = "runs"
      seen == IF runs THEN [saw EXCEPT !.fetch = FetchLook] ELSE [saw EXCEPT !.lock = LockLook]
  IN  /\ read < Len(Order)
      /\ read' = read + 1
      /\ IF read' = Len(Order) THEN saw' = Unseen /\ verdict' = Verdict(seen)
                               ELSE saw' = seen /\ UNCHANGED verdict
      /\ steady' = IF runs THEN Running ELSE steady
      /\ doomed' = IF read = 0 THEN DeadFetch ELSE doomed
      /\ aged' = FALSE
      /\ UNCHANGED vars

(* The endpoints are read, the problems printed.                           *)
Report ==
  /\ read = Len(Order)
  /\ read' = 0 /\ verdict' = None
  /\ steady' = FALSE /\ doomed' = FALSE
  /\ UNCHANGED <<saw, aged, vars>>

(* What a command's step is to the check under way.                        *)
Watched ==
  /\ aged' = (aged \/ (0 < read /\ read < Len(Order) /\ lock # None /\ lock.fresh
                       /\ lock' # None /\ ~lock'.fresh))
  /\ steady' = (steady /\ lock' # None /\ lock'.owner = lock.owner
                       /\ pc'[lock.owner] # "done")
  /\ doomed' = (doomed /\ (lock' # None => lock # None /\ lock'.owner = lock.owner))
  /\ UNCHANGED <<read, saw, verdict>>

HealthInit == /\ Init
              /\ read = 0 /\ saw = Unseen /\ verdict = None /\ aged = FALSE
              /\ steady = FALSE /\ doomed = FALSE

HealthNext == (Command /\ Watched) \/ Select \/ Report

HealthSpec == HealthInit /\ [][HealthNext]_allVars

HealthFairSpec ==
  /\ HealthSpec
  /\ WF_allVars(Scheduled /\ Watched)
  /\ \A p \in Procs : WF_allVars(Run(p) /\ Watched)
  /\ WF_allVars(Age /\ ~Live(lock.owner) /\ Watched)

-----------------------------------------------------------------------------
(* Properties *)

HealthTypeOK ==
  /\ TypeOK
  /\ read \in 0 .. Len(Order)
  /\ saw \in [fetch : {None, "running", "ok", "bad"}, lock : {None, "none", "alive", "abandoned"}]
  /\ verdict \in {None, "dead", "bad", "fine"}
  /\ aged \in BOOLEAN /\ steady \in BOOLEAN /\ doomed \in BOOLEAN

(* "One in progress is fine while its lock is alive" (README.md): a fetch  *)
(* that has been running with its lock since the check read its row is not *)
(* reported, whatever other commands do between the three SELECTs and even *)
(* if its heartbeat gets too old meanwhile.                                *)
RunningNotReported ==
  steady => verdict # "dead"

(* A fetch that died, killed or interrupted in its clean-up, is reported   *)
(* by every check that begins before another command takes the lock; but   *)
(* for one of another host, of which only its heartbeat tells, until the   *)
(* heartbeat is LOCK_STALE_AFTER old (Held).                               *)
DeadFetchReported ==
  doomed /\ verdict # None => verdict = "dead"

(* A check of the rows as they are would find nothing.                     *)
BooksHealthy ==
  /\ lock # None => lock.fresh /\ ~DeadLocal(CheckHost, lock.owner)
  /\ last # None
  /\ last.status = "running" => lock # None
  /\ last.status \notin {"partial", "failed"}
  /\ Trouble = {}

(* Once nothing fails any more, scheduled fetches clear everything that    *)
(* kills, signals, failures and lost locks have left behind.               *)
EventuallyHealthy == <>[]BooksHealthy
=============================================================================
