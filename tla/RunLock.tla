------------------------------ MODULE RunLock ------------------------------
(***************************************************************************)
(* The single-writer lock of centric-api (RunLock in db.py) and the runs   *)
(* that take it: processes on several hosts that start, ask Centric with   *)
(* the client's retries, write to the database, leave or crash.            *)
(*                                                                         *)
(* Nothing in the code bounds the time a live run goes without refreshing  *)
(* the lock.  overdue records that some run went longer than MaxGap: what  *)
(* the lock promises while no run does is stated with ~overdue, and a run  *)
(* of TLC shows what the client's retries alone can make of it.            *)
(***************************************************************************)
EXTENDS Integers, FiniteSets

CONSTANTS
  Procs,          \* the processes, each one run with an owner string of its own
  Hosts, HostOf,  \* the host each runs on
  Pids,           \* process ids of a host: one is used again once its process is gone
  Skew,           \* how far each host's clock is ahead
  StaleAfter,     \* LOCK_STALE_AFTER
  MaxAttempts,    \* retry_max_attempts
  MaxDelay,       \* longest wait before a retry: the cap on Retry-After
  MaxGap,         \* a live run without a heartbeat for longer is overdue
  Prompt,         \* a run does nothing that takes time but wait for a retry
  MaxTime,        \* bound of the runs
  None

ASSUME HostsAssumption == HostOf \in [Procs -> Hosts] /\ Skew \in [Hosts -> Int]
ASSUME TimesAssumption == {StaleAfter, MaxDelay, MaxGap, MaxTime} \subseteq Nat
ASSUME PromptAssumption == Prompt \in BOOLEAN
ASSUME AttemptsAssumption == MaxAttempts \in Nat \ {0}
ASSUME NoneAssumption == None \notin Procs /\ None \notin [owner : Procs, beat : Int]

VARIABLES
  now,     \* true time
  lock,    \* the row of meta_lock
  pc,      \* what each process is doing
  pid,     \* its process id
  since,   \* its clock when it last read it for the lock: acquire's now, or a heartbeat
  tries,   \* attempts made of the request it is on
  wait,    \* time left before it tries again
  fenced,  \* owner of the last write made in the transaction of a heartbeat
  plain,   \* owner of the last write to shared rows made without one
  overdue  \* history: some live run has been overdue

vars == <<now, lock, pc, pid, since, tries, wait, fenced, plain, overdue>>

Clock(p) == now + Skew[HostOf[p]]

Live(p) == pc[p] \notin {"new", "dead", "done"}
Holding(p) == pc[p] \in {"request", "store", "release"}

(* Mutant of DeadLocal: the pid is looked for here, wherever the owner ran. *)
DeadHere(p, owner) ==
  ~ \E q \in Procs : Live(q) /\ HostOf[q] = HostOf[p] /\ pid[q] = pid[owner]

(* The owner ran on this host and no process there has its pid.            *)
DeadLocal(p, owner) ==
  /\ HostOf[owner] = HostOf[p]
  /\ ~ \E q \in Procs : Live(q) /\ HostOf[q] = HostOf[owner] /\ pid[q] = pid[owner]

Fresh(p) == since[p] - lock.beat < StaleAfter

-----------------------------------------------------------------------------
Init ==
  /\ now = 0
  /\ lock = None
  /\ pc = [p \in Procs |-> "new"]
  /\ pid = [p \in Procs |-> None]
  /\ since = [p \in Procs |-> 0] /\ tries = [p \in Procs |-> 0] /\ wait = [p \in Procs |-> 0]
  /\ fenced = None /\ plain = None
  /\ overdue = FALSE

(* What an ended run had in memory is gone.                                *)
Forget(p) ==
  /\ since' = [since EXCEPT ![p] = 0]
  /\ tries' = [tries EXCEPT ![p] = 0]
  /\ wait'  = [wait EXCEPT ![p] = 0]

(* A command starts under a free pid and acquire reads the clock.          *)
Start(p) ==
  /\ pc[p] = "new"
  /\ \E id \in Pids :
       /\ ~ \E q \in Procs : Live(q) /\ HostOf[q] = HostOf[p] /\ pid[q] = id
       /\ pid' = [pid EXCEPT ![p] = id]
  /\ pc' = [pc EXCEPT ![p] = "acquire"]
  /\ since' = [since EXCEPT ![p] = Clock(p)]
  /\ UNCHANGED <<now, lock, tries, wait, fenced, plain, overdue>>

(* acquire's transaction: refused while the row is fresh and its owner not *)
(* known to be dead, else the row is replaced.                             *)
Refused(p) ==
  /\ pc[p] = "acquire"
  /\ lock # None /\ Fresh(p) /\ ~DeadLocal(p, lock.owner)
  /\ pc' = [pc EXCEPT ![p] = "done"]
  /\ Forget(p)
  /\ UNCHANGED <<now, lock, pid, fenced, plain, overdue>>

Acquire(p) ==
  /\ pc[p] = "acquire"
  /\ lock # None => ~Fresh(p) \/ DeadLocal(p, lock.owner)
  /\ lock' = [owner |-> p, beat |-> since[p]]
  /\ pc' = [pc EXCEPT ![p] = "request"]
  /\ UNCHANGED <<now, pid, since, tries, wait, fenced, plain, overdue>>

-----------------------------------------------------------------------------
(* A request and its retries (_with_retries)                               *)

Sends(p) == pc[p] = "request" /\ wait[p] = 0

Answered(p) ==
  /\ Sends(p)
  /\ pc' = [pc EXCEPT ![p] = "store"]
  /\ tries' = [tries EXCEPT ![p] = 0]
  /\ UNCHANGED <<now, lock, pid, since, wait, fenced, plain, overdue>>

(* An answer that nothing is stored of: the run asks on.                   *)
AnsweredOnly(p) ==
  /\ Sends(p)
  /\ tries[p] > 0
  /\ tries' = [tries EXCEPT ![p] = 0]
  /\ UNCHANGED <<now, lock, pc, pid, since, wait, fenced, plain, overdue>>

(* Mutant of Retry: one attempt more than retry_max_attempts.              *)
RetryOnceMore(p) ==
  /\ Sends(p)
  /\ tries[p] < MaxAttempts
  /\ tries' = [tries EXCEPT ![p] = @ + 1]
  /\ \E delay \in 1..MaxDelay : wait' = [wait EXCEPT ![p] = delay]
  /\ UNCHANGED <<now, lock, pc, pid, since, fenced, plain, overdue>>

Retry(p) ==
  /\ Sends(p)
  /\ tries[p] + 1 < MaxAttempts
  /\ tries' = [tries EXCEPT ![p] = @ + 1]
  /\ \E delay \in 1..MaxDelay : wait' = [wait EXCEPT ![p] = delay]
  /\ UNCHANGED <<now, lock, pc, pid, since, fenced, plain, overdue>>

(* The last attempt fails: the endpoint's failure is recorded, in a        *)
(* transaction without a heartbeat, and the run goes on to the next one.   *)
GiveUp(p) ==
  /\ Sends(p)
  /\ tries[p] + 1 = MaxAttempts
  /\ tries' = [tries EXCEPT ![p] = 0]
  /\ plain' = p
  /\ UNCHANGED <<now, lock, pc, pid, since, wait, fenced, overdue>>

-----------------------------------------------------------------------------
(* Writes *)

(* Mutant of Owns: the heartbeat's UPDATE takes any row.                   *)
AnyRow(p) == lock # None

Owns(p) == lock # None /\ lock.owner = p

(* A page, or the end of a window, in one transaction with a heartbeat.    *)
Commit(p) ==
  /\ pc[p] = "store"
  /\ Owns(p)
  /\ lock' = [lock EXCEPT !.beat = Clock(p)]
  /\ since' = [since EXCEPT ![p] = Clock(p)]
  /\ fenced' = p
  /\ pc' = [pc EXCEPT ![p] = "request"]
  /\ UNCHANGED <<now, pid, tries, wait, plain, overdue>>

(* The heartbeat finds no row of its own: the transaction is rolled back   *)
(* and the run ends.  Its own rows in meta_runs and meta_run_endpoints are *)
(* left out: no other run writes them.                                     *)
LockLost(p) ==
  /\ pc[p] = "store"
  /\ ~Owns(p)
  /\ pc' = [pc EXCEPT ![p] = "release"]
  /\ UNCHANGED <<now, lock, pid, since, tries, wait, fenced, plain, overdue>>

(* A transaction of its own without a heartbeat: the window's position     *)
(* before its first page, the silver tables, the end of an endpoint.       *)
Save(p) ==
  /\ Sends(p)
  /\ tries[p] = 0
  /\ plain' = p
  /\ UNCHANGED <<now, lock, pc, pid, since, tries, wait, fenced, overdue>>

Leave(p) ==
  /\ Sends(p)
  /\ tries[p] = 0
  /\ pc' = [pc EXCEPT ![p] = "release"]
  /\ UNCHANGED <<now, lock, pid, since, tries, wait, fenced, plain, overdue>>

(* Mutant of Release: the row is deleted, whoever's it is.                 *)
ReleaseAny(p) ==
  /\ pc[p] = "release"
  /\ lock' = None
  /\ pc' = [pc EXCEPT ![p] = "done"]
  /\ Forget(p)
  /\ UNCHANGED <<now, pid, fenced, plain, overdue>>

(* release deletes the run's own row only.                                 *)
Release(p) ==
  /\ pc[p] = "release"
  /\ lock' = IF Owns(p) THEN None ELSE lock
  /\ pc' = [pc EXCEPT ![p] = "done"]
  /\ Forget(p)
  /\ UNCHANGED <<now, pid, fenced, plain, overdue>>

Crash(p) ==
  /\ Live(p)
  /\ pc' = [pc EXCEPT ![p] = "dead"]
  /\ Forget(p)
  /\ UNCHANGED <<now, lock, pid, fenced, plain, overdue>>

Tick ==
  /\ now < MaxTime
  /\ Prompt => \A p \in Procs : Live(p) => pc[p] = "request" /\ wait[p] > 0
  /\ now' = now + 1
  /\ overdue' = (overdue \/ \E p \in Procs : Live(p) /\ Clock(p) + 1 - since[p] > MaxGap)
  /\ wait' = [p \in Procs |-> IF wait[p] > 0 THEN wait[p] - 1 ELSE 0]
  /\ UNCHANGED <<lock, pc, pid, since, tries, fenced, plain>>

Step(p) == \/ Start(p) \/ Refused(p) \/ Acquire(p)
           \/ Answered(p) \/ AnsweredOnly(p) \/ Retry(p) \/ GiveUp(p)
           \/ Commit(p) \/ LockLost(p) \/ Save(p) \/ Leave(p) \/ Release(p)
           \/ Crash(p)

Next == Tick \/ \E p \in Procs : Step(p)

Spec == Init /\ [][Next]_vars

-----------------------------------------------------------------------------
(* Properties *)

TypeOK ==
  /\ now \in Nat
  /\ lock \in [owner : Procs, beat : Int] \cup {None}
  /\ pc \in [Procs -> {"new", "acquire", "request", "store", "release", "dead", "done"}]
  /\ pid \in [Procs -> Pids \cup {None}]
  /\ since \in [Procs -> Int]
  /\ tries \in [Procs -> 0 .. (MaxAttempts - 1)]
  /\ wait \in [Procs -> Nat]
  /\ fenced \in Procs \cup {None} /\ plain \in Procs \cup {None}
  /\ overdue \in BOOLEAN

(* A live run that is not overdue is never stale to another host's clock.  *)
ShortGaps == \A g, h \in Hosts : MaxGap + Skew[g] - Skew[h] < StaleAfter

(* "Only one run can write to a database at a time" (README.md), as long   *)
(* as no live run is overdue: whatever the clocks' skew, the pids in use   *)
(* and the order of acquire's clock reading and transaction, two runs      *)
(* never both go on believing they hold the lock.                          *)
Mutex ==
  overdue \/ \A p, q \in Procs : Holding(p) /\ Holding(q) => p = q

(* A row is replaced or removed only by its owner's own release, or once   *)
(* its owner is dead, or its heartbeat stale to the one that takes it      *)
(* over: a run that lost the lock, or never had it, does not touch the     *)
(* next owner's row (acquire, release).                                    *)
LockKept ==
  [][lock # None /\ (lock' = None \/ lock'.owner # lock.owner) =>
       \/ lock' = None /\ pc[lock.owner] = "release" /\ pc'[lock.owner] = "done"
       \/ /\ lock' # None
          /\ \/ ~Live(lock.owner)
             \/ Clock(lock'.owner) - lock.beat >= StaleAfter]_vars

(* The pages and window ends that the heartbeat guards are those of a      *)
(* single writer at a time, each run writer once at most, whatever the     *)
(* time its requests take: a run whose lock was taken over has committed   *)
(* its last page.                                                          *)
Single == INSTANCE SingleWriter WITH
  writer <- IF lock = None THEN None ELSE lock.owner,
  past   <- {p \in Procs : pc[p] \notin {"new", "acquire"}},
  log    <- fenced
SingleFencedWriter == Single!Spec

(* No run writes to an endpoint's state, its records or its silver tables  *)
(* but the one the lock row names: what "only one run can write to a       *)
(* database at a time" (README.md) says with no condition on time.         *)
OnlyHolderWrites ==
  [][/\ fenced' # fenced => Owns(fenced')
     /\ plain' # plain => Owns(plain')]_vars
=============================================================================
