-------------------------------- MODULE Runs --------------------------------
(***************************************************************************)
(* The commands that take the lock, as a scheduler and an operator see     *)
(* them (src/centric_api/fetch.py, run_fetch and _run; maintenance.py;     *)
(* cli.py, main): a fetch records itself in meta_runs, reads its endpoints *)
(* one after the other and brings their silver tables up to date; silver,  *)
(* swagger and maintain only take the lock.  Commands fail, are stopped by *)
(* signals, are killed, or lose the lock, and each leaves an exit status   *)
(* and the bookkeeping rows the health check reads.                        *)
(*                                                                         *)
(* An action is one transaction with the code around it.  What a window    *)
(* does to the records is the subject of FetchEndpoint, the times behind   *)
(* the lock that of RunLock: here a heartbeat is fresh until it is 15      *)
(* minutes old, which a live run's may become at any time.                 *)
(***************************************************************************)
EXTENDS Integers, FiniteSets

CONSTANTS
  Procs,          \* processes: a slot is used again by a later command
  Hosts, HostOf,  \* the host each runs on
  Endpoints,      \* the configured endpoints, numbered in their order
  Requests,       \* the sets of them a command may be asked for, {} for none
  MaxFaults,      \* bound of the runs: failures, signals, kills, late heartbeats
  MaxManual,      \* bound of the runs: commands other than a fetch of everything
  None

ASSUME HostsAssumption == HostOf \in [Procs -> Hosts]
ASSUME EndpointsAssumption == Endpoints \subseteq Nat /\ Endpoints # {}
ASSUME RequestsAssumption == Requests \subseteq SUBSET Endpoints /\ Endpoints \in Requests
ASSUME BoundsAssumption == MaxFaults \in Nat /\ MaxManual \in Nat
ASSUME NoneAssumption ==
  /\ None \notin Procs /\ None \notin {"running", "ok", "partial", "failed"}
  /\ None \notin {0, 1, 2, 130, 143}
  /\ None \notin [owner : Procs, fresh : BOOLEAN]
  /\ None \notin [run : Procs \cup {None}, status : {"running", "ok", "partial", "failed"}]

VARIABLES
  \* the database
  schema,   \* "none", its "tables" alone, or "ready": with the rows of meta_info too
  lock,     \* the row of meta_lock, fresh until LOCK_STALE_AFTER
  last,     \* the fetch of meta_runs that began last; its process, if still known
  attempt,  \* last_attempt_status of each endpoint
  success,  \* the endpoints with a last_success_finished_at
  \* the processes
  pc,
  asked,    \* the endpoints a fetch was asked for, none for any other command
  todo,     \* those left in the stage it is at
  failed,   \* the endpoints whose fetch has failed
  deaf,     \* SIGTERM and SIGHUP are ignored from the first of them on
  exit,     \* the status it is about to exit with
  \* history
  fetched, synced,  \* what the command has committed of its endpoints
  caught,   \* the signals that reached it: one, while at "work", one "again" after
            \* that, or none or any "other" of them
  faults, manual

dbVars   == <<schema, lock, last, attempt, success>>
procVars == <<pc, asked, todo, failed, deaf, exit>>
histVars == <<fetched, synced, caught, faults, manual>>
vars == <<dbVars, procVars, histVars>>

Live(p) == pc[p] \notin {"new", "done"}
Owns(p) == lock # None /\ lock.owner = p

(* Its process is gone, as far as that host can tell.                      *)
DeadLocal(host, owner) == HostOf[owner] = host /\ ~Live(owner)

First(p) == CHOOSE e \in todo[p] : \A other \in todo[p] : e <= other

Goto(p, label) == pc' = [pc EXCEPT ![p] = label]

(* The process is gone and what it had in memory with it.                  *)
Exit(p) ==
  /\ Goto(p, "done")
  /\ exit' = [exit EXCEPT ![p] = None]
  /\ asked' = [asked EXCEPT ![p] = {}] /\ todo' = [todo EXCEPT ![p] = {}]
  /\ failed' = [failed EXCEPT ![p] = {}] /\ deaf' = [deaf EXCEPT ![p] = FALSE]
  /\ fetched' = [fetched EXCEPT ![p] = {}] /\ synced' = [synced EXCEPT ![p] = {}]

Fault == faults < MaxFaults /\ faults' = faults + 1

-----------------------------------------------------------------------------
Init ==
  /\ schema = "none" /\ lock = None /\ last = None
  /\ attempt = [e \in Endpoints |-> None] /\ success = {}
  /\ pc = [p \in Procs |-> "new"]
  /\ asked = [p \in Procs |-> {}] /\ todo = [p \in Procs |-> {}]
  /\ failed = [p \in Procs |-> {}]
  /\ deaf = [p \in Procs |-> FALSE] /\ exit = [p \in Procs |-> None]
  /\ fetched = [p \in Procs |-> {}] /\ synced = [p \in Procs |-> {}]
  /\ caught = [p \in Procs |-> "other"]
  /\ faults = 0 /\ manual = 0

(* Mutant of NeedsSchema: the tables are enough.                           *)
NoTables == schema = "none"

(* The version is the row that is looked for.                              *)
NeedsSchema == schema # "ready"

(* A command starts in a free slot, which is forgotten as that of an       *)
(* earlier fetch, and opens the database.                                  *)
Launch(p, endpoints) ==
  /\ ~Live(p) /\ ~Owns(p)
  /\ IF endpoints = Endpoints THEN UNCHANGED manual
     ELSE manual < MaxManual /\ manual' = manual + 1
  /\ last' = IF last # None /\ last.run = p THEN [last EXCEPT !.run = None] ELSE last
  /\ Goto(p, IF NeedsSchema THEN "create" ELSE "acquire")
  /\ asked' = [asked EXCEPT ![p] = endpoints] /\ todo' = [todo EXCEPT ![p] = endpoints]
  /\ caught' = [caught EXCEPT ![p] = "other"]
  /\ UNCHANGED <<schema, lock, attempt, success, failed, deaf, exit, fetched, synced, faults>>

CreateTables(p) ==
  /\ pc[p] = "create"
  /\ schema' = IF schema = "none" THEN "tables" ELSE schema
  /\ Goto(p, "version")
  /\ UNCHANGED <<lock, last, attempt, success, asked, todo, failed, deaf, exit, histVars>>

(* Another transaction, which leaves the rows alone if they are there.     *)
InsertVersion(p) ==
  /\ pc[p] = "version"
  /\ schema' = "ready"
  /\ Goto(p, "acquire")
  /\ UNCHANGED <<lock, last, attempt, success, asked, todo, failed, deaf, exit, histVars>>

(* Mutant of Free: only the lock of a dead process is taken over.          *)
FreeIfDead(p) == lock # None => DeadLocal(HostOf[p], lock.owner)

Free(p) == lock # None => ~lock.fresh \/ DeadLocal(HostOf[p], lock.owner)

Acquire(p) ==
  /\ pc[p] = "acquire"
  /\ Free(p)
  /\ lock' = [owner |-> p, fresh |-> TRUE]
  /\ Goto(p, "opened")
  /\ UNCHANGED <<schema, last, attempt, success, asked, todo, failed, deaf, exit, histVars>>

(* LockError: "another centric-api run holds the database lock".           *)
Refused(p) ==
  /\ pc[p] = "acquire"
  /\ ~Free(p)
  /\ Exit(p)
  /\ UNCHANGED <<dbVars, caught, faults, manual>>

-----------------------------------------------------------------------------
(* A fetch *)

Insert(p) ==
  /\ pc[p] = "opened" /\ asked[p] # {}
  /\ last' = [run |-> p, status |-> "running"]
  /\ Goto(p, "begun")
  /\ UNCHANGED <<schema, lock, attempt, success, asked, todo, failed, deaf, exit, histVars>>

(* The endpoint's state, in a transaction without a heartbeat.  Before the *)
(* first one the specs are refreshed, or fail to be: nothing depends on it. *)
BeginEndpoint(p) ==
  /\ pc[p] \in {"begun", "fetch"}
  /\ attempt' = [attempt EXCEPT ![First(p)] = "running"]
  /\ Goto(p, "reading")
  /\ UNCHANGED <<schema, lock, last, success, asked, todo, failed, deaf, exit, histVars>>

(* The endpoint is through: the next one, or the silver stage.             *)
Through(p) ==
  IF todo[p] = {First(p)}
  THEN Goto(p, "silver") /\ todo' = [todo EXCEPT ![p] = asked[p]]
  ELSE Goto(p, "fetch") /\ todo' = [todo EXCEPT ![p] = @ \ {First(p)}]

(* A heartbeat, in the transaction of what it guards.                      *)
Beats(p) == Owns(p) /\ lock' = [lock EXCEPT !.fresh = TRUE]

StorePage(p) ==
  /\ pc[p] = "reading"
  /\ Beats(p)
  /\ UNCHANGED <<schema, last, attempt, success, procVars, histVars>>

FinishEndpoint(p) ==
  /\ pc[p] = "reading"
  /\ Beats(p)
  /\ attempt' = [attempt EXCEPT ![First(p)] = "ok"]
  /\ success' = success \cup {First(p)}
  /\ Through(p)
  /\ fetched' = [fetched EXCEPT ![p] = @ \cup {First(p)}]
  /\ UNCHANGED <<schema, last, asked, failed, deaf, exit, synced, caught, faults, manual>>

(* A FetchError ends the endpoint, not the run.                            *)
FailEndpoint(p) ==
  /\ pc[p] = "reading"
  /\ Fault
  /\ attempt' = [attempt EXCEPT ![First(p)] = "failed"]
  /\ Through(p)
  /\ failed' = [failed EXCEPT ![p] = @ \cup {First(p)}]
  /\ UNCHANGED <<schema, lock, last, success, asked, deaf, exit, fetched, synced, caught, manual>>

(* An AuthError ends the run, which is closed without the silver stage.    *)
RejectLogin(p) ==
  /\ pc[p] \in {"begun", "reading"}
  /\ Fault
  /\ attempt' = IF pc[p] = "reading" THEN [attempt EXCEPT ![First(p)] = "failed"] ELSE attempt
  /\ Goto(p, "fatal")
  /\ UNCHANGED <<schema, lock, last, success, asked, todo, failed, deaf, exit,
                 fetched, synced, caught, manual>>

SyncSilver(p) ==
  /\ pc[p] = "silver"
  /\ Beats(p)
  /\ synced' = [synced EXCEPT ![p] = @ \cup {First(p)}]
  /\ todo' = [todo EXCEPT ![p] = @ \ {First(p)}]
  /\ Goto(p, IF todo[p] = {First(p)} THEN "close" ELSE "silver")
  /\ UNCHANGED <<schema, last, attempt, success, asked, failed, deaf, exit,
                 fetched, caught, faults, manual>>

(* silver, swagger and maintain refresh the heartbeat between their steps. *)
Upkeep(p) ==
  /\ pc[p] = "upkeep" \/ (pc[p] = "opened" /\ asked[p] = {})
  /\ Beats(p)
  /\ Goto(p, "upkeep")
  /\ UNCHANGED <<schema, last, attempt, success, asked, todo, failed, deaf, exit, histVars>>

(* swagger exits 1 when no spec could be fetched.                          *)
EndUpkeep(p) ==
  /\ pc[p] = "upkeep"
  /\ Goto(p, "release")
  /\ \E status \in {0, 1} : exit' = [exit EXCEPT ![p] = status]
  /\ UNCHANGED <<dbVars, asked, todo, failed, deaf, histVars>>

(* The heartbeat finds the lock taken over: LockError.                     *)
LockLost(p) ==
  /\ pc[p] \in {"reading", "silver", "upkeep"} \/ (pc[p] = "opened" /\ asked[p] = {})
  /\ ~Owns(p)
  /\ Goto(p, IF asked[p] = {} THEN "release" ELSE "failing")
  /\ exit' = [exit EXCEPT ![p] = 2]
  /\ UNCHANGED <<dbVars, asked, todo, failed, deaf, histVars>>

-----------------------------------------------------------------------------
(* The end of a command *)

SetStatus(p, status) ==
  last' = IF last # None /\ last.run = p THEN [last EXCEPT !.status = status] ELSE last

(* except BaseException in _run.                                           *)
RecordFailure(p) ==
  /\ pc[p] = "failing"
  /\ SetStatus(p, "failed")
  /\ Goto(p, "release")
  /\ UNCHANGED <<schema, lock, attempt, success, asked, todo, failed, deaf, exit, histVars>>

(* Mutant of RunStatus: a run is a failure when every endpoint is.         *)
StatusOfAll(p) == IF pc[p] = "fatal" \/ failed[p] = asked[p] THEN "failed" ELSE "ok"

RunStatus(p) ==
  IF pc[p] = "fatal" \/ failed[p] = asked[p] THEN "failed"
  ELSE IF failed[p] # {} THEN "partial" ELSE "ok"

Close(p) ==
  /\ pc[p] \in {"close", "fatal"}
  /\ SetStatus(p, RunStatus(p))
  /\ exit' = [exit EXCEPT ![p] = IF RunStatus(p) = "ok" THEN 0 ELSE 1]
  /\ Goto(p, "release")
  /\ UNCHANGED <<schema, lock, attempt, success, asked, todo, failed, deaf, histVars>>

Release(p) ==
  /\ pc[p] = "release"
  /\ lock' = IF Owns(p) THEN None ELSE lock
  /\ Exit(p)
  /\ UNCHANGED <<schema, last, attempt, success, caught, faults, manual>>

-----------------------------------------------------------------------------
(* Exceptions and signals *)

Guarded == {"fetch", "reading", "silver"}

(* Where an exception takes a command: to _run's except BaseException, to  *)
(* the release of the lock, or out of it.  The transaction under way is    *)
(* rolled back: the row of the run stays as it is in "close", "fatal" and  *)
(* "failing", the lock in "release".                                       *)
Raised(label) ==
  CASE label \in Guarded \cup {"begun"} -> {"failing"}
    [] label = "close" -> {"failing", "release"}
    [] label \in {"opened", "upkeep", "failing", "fatal"} -> {"release"}
    [] label \in {"create", "version", "acquire", "release"} -> {"done"}

(* A signal also comes where nothing else raises: between the COMMIT of    *)
(* the lock and the with statement that would release it, and between that *)
(* of the run's row and the try.                                           *)
Gap(label) == CASE label = "opened" -> {"done"} [] label = "begun" -> {"release"} [] OTHER -> {}

(* Mutant of Unwound: _run catches Exception, which no signal raises.      *)
UnwoundPast(label) ==
  (IF "failing" \in Raised(label) THEN {"release"} ELSE Raised(label)) \cup Gap(label)

Unwound(label) == Raised(label) \cup Gap(label)

(* It goes on at one of the labels, or is gone.                            *)
Leave(p, labels, status, ignores) ==
  \/ "done" \in labels /\ Exit(p)
  \/ /\ \E label \in labels \ {"done"} : Goto(p, label)
     /\ exit' = [exit EXCEPT ![p] = status]
     /\ deaf' = [deaf EXCEPT ![p] = ignores]
     /\ UNCHANGED <<asked, todo, failed, fetched, synced>>

(* Any other exception, like that of missing credentials, of a value       *)
(* silver cannot store or of SQLite: status 2 where main catches it, 1     *)
(* where it does not.                                                      *)
Break(p) ==
  /\ Live(p)
  /\ Fault
  /\ \E status \in {1, 2} : Leave(p, Raised(pc[p]), status, deaf[p])
  /\ caught' = [caught EXCEPT ![p] = "other"]
  /\ UNCHANGED <<dbVars, manual>>

(* The stages in which a command has nothing to clean up, or is where a    *)
(* finally, an except or a with statement does it.                         *)
Working == Guarded \cup {"create", "version", "acquire", "upkeep"}

CaughtMore(p) ==
  CASE caught[p] = "other" /\ pc[p] \in Working -> "work"
    [] caught[p] = "work" -> "again"
    [] OTHER -> "other"

(* SIGTERM and SIGHUP are ignored once one of them has come; SIGINT never  *)
(* is.                                                                     *)
Interrupt(p, signal) ==
  /\ Live(p)
  /\ signal = "INT" \/ ~deaf[p]
  /\ Fault
  /\ Leave(p, Unwound(pc[p]), IF signal = "INT" THEN 130 ELSE 143, deaf[p] \/ signal # "INT")
  /\ caught' = [caught EXCEPT ![p] = CaughtMore(p)]
  /\ UNCHANGED <<dbVars, manual>>

Kill(p) ==
  /\ Live(p)
  /\ Fault
  /\ Exit(p)
  /\ caught' = [caught EXCEPT ![p] = "other"]
  /\ UNCHANGED <<dbVars, manual>>

(* LOCK_STALE_AFTER has passed since the heartbeat.                        *)
Age ==
  /\ lock # None /\ lock.fresh
  /\ lock' = [lock EXCEPT !.fresh = FALSE]
  /\ IF Live(lock.owner) THEN Fault ELSE UNCHANGED faults
  /\ UNCHANGED <<schema, last, attempt, success, procVars, fetched, synced, caught, manual>>

-----------------------------------------------------------------------------
Run(p) == \/ CreateTables(p) \/ InsertVersion(p) \/ Acquire(p) \/ Refused(p)
          \/ Insert(p) \/ BeginEndpoint(p) \/ StorePage(p)
          \/ FinishEndpoint(p) \/ SyncSilver(p) \/ Upkeep(p) \/ EndUpkeep(p)
          \/ LockLost(p) \/ RecordFailure(p) \/ Close(p) \/ Release(p)

Fails(p) == \/ FailEndpoint(p) \/ RejectLogin(p) \/ Break(p)
            \/ Kill(p) \/ \E signal \in {"INT", "TERM"} : Interrupt(p, signal)

Command == \/ \E p \in Procs, endpoints \in Requests : Launch(p, endpoints)
           \/ \E p \in Procs : Run(p) \/ Fails(p)
           \/ Age

(* A fetch of everything is scheduled again and again, a command that is   *)
(* not stopped goes on, and a dead process refreshes no heartbeat.         *)
Scheduled == \E p \in Procs : Launch(p, Endpoints)

Spec == Init /\ [][Command]_vars
FairSpec == /\ Spec /\ WF_vars(Scheduled)
            /\ \A p \in Procs : WF_vars(Run(p))
            /\ WF_vars(Age /\ ~Live(lock.owner))

-----------------------------------------------------------------------------
(* Properties *)

Labels == {"new", "create", "version", "acquire", "opened", "begun", "fetch", "reading", "silver", "upkeep",
           "close", "fatal", "failing", "release", "done"}

TypeOK ==
  /\ schema \in {"none", "tables", "ready"}
  /\ lock \in [owner : Procs, fresh : BOOLEAN] \cup {None}
  /\ last \in [run : Procs \cup {None}, status : {"running", "ok", "partial", "failed"}]
              \cup {None}
  /\ attempt \in [Endpoints -> {None, "running", "ok", "failed"}]
  /\ success \subseteq Endpoints
  /\ pc \in [Procs -> Labels]
  /\ asked \in [Procs -> SUBSET Endpoints] /\ todo \in [Procs -> SUBSET Endpoints]
  /\ failed \in [Procs -> SUBSET Endpoints]
  /\ deaf \in [Procs -> BOOLEAN]
  /\ exit \in [Procs -> {None, 0, 1, 2, 130, 143}]
  /\ fetched \in [Procs -> SUBSET Endpoints] /\ synced \in [Procs -> SUBSET Endpoints]
  /\ caught \in [Procs -> {"work", "again", "other"}]
  /\ faults \in Nat /\ manual \in Nat

(* No command goes past opening the database without the tables and the    *)
(* rows of meta_info, the counter of the change numbers among them, though *)
(* they are made in two transactions, by any number of first commands at a *)
(* time, some of them killed in between (connect).                         *)
ReadyBeforeUse ==
  \A p \in Procs : Live(p) /\ pc[p] \notin {"create", "version"} => schema = "ready"

(* "0: Done: every endpoint fetched" (README.md): a fetch that exits 0 has *)
(* committed every endpoint it was asked for and its silver tables, and is *)
(* the latest run on record only as a good one.  Consumers are started on  *)
(* it (deployment.md).                                                     *)
ExitZeroIsDone ==
  [][\A p \in Procs : Live(p) /\ pc'[p] = "done" /\ exit[p] = 0 =>
       /\ fetched[p] = asked[p] /\ synced[p] = asked[p]
       /\ last # None /\ last.run = p => last.status = "ok"]_vars

(* Its lock is gone and its row, if still the latest, does not say that it *)
(* is running.                                                             *)
Clean(p) ==
  ~Owns(p) /\ (last # None /\ last.run = p => last.status # "running")

(* One signal while the database is opened, the lock waited for, an        *)
(* endpoint fetched or synced, or in silver, swagger and maintain, leaves  *)
(* neither the lock nor a running row (_run, RunLock.__exit__), whatever   *)
(* the other commands do.  It is not so of a signal that finds the command *)
(* between two of these stages (Gap, and Raised where it cleans up), nor   *)
(* with an SQLite error in the clean-up.                                   *)
StopsCleanlyAtWork ==
  \A p \in Procs : pc[p] = "done" /\ caught[p] = "work" => Clean(p)

(* "A second signal while it stops is ignored" (README.md): the clean-up   *)
(* of a signal that came while the command was at work is carried out.     *)
SecondSignalIgnored ==
  \A p \in Procs : pc[p] = "done" /\ caught[p] = "again" => Clean(p)
=============================================================================
