--------------------------- MODULE RunLockProofs ---------------------------
(***************************************************************************)
(* What RunLock.tla promises, for every set of processes, hosts, clocks    *)
(* and times.                                                              *)
(***************************************************************************)
EXTENDS RunLock, TLAPS

LEMMA ClockType == \A p \in Procs : Skew[HostOf[p]] \in Int
  BY HostsAssumption

(* A heartbeat leaves the row its owner's, with the time it was made.      *)
LEMMA CommitRow ==
  ASSUME TypeOK, NEW p \in Procs, Commit(p)
  PROVE  lock' # None /\ lock'.owner = p /\ lock'.beat = since'[p] /\ lock # None
         /\ lock.owner = p
<1>1. lock \in [owner : Procs, beat : Int] /\ lock.owner = p
  BY DEF Commit, Owns, TypeOK
<1>2. Clock(p) \in Int
  BY ClockType DEF Clock, TypeOK
<1>3. lock' \in [owner : Procs, beat : Int] /\ lock'.owner = p /\ lock'.beat = Clock(p)
  BY <1>1, <1>2 DEF Commit
<1>4. QED
  BY <1>1, <1>3, NoneAssumption DEF Commit, TypeOK, Owns

(* A row just inserted is the new owner's.                                 *)
LEMMA AcquireRow ==
  ASSUME TypeOK, NEW p \in Procs, Acquire(p)
  PROVE  lock' # None /\ lock'.owner = p /\ lock'.beat = since[p]
<1>1. lock' \in [owner : Procs, beat : Int] /\ lock'.owner = p /\ lock'.beat = since[p]
  BY DEF Acquire, TypeOK
<1>2. QED
  BY <1>1, NoneAssumption

(* Every variable keeps its type.                                          *)
THEOREM TypeCorrect == Spec => []TypeOK
<1>1. Init => TypeOK
  <2> SUFFICES ASSUME Init PROVE TypeOK
    OBVIOUS
  <2>1. 0 \in 0 .. (MaxAttempts - 1)
    BY AttemptsAssumption
  <2>2. tries \in [Procs -> 0 .. (MaxAttempts - 1)]
    BY <2>1 DEF Init
  <2>3. pc \in [Procs -> {"new", "acquire", "request", "store", "release", "dead", "done"}]
    BY DEF Init
  <2>4. pid \in [Procs -> Pids \cup {None}]
    BY DEF Init
  <2>5. since \in [Procs -> Int] /\ wait \in [Procs -> Nat]
    BY DEF Init
  <2>6. QED
    BY <2>2, <2>3, <2>4, <2>5 DEF Init, TypeOK
<1>2. TypeOK /\ [Next]_vars => TypeOK'
  <2> SUFFICES ASSUME TypeOK, [Next]_vars PROVE TypeOK'
    OBVIOUS
  <2> USE HostsAssumption, TimesAssumption, AttemptsAssumption DEF TypeOK, Clock
  <2>1. ASSUME NEW p \in Procs, Start(p) PROVE TypeOK'
    BY <2>1 DEF Start
  <2>2. ASSUME NEW p \in Procs, Refused(p) PROVE TypeOK'
    BY <2>2 DEF Refused, Forget
  <2>3. ASSUME NEW p \in Procs, Acquire(p) PROVE TypeOK'
    BY <2>3 DEF Acquire
  <2>4. ASSUME NEW p \in Procs, Answered(p) PROVE TypeOK'
    BY <2>4 DEF Answered
  <2>5. ASSUME NEW p \in Procs, AnsweredOnly(p) PROVE TypeOK'
    BY <2>5 DEF AnsweredOnly
  <2>6. ASSUME NEW p \in Procs, Retry(p) PROVE TypeOK'
    BY <2>6 DEF Retry
  <2>7. ASSUME NEW p \in Procs, GiveUp(p) PROVE TypeOK'
    BY <2>7 DEF GiveUp
  <2>8. ASSUME NEW p \in Procs, Commit(p) PROVE TypeOK'
    BY <2>8 DEF Commit, Owns
  <2>9. ASSUME NEW p \in Procs, LockLost(p) PROVE TypeOK'
    BY <2>9 DEF LockLost
  <2>10. ASSUME NEW p \in Procs, Save(p) PROVE TypeOK'
    BY <2>10 DEF Save
  <2>11. ASSUME NEW p \in Procs, Leave(p) PROVE TypeOK'
    BY <2>11 DEF Leave
  <2>12. ASSUME NEW p \in Procs, Release(p) PROVE TypeOK'
    BY <2>12 DEF Release, Forget
  <2>13. ASSUME NEW p \in Procs, Crash(p) PROVE TypeOK'
    BY <2>13 DEF Crash, Forget
  <2>14. CASE Tick
    BY <2>14 DEF Tick
  <2>15. CASE UNCHANGED vars
    BY <2>15 DEF vars
  <2>16. QED
    BY <2>1, <2>2, <2>3, <2>4, <2>5, <2>6, <2>7, <2>8, <2>9, <2>10, <2>11,
       <2>12, <2>13, <2>14, <2>15 DEF Next, Step
<1>3. QED
  BY <1>1, <1>2, PTL DEF Spec

-----------------------------------------------------------------------------
(* The inductive invariant behind Mutex: a run that acquires or holds the  *)
(* lock read its clock in the past, and while no run is overdue, not long  *)
(* ago; and every run that believes it holds the lock is the one the row   *)
(* names, with the time that run last read.                                *)
ClockRead ==
  \A p \in Procs : pc[p] = "acquire" \/ Holding(p) =>
    /\ since[p] <= Clock(p)
    /\ overdue \/ Clock(p) - since[p] <= MaxGap

HolderOwns ==
  overdue \/ \A p \in Procs : Holding(p) => Owns(p) /\ lock.beat = since[p]

(* acquire never takes the row of a live run that read its clock less than *)
(* StaleAfter ago.                                                         *)
LEMMA AcquireNeedsStaleOrDead ==
  ASSUME TypeOK, ClockRead, NEW p \in Procs, Acquire(p), lock # None
  PROVE  ~Live(lock.owner) \/ Clock(p) - lock.beat >= StaleAfter
<1>1. lock.owner \in Procs /\ lock.beat \in Int
  BY DEF TypeOK
<1>2. CASE DeadLocal(p, lock.owner)
  BY <1>1, <1>2 DEF DeadLocal
<1>3. CASE ~Fresh(p)
  <2>1. since[p] <= Clock(p) /\ since[p] \in Int /\ Clock(p) \in Int
    BY ClockType DEF ClockRead, TypeOK, Clock, Acquire
  <2>2. since[p] - lock.beat >= StaleAfter
    BY <1>1, <1>3, <2>1, TimesAssumption DEF Fresh
  <2>3. QED
    BY <1>1, <2>1, <2>2, TimesAssumption
<1>4. QED
  BY <1>2, <1>3 DEF Acquire

LEMMA ClockReadInductive ==
  TypeOK /\ ClockRead /\ [Next]_vars => ClockRead'
<1> SUFFICES ASSUME TypeOK, ClockRead, [Next]_vars PROVE ClockRead'
  OBVIOUS
<1> USE HostsAssumption, TimesAssumption DEF TypeOK, ClockRead, Holding, Clock
<1>1. ASSUME NEW p \in Procs, Start(p) PROVE ClockRead'
  BY <1>1 DEF Start
<1>2. ASSUME NEW p \in Procs, Refused(p) PROVE ClockRead'
  BY <1>2 DEF Refused, Forget
<1>3. ASSUME NEW p \in Procs, Acquire(p) PROVE ClockRead'
  BY <1>3 DEF Acquire
<1>4. ASSUME NEW p \in Procs, Answered(p) \/ AnsweredOnly(p) \/ Retry(p) \/ GiveUp(p)
      PROVE ClockRead'
  BY <1>4 DEF Answered, AnsweredOnly, Retry, GiveUp, Sends
<1>5. ASSUME NEW p \in Procs, Commit(p) PROVE ClockRead'
  BY <1>5 DEF Commit
<1>6. ASSUME NEW p \in Procs, LockLost(p) \/ Save(p) \/ Leave(p) PROVE ClockRead'
  BY <1>6 DEF LockLost, Save, Leave, Sends
<1>7. ASSUME NEW p \in Procs, Release(p) PROVE ClockRead'
  BY <1>7 DEF Release, Forget
<1>8. ASSUME NEW p \in Procs, Crash(p) PROVE ClockRead'
  BY <1>8 DEF Crash, Forget
<1>9. CASE Tick
  <2> SUFFICES ASSUME NEW p \in Procs, pc[p] = "acquire" \/ Holding(p)
               PROVE  /\ since[p] <= now + 1 + Skew[HostOf[p]]
                      /\ overdue' \/ now + 1 + Skew[HostOf[p]] - since[p] <= MaxGap
    BY <1>9 DEF Tick
  <2>1. Live(p)
    BY DEF Live
  <2>2. ~overdue' => ~(now + Skew[HostOf[p]] + 1 - since[p] > MaxGap)
    BY <1>9, <2>1 DEF Tick
  <2>3. QED
    BY <2>2, ClockType
<1>10. CASE UNCHANGED vars
  BY <1>10 DEF vars
<1>11. QED
  BY <1>1, <1>2, <1>3, <1>4, <1>5, <1>6, <1>7, <1>8, <1>9, <1>10 DEF Next, Step

LEMMA HolderOwnsInductive ==
  ASSUME ShortGaps
  PROVE  TypeOK /\ ClockRead /\ HolderOwns /\ [Next]_vars => HolderOwns'
<1> SUFFICES ASSUME TypeOK, ClockRead, HolderOwns, [Next]_vars PROVE HolderOwns'
  OBVIOUS
<1> USE DEF TypeOK, HolderOwns, Holding, Owns
<1>1. ASSUME NEW p \in Procs, Start(p) PROVE HolderOwns'
  BY <1>1 DEF Start
<1>2. ASSUME NEW p \in Procs, Refused(p) PROVE HolderOwns'
  BY <1>2 DEF Refused, Forget
<1>3. ASSUME NEW p \in Procs, Acquire(p) PROVE HolderOwns'
  <2>1. CASE overdue
    BY <1>3, <2>1 DEF Acquire
  <2>2. CASE ~overdue
    <3>1. ASSUME NEW q \in Procs, q # p, Holding(q) PROVE FALSE
      <4>1. lock # None /\ lock.owner = q /\ lock.beat = since[q] /\ Live(q)
        BY <2>2, <3>1 DEF Live
      <4>2. Clock(p) - since[q] >= StaleAfter
        BY <1>3, <4>1, AcquireNeedsStaleOrDead
      <4>3. Clock(q) - since[q] <= MaxGap
        BY <2>2, <3>1 DEF ClockRead
      <4>4. MaxGap + Skew[HostOf[p]] - Skew[HostOf[q]] < StaleAfter
        BY HostsAssumption DEF ShortGaps
      <4>5. QED
        BY <4>2, <4>3, <4>4, HostsAssumption, TimesAssumption DEF Clock
    <3>2. QED
      BY <1>3, <3>1, AcquireRow DEF Acquire
  <2>3. QED
    BY <2>1, <2>2
<1>4. ASSUME NEW p \in Procs, Answered(p) \/ AnsweredOnly(p) \/ Retry(p) \/ GiveUp(p)
      PROVE HolderOwns'
  BY <1>4 DEF Answered, AnsweredOnly, Retry, GiveUp, Sends
<1>5. ASSUME NEW p \in Procs, Commit(p) PROVE HolderOwns'
  BY <1>5, CommitRow DEF Commit
<1>6. ASSUME NEW p \in Procs, LockLost(p) \/ Save(p) \/ Leave(p) PROVE HolderOwns'
  BY <1>6 DEF LockLost, Save, Leave, Sends
<1>7. ASSUME NEW p \in Procs, Release(p) PROVE HolderOwns'
  BY <1>7 DEF Release, Forget
<1>8. ASSUME NEW p \in Procs, Crash(p) PROVE HolderOwns'
  BY <1>8 DEF Crash, Forget, Live
<1>9. CASE Tick
  BY <1>9 DEF Tick
<1>10. CASE UNCHANGED vars
  BY <1>10 DEF vars
<1>11. QED
  BY <1>1, <1>2, <1>3, <1>4, <1>5, <1>6, <1>7, <1>8, <1>9, <1>10 DEF Next, Step

(* When no gap short of overdue is stale to another host's clock, two runs *)
(* never both hold the lock until some run is overdue.                     *)
THEOREM MutualExclusion ==
  ASSUME ShortGaps
  PROVE  Spec => []Mutex
<1>1. Init => ClockRead /\ HolderOwns
  BY DEF Init, ClockRead, HolderOwns, Holding
<1>2. HolderOwns => Mutex
  BY DEF HolderOwns, Mutex, Owns
<1>3. QED
  BY <1>1, <1>2, TypeCorrect, ClockReadInductive, HolderOwnsInductive, PTL DEF Spec

-----------------------------------------------------------------------------
(* Whatever the time between heartbeats, the row of a live run is only     *)
(* taken by a run to whose clock its heartbeat is stale.                   *)
THEOREM LockIsKept == Spec => LockKept
<1> DEFINE Kept ==
     lock # None /\ (lock' = None \/ lock'.owner # lock.owner) =>
       \/ lock' = None /\ pc[lock.owner] = "release" /\ pc'[lock.owner] = "done"
       \/ /\ lock' # None
          /\ \/ ~Live(lock.owner)
             \/ Clock(lock'.owner) - lock.beat >= StaleAfter
<1>1. Init => ClockRead
  BY DEF Init, ClockRead, Holding
<1>2. TypeOK /\ ClockRead /\ [Next]_vars => [Kept]_vars
  <2> SUFFICES ASSUME TypeOK, ClockRead, [Next]_vars PROVE Kept \/ UNCHANGED vars
    OBVIOUS
  <2>1. ASSUME NEW p \in Procs, Acquire(p) PROVE Kept
    BY <2>1, AcquireNeedsStaleOrDead, AcquireRow
  <2>2. ASSUME NEW p \in Procs, Commit(p) PROVE Kept
    BY <2>2, CommitRow
  <2>3. ASSUME NEW p \in Procs, Release(p) PROVE Kept
    BY <2>3 DEF Release, Owns, TypeOK
  <2>4. CASE lock' = lock
    BY <2>4
  <2>5. QED
    BY <2>1, <2>2, <2>3, <2>4 DEF Next, Step, Tick, vars, Start, Refused, Answered,
       AnsweredOnly, Retry, GiveUp, LockLost, Save, Leave, Crash
<1>3. QED
  BY <1>1, <1>2, TypeCorrect, ClockReadInductive, PTL DEF Spec, LockKept

-----------------------------------------------------------------------------
(* The writes a heartbeat guards are those of SingleWriter, whatever the   *)
(* time between heartbeats.                                                *)
THEOREM ImplementsSingleWriter == Spec => SingleFencedWriter
<1> USE DEF Single!vars
<1>1. Init => Single!Init
  BY DEF Init, Single!Init
<1>2. TypeOK /\ [Next]_vars => [Single!Next]_(Single!vars)
  <2> SUFFICES ASSUME TypeOK, [Next]_vars
               PROVE  Single!Next \/ UNCHANGED Single!vars
    OBVIOUS
  <2> USE DEF TypeOK
  <2>1. ASSUME NEW p \in Procs, Start(p) PROVE UNCHANGED Single!vars
    BY <2>1 DEF Start
  <2>2. ASSUME NEW p \in Procs, Refused(p) PROVE Single!Forgo(p)
    BY <2>2 DEF Refused, Single!Forgo
  <2>3. ASSUME NEW p \in Procs, Acquire(p) PROVE Single!Grant(p)
    BY <2>3, AcquireRow DEF Acquire, Single!Grant
  <2>4. ASSUME NEW p \in Procs, Answered(p) \/ AnsweredOnly(p) \/ Retry(p) \/ GiveUp(p)
        PROVE UNCHANGED Single!vars
    BY <2>4 DEF Answered, AnsweredOnly, Retry, GiveUp, Sends
  <2>5. ASSUME NEW p \in Procs, Commit(p) PROVE Single!Write
    BY <2>5, CommitRow, NoneAssumption DEF Commit, Single!Write
  <2>6. ASSUME NEW p \in Procs, LockLost(p) \/ Save(p) \/ Leave(p)
        PROVE UNCHANGED Single!vars
    BY <2>6 DEF LockLost, Save, Leave, Sends
  <2>7. ASSUME NEW p \in Procs, Release(p) PROVE Single!Resign \/ UNCHANGED Single!vars
    BY <2>7 DEF Release, Owns, Single!Resign
  <2>8. ASSUME NEW p \in Procs, Crash(p) PROVE Single!Forgo(p) \/ UNCHANGED Single!vars
    BY <2>8 DEF Crash, Live, Single!Forgo
  <2>9. CASE Tick \/ UNCHANGED vars
    BY <2>9 DEF Tick, vars
  <2>10. QED
    BY <2>1, <2>2, <2>3, <2>4, <2>5, <2>6, <2>7, <2>8, <2>9
       DEF Next, Step, Single!Next
<1>3. QED
  BY <1>1, <1>2, TypeCorrect, PTL DEF Spec, SingleFencedWriter, Single!Spec
=============================================================================
