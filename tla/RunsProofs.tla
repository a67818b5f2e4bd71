----------------------------- MODULE RunsProofs -----------------------------
(***************************************************************************)
(* How commands end and what the check reports of them (Runs.tla,          *)
(* Health.tla), for any processes, endpoints and number of faults.         *)
(* What a command has done of its endpoints is read off its label, and     *)
(* nobody else moves it on: another process only takes the lock from it    *)
(* or begins a later fetch.                                                *)
(***************************************************************************)
EXTENDS Health, WellFoundedInduction, TLAPS

(* The endpoints are in the order of their numbers: one of any is first.   *)
LEMMA FirstIsLeft ==
  ASSUME NEW p, todo[p] \subseteq Endpoints, todo[p] # {}
  PROVE  First(p) \in todo[p]
<1> DEFINE less == {ss \in Nat \X Nat : ss[1] < ss[2]}
<1>1. IsWellFoundedOn(less, Nat)
  BY NatLessThanWellFounded, Zenon DEF OpToRel
<1>2. todo[p] \subseteq Nat
  BY EndpointsAssumption
<1>3. \A e, other \in Nat : <<other, e>> \notin less => e <= other
  OBVIOUS
<1> HIDE DEF less
<1>4. PICK e \in todo[p] : \A other \in todo[p] : ~ (<<other, e>> \in less)
  BY <1>1, <1>2, WFMin, Zenon
<1>5. \A other \in todo[p] : e <= other
  BY <1>2, <1>3, <1>4
<1>6. QED
  BY <1>5 DEF First

-----------------------------------------------------------------------------
(* The invariant *)

Recorded(p) == last # None /\ last.run = p

Opening == {"create", "version", "acquire", "opened"}

(* What the label of a command says of its endpoints and its row.          *)
Stage(p) ==
  /\ todo[p] \subseteq asked[p]
  /\ pc[p] \in {"new", "done"} => failed[p] = {} /\ fetched[p] = {} /\ synced[p] = {}
  /\ pc[p] \in Opening \cup {"begun"} =>
       todo[p] = asked[p] /\ failed[p] = {} /\ fetched[p] = {} /\ synced[p] = {}
  /\ pc[p] \in Opening \cup {"upkeep"} => ~Recorded(p)
  /\ pc[p] \in {"create", "version", "acquire"} => ~Owns(p)
  /\ pc[p] = "upkeep" => asked[p] = {} /\ fetched[p] = {} /\ synced[p] = {}
  /\ pc[p] \in {"begun", "fetch", "reading", "silver"} => todo[p] # {}
  /\ pc[p] \in {"fetch", "reading"} =>
       synced[p] = {} /\ fetched[p] \cup failed[p] = asked[p] \ todo[p]
  /\ pc[p] \in {"silver", "close"} => fetched[p] \cup failed[p] = asked[p]
  /\ pc[p] = "silver" => synced[p] = asked[p] \ todo[p]
  /\ pc[p] = "close" => synced[p] = asked[p]
  /\ exit[p] = 0 => /\ pc[p] = "release"
                    /\ fetched[p] = asked[p] /\ synced[p] = asked[p]
                    /\ Recorded(p) => last.status = "ok"

(* One signal in a stage leads through RecordFailure and Release, out of   *)
(* the command before it took the lock.                                    *)
Stopped(p) ==
  caught[p] = "work" =>
    /\ pc[p] \in {"failing", "release", "done"}
    /\ pc[p] \in {"release", "done"} => (Recorded(p) => last.status # "running")
    /\ pc[p] = "done" => ~Owns(p)

Ready(p) == Live(p) /\ pc[p] \notin {"create", "version"} => schema = "ready"

Inv == TypeOK /\ \A p \in Procs : Stage(p) /\ Stopped(p) /\ Ready(p)

(* Another process' step leaves p where it is.                             *)
Undisturbed(p) ==
  /\ pc'[p] = pc[p] /\ asked'[p] = asked[p] /\ todo'[p] = todo[p]
  /\ failed'[p] = failed[p] /\ exit'[p] = exit[p] /\ caught'[p] = caught[p]
  /\ fetched'[p] = fetched[p] /\ synced'[p] = synced[p]
  /\ Recorded(p)' => Recorded(p) /\ last'.status = last.status
  /\ Owns(p)' => Owns(p)
  /\ schema = "ready" => schema' = "ready"

LEMMA UndisturbedStays ==
  ASSUME NEW p \in Procs, Stage(p), Stopped(p), Ready(p), Undisturbed(p)
  PROVE  Stage(p)' /\ Stopped(p)' /\ Ready(p)'
<1>1. Stage(p)'
  BY DEF Stage, Undisturbed, Opening
<1>2. Stopped(p)'
  BY DEF Stopped, Undisturbed
<1>3. Ready(p)'
  BY DEF Ready, Live, Undisturbed
<1>4. QED
  BY <1>1, <1>2, <1>3

(* What a step of p does.                                                  *)
Step(p) ==
  /\ TypeOK'
  /\ \A q \in Procs \ {p} : Undisturbed(q)
  /\ Stage(p)' /\ Stopped(p)' /\ Ready(p)'

(* A heartbeat is a step of the lock's owner and leaves it the owner.       *)
LEMMA BeatsType ==
  ASSUME TypeOK, NEW p, Beats(p)
  PROVE  lock' \in [owner : Procs, fresh : BOOLEAN]
<1>1. lock \in [owner : Procs, fresh : BOOLEAN]
  BY DEF TypeOK, Beats, Owns
<1>2. QED
  BY <1>1 DEF Beats

-----------------------------------------------------------------------------
LEMMA CreateTablesStep ==
  ASSUME Inv, NEW p \in Procs, CreateTables(p)
  PROVE  Step(p)
<1> USE DEF CreateTables, Goto, dbVars, histVars
<1>1. TypeOK /\ Stage(p) /\ Stopped(p) /\ Ready(p)
  BY DEF Inv
<1>3. TypeOK'
  BY <1>1 DEF TypeOK, Labels
<1>4. \A q \in Procs \ {p} : Undisturbed(q)
  BY <1>1, NoneAssumption DEF TypeOK, Undisturbed, Recorded, Owns
<1>5. Stage(p)'
  BY <1>1, NoneAssumption DEF TypeOK, Stage, Recorded, Opening, Owns
<1>6. Stopped(p)'
  BY <1>1, NoneAssumption DEF TypeOK, Stopped, Recorded, Owns
<1>7. Ready(p)'
  BY <1>1 DEF TypeOK, Ready, Live
<1>8. QED
  BY <1>3, <1>4, <1>5, <1>6, <1>7 DEF Step

LEMMA InsertVersionStep ==
  ASSUME Inv, NEW p \in Procs, InsertVersion(p)
  PROVE  Step(p)
<1> USE DEF InsertVersion, Goto, dbVars, histVars
<1>1. TypeOK /\ Stage(p) /\ Stopped(p) /\ Ready(p)
  BY DEF Inv
<1>3. TypeOK'
  BY <1>1 DEF TypeOK, Labels
<1>4. \A q \in Procs \ {p} : Undisturbed(q)
  BY <1>1, NoneAssumption DEF TypeOK, Undisturbed, Recorded, Owns
<1>5. Stage(p)'
  BY <1>1, NoneAssumption DEF TypeOK, Stage, Recorded, Opening, Owns
<1>6. Stopped(p)'
  BY <1>1, NoneAssumption DEF TypeOK, Stopped, Recorded, Owns
<1>7. Ready(p)'
  BY <1>1 DEF TypeOK, Ready, Live
<1>8. QED
  BY <1>3, <1>4, <1>5, <1>6, <1>7 DEF Step

LEMMA AcquireStep ==
  ASSUME Inv, NEW p \in Procs, Acquire(p)
  PROVE  Step(p)
<1> USE DEF Acquire, Goto, dbVars, histVars
<1>1. TypeOK /\ Stage(p) /\ Stopped(p) /\ Ready(p)
  BY DEF Inv
<1>3. TypeOK'
  BY <1>1 DEF TypeOK, Labels
<1>4. \A q \in Procs \ {p} : Undisturbed(q)
  BY <1>1, NoneAssumption DEF TypeOK, Undisturbed, Recorded, Owns
<1>5. Stage(p)'
  BY <1>1, NoneAssumption DEF TypeOK, Stage, Recorded, Opening, Owns
<1>6. Stopped(p)'
  BY <1>1, NoneAssumption DEF TypeOK, Stopped, Recorded, Owns
<1>7. Ready(p)'
  BY <1>1 DEF TypeOK, Ready, Live
<1>8. QED
  BY <1>3, <1>4, <1>5, <1>6, <1>7 DEF Step

LEMMA RefusedStep ==
  ASSUME Inv, NEW p \in Procs, Refused(p)
  PROVE  Step(p)
<1> USE DEF Refused, Exit, Goto, dbVars, histVars
<1>1. TypeOK /\ Stage(p) /\ Stopped(p) /\ Ready(p)
  BY DEF Inv
<1>3. TypeOK'
  BY <1>1 DEF TypeOK, Labels
<1>4. \A q \in Procs \ {p} : Undisturbed(q)
  BY <1>1, NoneAssumption DEF TypeOK, Undisturbed, Recorded, Owns
<1>5. Stage(p)'
  BY <1>1, NoneAssumption DEF TypeOK, Stage, Recorded, Opening, Owns
<1>6. Stopped(p)'
  BY <1>1, NoneAssumption DEF TypeOK, Stopped, Recorded, Owns
<1>7. Ready(p)'
  BY <1>1 DEF TypeOK, Ready, Live
<1>8. QED
  BY <1>3, <1>4, <1>5, <1>6, <1>7 DEF Step

LEMMA InsertStep ==
  ASSUME Inv, NEW p \in Procs, Insert(p)
  PROVE  Step(p)
<1> USE DEF Insert, Goto, dbVars, histVars
<1>1. TypeOK /\ Stage(p) /\ Stopped(p) /\ Ready(p)
  BY DEF Inv
<1>3. TypeOK'
  BY <1>1 DEF TypeOK, Labels
<1>4. \A q \in Procs \ {p} : Undisturbed(q)
  BY <1>1, NoneAssumption DEF TypeOK, Undisturbed, Recorded, Owns
<1>5. Stage(p)'
  BY <1>1, NoneAssumption DEF TypeOK, Stage, Recorded, Opening, Owns
<1>6. Stopped(p)'
  BY <1>1, NoneAssumption DEF TypeOK, Stopped, Recorded, Owns
<1>7. Ready(p)'
  BY <1>1 DEF TypeOK, Ready, Live
<1>8. QED
  BY <1>3, <1>4, <1>5, <1>6, <1>7 DEF Step

LEMMA BeginEndpointStep ==
  ASSUME Inv, NEW p \in Procs, BeginEndpoint(p)
  PROVE  Step(p)
<1> USE DEF BeginEndpoint, Goto, dbVars, histVars
<1>1. TypeOK /\ Stage(p) /\ Stopped(p) /\ Ready(p)
  BY DEF Inv
<1>2. First(p) \in todo[p] /\ First(p) \in Endpoints
  BY <1>1, FirstIsLeft DEF Stage, TypeOK
<1>3. TypeOK'
  BY <1>1, <1>2 DEF TypeOK, Labels
<1>4. \A q \in Procs \ {p} : Undisturbed(q)
  BY <1>1, NoneAssumption DEF TypeOK, Undisturbed, Recorded, Owns
<1>5. Stage(p)'
  BY <1>1, <1>2, NoneAssumption DEF TypeOK, Stage, Recorded, Opening, Owns
<1>6. Stopped(p)'
  BY <1>1, NoneAssumption DEF TypeOK, Stopped, Recorded, Owns
<1>7. Ready(p)'
  BY <1>1 DEF TypeOK, Ready, Live
<1>8. QED
  BY <1>3, <1>4, <1>5, <1>6, <1>7 DEF Step

LEMMA StorePageStep ==
  ASSUME Inv, NEW p \in Procs, StorePage(p)
  PROVE  Step(p)
<1> USE DEF StorePage, Beats, procVars, Goto, dbVars, histVars
<1>1. TypeOK /\ Stage(p) /\ Stopped(p) /\ Ready(p)
  BY DEF Inv
<1>3. TypeOK'
  BY <1>1, BeatsType DEF TypeOK, Labels
<1>4. \A q \in Procs \ {p} : Undisturbed(q)
  BY <1>1, NoneAssumption DEF TypeOK, Undisturbed, Recorded, Owns
<1>5. Stage(p)'
  BY <1>1, NoneAssumption DEF TypeOK, Stage, Recorded, Opening, Owns
<1>6. Stopped(p)'
  BY <1>1, NoneAssumption DEF TypeOK, Stopped, Recorded, Owns
<1>7. Ready(p)'
  BY <1>1 DEF TypeOK, Ready, Live
<1>8. QED
  BY <1>3, <1>4, <1>5, <1>6, <1>7 DEF Step

LEMMA FinishEndpointStep ==
  ASSUME Inv, NEW p \in Procs, FinishEndpoint(p)
  PROVE  Step(p)
<1> USE DEF FinishEndpoint, Beats, Through, Goto, dbVars, histVars
<1>1. TypeOK /\ Stage(p) /\ Stopped(p) /\ Ready(p)
  BY DEF Inv
<1>2. First(p) \in todo[p] /\ First(p) \in Endpoints
  BY <1>1, FirstIsLeft DEF Stage, TypeOK
<1>3. TypeOK'
  <2>1. lock' \in [owner : Procs, fresh : BOOLEAN]
    BY BeatsType DEF Inv
  <2>2. todo' \in [Procs -> SUBSET Endpoints] /\ pc' \in [Procs -> Labels]
    BY <1>1 DEF TypeOK, Labels
  <2>3. fetched' \in [Procs -> SUBSET Endpoints] /\ success' \subseteq Endpoints
    BY <1>1, <1>2 DEF TypeOK
  <2>4. attempt' \in [Endpoints -> {None, "running", "ok", "failed"}]
    BY <1>1 DEF TypeOK
  <2>5. QED
    BY <1>1, <2>1, <2>2, <2>3, <2>4 DEF TypeOK
<1>4. \A q \in Procs \ {p} : Undisturbed(q)
  BY <1>1, NoneAssumption DEF TypeOK, Undisturbed, Recorded, Owns
<1>5. Stage(p)'
  BY <1>1, <1>2, NoneAssumption DEF TypeOK, Stage, Recorded, Opening, Owns
<1>6. Stopped(p)'
  BY <1>1, NoneAssumption DEF TypeOK, Stopped, Recorded, Owns
<1>7. Ready(p)'
  BY <1>1 DEF TypeOK, Ready, Live
<1>8. QED
  BY <1>3, <1>4, <1>5, <1>6, <1>7 DEF Step

LEMMA FailEndpointStep ==
  ASSUME Inv, NEW p \in Procs, FailEndpoint(p)
  PROVE  Step(p)
<1> USE DEF FailEndpoint, Fault, Through, Goto, dbVars, histVars
<1>1. TypeOK /\ Stage(p) /\ Stopped(p) /\ Ready(p)
  BY DEF Inv
<1>2. First(p) \in todo[p] /\ First(p) \in Endpoints
  BY <1>1, FirstIsLeft DEF Stage, TypeOK
<1>3. TypeOK'
  BY <1>1, <1>2 DEF TypeOK, Labels
<1>4. \A q \in Procs \ {p} : Undisturbed(q)
  BY <1>1, NoneAssumption DEF TypeOK, Undisturbed, Recorded, Owns
<1>5. Stage(p)'
  BY <1>1, <1>2, NoneAssumption DEF TypeOK, Stage, Recorded, Opening, Owns
<1>6. Stopped(p)'
  BY <1>1, NoneAssumption DEF TypeOK, Stopped, Recorded, Owns
<1>7. Ready(p)'
  BY <1>1 DEF TypeOK, Ready, Live
<1>8. QED
  BY <1>3, <1>4, <1>5, <1>6, <1>7 DEF Step

LEMMA RejectLoginStep ==
  ASSUME Inv, NEW p \in Procs, RejectLogin(p)
  PROVE  Step(p)
<1> USE DEF RejectLogin, Fault, Goto, dbVars, histVars
<1>1. TypeOK /\ Stage(p) /\ Stopped(p) /\ Ready(p)
  BY DEF Inv
<1>2. First(p) \in todo[p] /\ First(p) \in Endpoints
  BY <1>1, FirstIsLeft DEF Stage, TypeOK
<1>3. TypeOK'
  BY <1>1, <1>2 DEF TypeOK, Labels
<1>4. \A q \in Procs \ {p} : Undisturbed(q)
  BY <1>1, NoneAssumption DEF TypeOK, Undisturbed, Recorded, Owns
<1>5. Stage(p)'
  BY <1>1, <1>2, NoneAssumption DEF TypeOK, Stage, Recorded, Opening, Owns
<1>6. Stopped(p)'
  BY <1>1, NoneAssumption DEF TypeOK, Stopped, Recorded, Owns
<1>7. Ready(p)'
  BY <1>1 DEF TypeOK, Ready, Live
<1>8. QED
  BY <1>3, <1>4, <1>5, <1>6, <1>7 DEF Step

LEMMA SyncSilverStep ==
  ASSUME Inv, NEW p \in Procs, SyncSilver(p)
  PROVE  Step(p)
<1> USE DEF SyncSilver, Beats, Goto, dbVars, histVars
<1>1. TypeOK /\ Stage(p) /\ Stopped(p) /\ Ready(p)
  BY DEF Inv
<1>2. First(p) \in todo[p] /\ First(p) \in Endpoints
  BY <1>1, FirstIsLeft DEF Stage, TypeOK
<1>3. TypeOK'
  <2>1. lock' \in [owner : Procs, fresh : BOOLEAN]
    BY BeatsType DEF Inv
  <2>2. todo' \in [Procs -> SUBSET Endpoints] /\ synced' \in [Procs -> SUBSET Endpoints]
    BY <1>1, <1>2 DEF TypeOK
  <2>3. pc' \in [Procs -> Labels]
    BY <1>1 DEF TypeOK, Labels
  <2>4. QED
    BY <1>1, <2>1, <2>2, <2>3 DEF TypeOK
<1>4. \A q \in Procs \ {p} : Undisturbed(q)
  BY <1>1, NoneAssumption DEF TypeOK, Undisturbed, Recorded, Owns
<1>5. Stage(p)'
  BY <1>1, <1>2, NoneAssumption DEF TypeOK, Stage, Recorded, Opening, Owns
<1>6. Stopped(p)'
  BY <1>1, NoneAssumption DEF TypeOK, Stopped, Recorded, Owns
<1>7. Ready(p)'
  BY <1>1 DEF TypeOK, Ready, Live
<1>8. QED
  BY <1>3, <1>4, <1>5, <1>6, <1>7 DEF Step

LEMMA UpkeepStep ==
  ASSUME Inv, NEW p \in Procs, Upkeep(p)
  PROVE  Step(p)
<1> USE DEF Upkeep, Beats, procVars, Goto, dbVars, histVars
<1>1. TypeOK /\ Stage(p) /\ Stopped(p) /\ Ready(p)
  BY DEF Inv
<1>3. TypeOK'
  BY <1>1, BeatsType DEF TypeOK, Labels
<1>4. \A q \in Procs \ {p} : Undisturbed(q)
  BY <1>1, NoneAssumption DEF TypeOK, Undisturbed, Recorded, Owns
<1>5. Stage(p)'
  BY <1>1, NoneAssumption DEF TypeOK, Stage, Recorded, Opening, Owns
<1>6. Stopped(p)'
  BY <1>1, NoneAssumption DEF TypeOK, Stopped, Recorded, Owns
<1>7. Ready(p)'
  BY <1>1 DEF TypeOK, Ready, Live
<1>8. QED
  BY <1>3, <1>4, <1>5, <1>6, <1>7 DEF Step

LEMMA EndUpkeepStep ==
  ASSUME Inv, NEW p \in Procs, EndUpkeep(p)
  PROVE  Step(p)
<1> USE DEF EndUpkeep, Goto, dbVars, histVars
<1>1. TypeOK /\ Stage(p) /\ Stopped(p) /\ Ready(p)
  BY DEF Inv
<1>3. TypeOK'
  BY <1>1 DEF TypeOK, Labels
<1>4. \A q \in Procs \ {p} : Undisturbed(q)
  BY <1>1, NoneAssumption DEF TypeOK, Undisturbed, Recorded, Owns
<1>5. Stage(p)'
  <2>1. ~Recorded(p)' /\ asked'[p] = {} /\ fetched'[p] = {} /\ synced'[p] = {}
    BY <1>1 DEF Stage, Recorded
  <2>2. pc'[p] = "release" /\ todo'[p] = todo[p] /\ todo[p] \subseteq asked'[p]
    BY <1>1 DEF TypeOK, Stage
  <2>3. QED
    BY <2>1, <2>2 DEF Stage, Opening
<1>6. Stopped(p)'
  BY <1>1, NoneAssumption DEF TypeOK, Stopped, Recorded, Owns
<1>7. Ready(p)'
  BY <1>1 DEF TypeOK, Ready, Live
<1>8. QED
  BY <1>3, <1>4, <1>5, <1>6, <1>7 DEF Step

LEMMA LockLostStep ==
  ASSUME Inv, NEW p \in Procs, LockLost(p)
  PROVE  Step(p)
<1> USE DEF LockLost, Goto, dbVars, histVars
<1>1. TypeOK /\ Stage(p) /\ Stopped(p) /\ Ready(p)
  BY DEF Inv
<1>3. TypeOK'
  BY <1>1 DEF TypeOK, Labels
<1>4. \A q \in Procs \ {p} : Undisturbed(q)
  BY <1>1, NoneAssumption DEF TypeOK, Undisturbed, Recorded, Owns
<1>5. Stage(p)'
  BY <1>1, NoneAssumption DEF TypeOK, Stage, Recorded, Opening, Owns
<1>6. Stopped(p)'
  BY <1>1, NoneAssumption DEF TypeOK, Stopped, Recorded, Owns
<1>7. Ready(p)'
  BY <1>1 DEF TypeOK, Ready, Live
<1>8. QED
  BY <1>3, <1>4, <1>5, <1>6, <1>7 DEF Step

LEMMA RecordFailureStep ==
  ASSUME Inv, NEW p \in Procs, RecordFailure(p)
  PROVE  Step(p)
<1> USE DEF RecordFailure, SetStatus, Goto, dbVars, histVars
<1>1. TypeOK /\ Stage(p) /\ Stopped(p) /\ Ready(p)
  BY DEF Inv
<1>3. TypeOK'
  BY <1>1 DEF TypeOK, Labels
<1>4. \A q \in Procs \ {p} : Undisturbed(q)
  BY <1>1, NoneAssumption DEF TypeOK, Undisturbed, Recorded, Owns
<1>5. Stage(p)'
  BY <1>1, NoneAssumption DEF TypeOK, Stage, Recorded, Opening, Owns
<1>6. Stopped(p)'
  BY <1>1, NoneAssumption DEF TypeOK, Stopped, Recorded, Owns
<1>7. Ready(p)'
  BY <1>1 DEF TypeOK, Ready, Live
<1>8. QED
  BY <1>3, <1>4, <1>5, <1>6, <1>7 DEF Step

LEMMA CloseStep ==
  ASSUME Inv, NEW p \in Procs, Close(p)
  PROVE  Step(p)
<1> USE DEF Close, SetStatus, RunStatus, Goto, dbVars, histVars
<1>1. TypeOK /\ Stage(p) /\ Stopped(p) /\ Ready(p)
  BY DEF Inv
<1>3. TypeOK'
  BY <1>1 DEF TypeOK, Labels
<1>4. \A q \in Procs \ {p} : Undisturbed(q)
  BY <1>1, NoneAssumption DEF TypeOK, Undisturbed, Recorded, Owns
<1>5. Stage(p)'
  <2>1. pc'[p] = "release" /\ todo'[p] \subseteq asked'[p]
    BY <1>1 DEF TypeOK, Stage
  <2>2. CASE RunStatus(p) = "ok"
    <3>1. pc[p] = "close" /\ failed[p] = {}
      BY <2>2
    <3>2. fetched'[p] = asked'[p] /\ synced'[p] = asked'[p]
      BY <1>1, <3>1 DEF Stage
    <3>3. Recorded(p)' => last'.status = "ok"
      <4> HIDE DEF RunStatus
      <4>1. QED
        BY <1>1, <2>2, NoneAssumption DEF TypeOK, Recorded
    <3>4. QED
      BY <2>1, <3>2, <3>3 DEF Stage, Opening
  <2>3. CASE RunStatus(p) # "ok"
    <3>1. exit'[p] = 1
      BY <1>1, <2>3 DEF TypeOK
    <3>2. QED
      BY <2>1, <3>1 DEF Stage, Opening
  <2>4. QED
    BY <2>2, <2>3
<1>6. Stopped(p)'
  BY <1>1, NoneAssumption DEF TypeOK, Stopped, Recorded, Owns
<1>7. Ready(p)'
  BY <1>1 DEF TypeOK, Ready, Live
<1>8. QED
  BY <1>3, <1>4, <1>5, <1>6, <1>7 DEF Step

LEMMA ReleaseStep ==
  ASSUME Inv, NEW p \in Procs, Release(p)
  PROVE  Step(p)
<1> USE DEF Release, Exit, Goto, dbVars, histVars
<1>1. TypeOK /\ Stage(p) /\ Stopped(p) /\ Ready(p)
  BY DEF Inv
<1>3. TypeOK'
  BY <1>1 DEF TypeOK, Labels
<1>4. \A q \in Procs \ {p} : Undisturbed(q)
  BY <1>1, NoneAssumption DEF TypeOK, Undisturbed, Recorded, Owns
<1>5. Stage(p)'
  BY <1>1, NoneAssumption DEF TypeOK, Stage, Recorded, Opening, Owns
<1>6. Stopped(p)'
  BY <1>1, NoneAssumption DEF TypeOK, Stopped, Recorded, Owns
<1>7. Ready(p)'
  BY <1>1 DEF TypeOK, Ready, Live
<1>8. QED
  BY <1>3, <1>4, <1>5, <1>6, <1>7 DEF Step

LEMMA KillStep ==
  ASSUME Inv, NEW p \in Procs, Kill(p)
  PROVE  Step(p)
<1> USE DEF Kill, Exit, Fault, Goto, dbVars, histVars
<1>1. TypeOK /\ Stage(p) /\ Stopped(p) /\ Ready(p)
  BY DEF Inv
<1>3. TypeOK'
  BY <1>1 DEF TypeOK, Labels
<1>4. \A q \in Procs \ {p} : Undisturbed(q)
  BY <1>1, NoneAssumption DEF TypeOK, Undisturbed, Recorded, Owns
<1>5. Stage(p)'
  BY <1>1, NoneAssumption DEF TypeOK, Stage, Recorded, Opening, Owns
<1>6. Stopped(p)'
  BY <1>1, NoneAssumption DEF TypeOK, Stopped, Recorded, Owns
<1>7. Ready(p)'
  BY <1>1 DEF TypeOK, Ready, Live
<1>8. QED
  BY <1>3, <1>4, <1>5, <1>6, <1>7 DEF Step

LEMMA LaunchStep ==
  ASSUME Inv, NEW p \in Procs, NEW endpoints \in Requests, Launch(p, endpoints)
  PROVE  Step(p)
<1> USE DEF Launch, Goto, Live, Owns
<1>1. TypeOK /\ Stage(p) /\ Stopped(p) /\ Ready(p) /\ endpoints \subseteq Endpoints
  BY RequestsAssumption DEF Inv
<1>2. pc'[p] \in {"create", "acquire"} /\ pc'[p] = "acquire" => schema = "ready"
  BY <1>1 DEF TypeOK, NeedsSchema
<1>3. /\ last' \in [run : Procs \cup {None}, status : {"running", "ok", "partial", "failed"}]
                   \cup {None}
      /\ ~Recorded(p)'
      /\ \A q \in Procs : Recorded(q)' => Recorded(q) /\ last'.status = last.status
  BY <1>1, NoneAssumption DEF TypeOK, Recorded
<1>4. TypeOK'
  BY <1>1, <1>3 DEF TypeOK, Labels
<1>5. \A q \in Procs \ {p} : Undisturbed(q)
  BY <1>1, <1>3 DEF TypeOK, Undisturbed
<1>6. Stage(p)'
  BY <1>1, <1>2, <1>3 DEF TypeOK, Stage, Opening
<1>7. Stopped(p)'
  BY <1>1 DEF TypeOK, Stopped
<1>8. Ready(p)'
  BY <1>1, <1>2 DEF Ready
<1>9. QED
  BY <1>4, <1>5, <1>6, <1>7, <1>8 DEF Step

(* A command that an exception or a signal takes to its clean-up, or out.  *)
LEMMA LeaveStep ==
  ASSUME NEW p \in Procs, NEW labels \in SUBSET {"failing", "release", "done"},
         NEW status \in {1, 2, 130, 143}, NEW ignores \in BOOLEAN,
         Inv, Live(p), Fault, UNCHANGED dbVars, UNCHANGED manual,
         pc[p] \in {"create", "version"} => labels = {"done"},
         Leave(p, labels, status, ignores),
         caught' \in [Procs -> {"work", "again", "other"}],
         \A q \in Procs \ {p} : caught'[q] = caught[q]
  PROVE  /\ TypeOK' /\ Stage(p)' /\ Ready(p)'
         /\ \A q \in Procs \ {p} : Undisturbed(q)
         /\ pc'[p] \in labels
<1> USE DEF dbVars, Fault, Goto
<1>1. TypeOK /\ Stage(p) /\ Ready(p)
  BY DEF Inv
<1>2. caught' \in [Procs -> {"work", "again", "other"}]
  OBVIOUS
<1>3. CASE "done" \in labels /\ Exit(p)
  <2>1. TypeOK'
    BY <1>1, <1>2, <1>3 DEF TypeOK, Labels, Exit
  <2>2. \A q \in Procs \ {p} : Undisturbed(q)
    BY <1>1, <1>3 DEF TypeOK, Undisturbed, Recorded, Owns, Exit
  <2>3. Stage(p)' /\ Ready(p)'
    BY <1>1, <1>3, NoneAssumption DEF TypeOK, Stage, Ready, Live, Opening, Exit
  <2>4. pc'[p] \in labels
    BY <1>1, <1>3 DEF TypeOK, Exit
  <2>5. QED
    BY <1>2, <2>1, <2>2, <2>3, <2>4
<1>4. ASSUME NEW label \in labels \ {"done"}, Goto(p, label),
             exit' = [exit EXCEPT ![p] = status], deaf' = [deaf EXCEPT ![p] = ignores],
             UNCHANGED <<asked, todo, failed, fetched, synced>>
      PROVE  /\ TypeOK' /\ Stage(p)' /\ Ready(p)'
             /\ \A q \in Procs \ {p} : Undisturbed(q)
             /\ pc'[p] \in labels
  <2>1. TypeOK'
    BY <1>1, <1>2, <1>4 DEF TypeOK, Labels
  <2>2. \A q \in Procs \ {p} : Undisturbed(q)
    BY <1>1, <1>4 DEF TypeOK, Undisturbed, Recorded, Owns
  <2>3. pc'[p] = label /\ label \in {"failing", "release"} /\ exit'[p] # 0
    BY <1>1, <1>4 DEF TypeOK
  <2>4. Stage(p)'
    BY <1>1, <1>4, <2>3 DEF Stage, Opening
  <2>5. Ready(p)'
    BY <1>1, <1>4, <2>3 DEF Ready, Live
  <2>6. QED
    BY <2>1, <2>2, <2>3, <2>4, <2>5
<1>5. QED
  BY <1>2, <1>3, <1>4 DEF Leave

LEMMA RaisedIs ==
  ASSUME NEW label \in Labels \ {"new", "done"}
  PROVE  /\ Unwound(label) \in SUBSET {"failing", "release", "done"}
         /\ Raised(label) \in SUBSET {"failing", "release", "done"}
         /\ label \in {"create", "version", "acquire"} =>
              Unwound(label) = {"done"} /\ Raised(label) = {"done"}
         /\ label \in Guarded => Unwound(label) = {"failing"}
         /\ label = "upkeep" => Unwound(label) = {"release"}
BY DEF Unwound, Raised, Gap, Guarded, Labels

LEMMA BreakStep ==
  ASSUME Inv, NEW p \in Procs, Break(p)
  PROVE  Step(p)
<1>1. TypeOK /\ Stopped(p) /\ pc[p] \in Labels \ {"new", "done"}
  BY DEF Inv, TypeOK, Break, Live
<1>2. /\ caught' \in [Procs -> {"work", "again", "other"}]
      /\ \A q \in Procs \ {p} : caught'[q] = caught[q]
      /\ caught'[p] # "work"
  BY <1>1 DEF Break, TypeOK
<1>3. PICK labels \in SUBSET {"failing", "release", "done"} :
        labels = Raised(pc[p]) /\ (pc[p] \in {"create", "version"} => labels = {"done"})
  BY <1>1, RaisedIs
<1>4. PICK status \in {1, 2, 130, 143}, ignores \in BOOLEAN : Leave(p, labels, status, ignores)
  BY <1>1, <1>3 DEF Break, TypeOK
<1>5. Live(p) /\ Fault /\ UNCHANGED dbVars /\ UNCHANGED manual
  BY DEF Break
<1>6. /\ TypeOK' /\ Stage(p)' /\ Ready(p)' /\ \A q \in Procs \ {p} : Undisturbed(q)
  BY <1>2, <1>3, <1>4, <1>5, LeaveStep
<1>7. Stopped(p)'
  BY <1>2, <1>6 DEF Stopped
<1>8. QED
  BY <1>6, <1>7 DEF Step

LEMMA InterruptStep ==
  ASSUME Inv, NEW p \in Procs, NEW signal \in {"INT", "TERM"}, Interrupt(p, signal)
  PROVE  Step(p)
<1>1. TypeOK /\ Stage(p) /\ Stopped(p) /\ pc[p] \in Labels \ {"new", "done"}
  BY DEF Inv, TypeOK, Interrupt, Live
<1>2. /\ caught' \in [Procs -> {"work", "again", "other"}]
      /\ \A q \in Procs \ {p} : caught'[q] = caught[q]
      /\ caught'[p] = CaughtMore(p)
  <2>1. CaughtMore(p) \in {"work", "again", "other"}
    BY <1>1 DEF TypeOK, CaughtMore
  <2>2. QED
    BY <1>1, <2>1 DEF Interrupt, TypeOK
<1>3. PICK labels \in SUBSET {"failing", "release", "done"} :
        labels = Unwound(pc[p]) /\ (pc[p] \in {"create", "version"} => labels = {"done"})
  BY <1>1, RaisedIs
<1>4. PICK status \in {1, 2, 130, 143}, ignores \in BOOLEAN : Leave(p, labels, status, ignores)
  BY <1>1, <1>3 DEF Interrupt, TypeOK
<1>5. Live(p) /\ Fault /\ UNCHANGED dbVars /\ UNCHANGED manual
  BY DEF Interrupt
<1>6. /\ TypeOK' /\ Stage(p)' /\ Ready(p)' /\ \A q \in Procs \ {p} : Undisturbed(q)
      /\ pc'[p] \in labels
  <2>1. /\ caught' \in [Procs -> {"work", "again", "other"}]
        /\ \A q \in Procs \ {p} : caught'[q] = caught[q]
    BY <1>2
  <2>2. QED
    BY <1>3, <1>4, <1>5, <2>1, LeaveStep
<1>7. Stopped(p)'
  <2>1. SUFFICES ASSUME caught'[p] = "work"
                 PROVE  /\ pc'[p] \in {"failing", "release", "done"}
                        /\ pc'[p] \in {"release", "done"} => (Recorded(p)' => last'.status # "running")
                        /\ pc'[p] = "done" => ~Owns(p)'
    BY DEF Stopped
  <2>2. caught[p] = "other" /\ pc[p] \in Working
    BY <1>1, <1>2, <2>1 DEF CaughtMore, Stopped
  <2>3. UNCHANGED <<last, lock>>
    BY <1>5 DEF dbVars
  <2>4. CASE pc[p] \in Guarded
    BY <1>1, <1>3, <1>6, <2>4, RaisedIs
  <2>5. CASE pc[p] = "upkeep"
    BY <1>1, <1>3, <1>6, <2>3, <2>5, RaisedIs DEF Stage, Recorded
  <2>6. CASE pc[p] \in {"create", "version", "acquire"}
    BY <1>1, <1>3, <1>6, <2>3, <2>6, RaisedIs DEF Stage, Recorded, Owns, Opening
  <2>7. QED
    BY <2>2, <2>4, <2>5, <2>6 DEF Working
<1>8. QED
  BY <1>6, <1>7 DEF Step

(* A heartbeat that ages is nobody's step.                                 *)
LEMMA AgeStep ==
  ASSUME Inv, Age
  PROVE  TypeOK' /\ \A q \in Procs : Undisturbed(q)
<1> USE DEF Age, Fault, procVars
<1>1. lock \in [owner : Procs, fresh : BOOLEAN] /\ lock' = [lock EXCEPT !.fresh = FALSE]
  BY DEF Inv, TypeOK
<1>2. lock' \in [owner : Procs, fresh : BOOLEAN] /\ lock'.owner = lock.owner
  BY <1>1
<1>3. TypeOK'
  BY <1>2 DEF Inv, TypeOK
<1>4. \A q \in Procs : Undisturbed(q)
  BY <1>2 DEF Undisturbed, Recorded, Owns
<1>5. QED
  BY <1>3, <1>4

LEMMA RunSteps ==
  ASSUME Inv, NEW p \in Procs, Run(p) \/ Fails(p)
  PROVE  Step(p)
<1>1. CASE Run(p)
  BY <1>1, CreateTablesStep, InsertVersionStep, AcquireStep, RefusedStep, InsertStep,
     BeginEndpointStep, StorePageStep, FinishEndpointStep, SyncSilverStep, UpkeepStep,
     EndUpkeepStep, LockLostStep, RecordFailureStep, CloseStep, ReleaseStep DEF Run
<1>2. CASE Fails(p)
  BY <1>2, FailEndpointStep, RejectLoginStep, BreakStep, KillStep,
     InterruptStep DEF Fails
<1>3. QED
  BY <1>1, <1>2

LEMMA CommandSteps ==
  ASSUME Inv, Command
  PROVE  Age \/ \E p \in Procs : Step(p)
BY RunSteps, LaunchStep DEF Command

LEMMA InitIsInv ==
  Init => Inv
BY NoneAssumption DEF Init, Inv, TypeOK, Labels, Stage, Stopped, Ready, Live, Opening

LEMMA InvHolds ==
  Spec => []Inv
<1>1. Inv /\ [Command]_vars => Inv'
  <2> SUFFICES ASSUME Inv, [Command]_vars
               PROVE  Inv'
    OBVIOUS
  <2>1. ASSUME NEW p \in Procs, Undisturbed(p)
        PROVE  Stage(p)' /\ Stopped(p)' /\ Ready(p)'
    BY <2>1, UndisturbedStays DEF Inv
  <2>2. CASE Age
    BY <2>1, <2>2, AgeStep DEF Inv
  <2>3. CASE \E p \in Procs : Step(p)
    BY <2>1, <2>3 DEF Step, Inv
  <2>4. CASE UNCHANGED vars
    BY <2>4 DEF vars, dbVars, procVars, histVars, Inv, TypeOK, Stage, Stopped, Ready, Live,
                Recorded, Owns
  <2>5. QED
    BY <2>2, <2>3, <2>4, CommandSteps
<1>2. QED
  BY InitIsInv, <1>1, PTL DEF Spec

-----------------------------------------------------------------------------
(* Every variable of the commands keeps its type.                          *)
THEOREM TypeCorrect == Spec => []TypeOK
<1>1. Inv => TypeOK
  BY DEF Inv
<1>2. QED
  BY <1>1, InvHolds, PTL

(* No command goes on without the tables and the rows of meta_info, for    *)
(* any number of first commands, killed or not between the two             *)
(* transactions that make them (connect).                                  *)
THEOREM SchemaIsReady == Spec => []ReadyBeforeUse
<1>1. Inv => ReadyBeforeUse
  BY DEF Inv, Ready, ReadyBeforeUse
<1>2. QED
  BY <1>1, InvHolds, PTL

(* One signal in a stage of a command's work leaves neither its lock nor a *)
(* running row, whatever else runs (_run, RunLock.__exit__).               *)
THEOREM OneSignalAtWorkStopsCleanly == Spec => []StopsCleanlyAtWork
<1>1. Inv => StopsCleanlyAtWork
  BY DEF Inv, Stopped, StopsCleanlyAtWork, Clean, Recorded
<1>2. QED
  BY <1>1, InvHolds, PTL

(* A fetch that exits 0 has fetched and synced every endpoint it was asked *)
(* for and is not on record as anything but ok (_run's return, main).      *)
THEOREM ZeroIsDone == Spec => ExitZeroIsDone
<1> DEFINE Done(p) == /\ fetched[p] = asked[p] /\ synced[p] = asked[p]
                      /\ last # None /\ last.run = p => last.status = "ok"
           Exits == \A p \in Procs : Live(p) /\ pc'[p] = "done" /\ exit[p] = 0 => Done(p)
<1>1. Inv => Exits
  BY DEF Inv, Stage, Recorded
<1>2. Inv /\ [Command]_vars => [Exits]_vars
  BY <1>1
<1>3. QED
  BY <1>2, InvHolds, PTL DEF Spec, ExitZeroIsDone

-----------------------------------------------------------------------------
(* What the check reports.  The fetch it saw running still owns a lock     *)
(* that was fresh when the check began; the one that had died leaves a     *)
(* lock, if any, that nobody alive refreshes.                              *)

SawInv ==
  /\ read # 1 => saw = Unseen
  /\ read < 2 => verdict = None

SteadyInv ==
  steady => /\ read # 0 /\ lock # None /\ Live(lock.owner)
            /\ read = 1 => lock.fresh \/ aged
            /\ read = 2 => verdict # "dead"

(* The lock is dead for the check and stays so.                            *)
Hopeless ==
  lock # None => /\ ~Live(lock.owner)
                 /\ HostOf[lock.owner] = CheckHost \/ ~lock.fresh

DoomedInv ==
  doomed => /\ read # 0 /\ Hopeless
            /\ read = 1 => saw.fetch = "running"
            /\ read = 1 /\ lock # None /\ HostOf[lock.owner] # CheckHost => ~aged
            /\ read = 2 => verdict = "dead"

CheckInv == HealthTypeOK /\ SawInv /\ SteadyInv /\ DoomedInv

LEMMA OrderIs == Len(Order) = 2 /\ Order[1] = "runs" /\ Order[2] = "lock"
BY DEF Order

LEMMA LockTypes ==
  ASSUME TypeOK, lock # None
  PROVE  lock.owner \in Procs /\ lock.fresh \in BOOLEAN
BY DEF TypeOK

LEMMA SelectKeeps ==
  ASSUME Inv, CheckInv, Select
  PROVE  CheckInv'
<1>1. CASE read = 0
  <2>1. /\ read' = 1 /\ saw' = [saw EXCEPT !.fetch = FetchLook] /\ verdict' = verdict
        /\ steady' = Running /\ doomed' = DeadFetch /\ aged' = FALSE /\ UNCHANGED vars
    BY <1>1, OrderIs DEF Select
  <2>2. verdict = None /\ saw = Unseen
    BY <1>1 DEF CheckInv, SawInv
  <2>3. FetchLook \in {"running", "ok", "bad"}
    BY DEF FetchLook, Inv, TypeOK
  <2>4. HealthTypeOK'
    <3>1. TypeOK'
      BY <2>1 DEF CheckInv, HealthTypeOK, TypeOK, vars, dbVars, procVars, histVars
    <3>2. Running \in BOOLEAN /\ DeadFetch \in BOOLEAN
      BY LockTypes DEF Running, DeadFetch, Owns, Inv
    <3>3. saw' \in [fetch : {None, "running", "ok", "bad"}, lock : {None, "none", "alive", "abandoned"}]
      BY <2>1, <2>2, <2>3 DEF Unseen
    <3>4. aged' \in BOOLEAN /\ steady' \in BOOLEAN /\ doomed' \in BOOLEAN
      BY <2>1, <3>2
    <3>5. read' \in 0 .. Len(Order) /\ verdict' = None
      BY <2>1, <2>2, OrderIs
    <3>6. QED
      BY <3>1, <3>3, <3>4, <3>5 DEF HealthTypeOK
  <2>5. SteadyInv'
    <3>1. steady' => Running /\ read' = 1
      BY <2>1
    <3>2. Running => lock # None /\ Live(lock.owner) /\ lock.fresh
      BY DEF Running, Owns
    <3>3. steady' => lock' # None /\ Live(lock.owner)' /\ lock'.fresh
      BY <2>1, <3>1, <3>2 DEF Live, vars, dbVars, procVars
    <3>4. QED
      BY <3>1, <3>3 DEF SteadyInv
  <2>6. DoomedInv'
    <3>1. DeadFetch => Hopeless /\ FetchLook = "running"
      BY LockTypes DEF DeadFetch, Held, Hopeless, FetchLook, Inv
    <3>2. Hopeless' <=> Hopeless
      BY <2>1 DEF Hopeless, Live, vars, dbVars, procVars
    <3>3. saw'.fetch = FetchLook
      BY <2>1, <2>2 DEF Unseen
    <3>4. QED
      BY <2>1, <3>1, <3>2, <3>3 DEF DoomedInv
  <2>7. QED
    BY <2>1, <2>2, <2>4, <2>5, <2>6 DEF CheckInv, SawInv
<1>2. CASE read = 1
  <2> DEFINE seen == [saw EXCEPT !.lock = LockLook]
  <2>1. /\ read' = 2 /\ saw' = Unseen /\ verdict' = Verdict(seen)
        /\ steady' = steady /\ doomed' = doomed /\ aged' = FALSE /\ UNCHANGED vars
    BY <1>2, OrderIs DEF Select
  <2>2. seen.fetch = saw.fetch /\ seen.lock = LockLook
    BY DEF CheckInv, HealthTypeOK
  <2>3. HealthTypeOK'
    <3>1. TypeOK'
      BY <2>1 DEF CheckInv, HealthTypeOK, TypeOK, vars, dbVars, procVars, histVars
    <3>2. verdict' \in {"dead", "bad", "fine"}
      BY <2>1 DEF Verdict
    <3>3. aged' \in BOOLEAN /\ steady' \in BOOLEAN /\ doomed' \in BOOLEAN
      BY <2>1 DEF HealthTypeOK, CheckInv
    <3>4. read' \in 0 .. Len(Order)
      BY <2>1, OrderIs
    <3>5. saw' \in [fetch : {None, "running", "ok", "bad"}, lock : {None, "none", "alive", "abandoned"}]
      BY <2>1 DEF Unseen
    <3>6. QED
      BY <3>1, <3>2, <3>3, <3>4, <3>5 DEF HealthTypeOK
  <2>4. SteadyInv'
    <3>1. steady => lock # None /\ Live(lock.owner) /\ (lock.fresh \/ aged)
      BY <1>2 DEF CheckInv, SteadyInv
    <3>2. steady => LockLook = "alive"
      BY <3>1 DEF LockLook, LockAlive, DeadLocal
    <3>3. steady => verdict' # "dead"
      BY <2>1, <2>2, <3>2 DEF Verdict
    <3>4. QED
      BY <2>1, <3>1, <3>3 DEF SteadyInv, Live, vars, dbVars, procVars
  <2>5. DoomedInv'
    <3>1. doomed => Hopeless /\ saw.fetch = "running"
                    /\ (lock # None /\ HostOf[lock.owner] # CheckHost => ~aged)
      BY <1>2 DEF CheckInv, DoomedInv
    <3>2. doomed => LockLook # "alive"
      BY <3>1, LockTypes DEF LockLook, LockAlive, DeadLocal, Hopeless, Inv
    <3>3. doomed => verdict' = "dead"
      BY <2>1, <2>2, <3>1, <3>2 DEF Verdict
    <3>4. Hopeless' <=> Hopeless
      BY <2>1 DEF Hopeless, Live, vars, dbVars, procVars
    <3>5. QED
      BY <2>1, <3>1, <3>3, <3>4 DEF DoomedInv
  <2>6. QED
    BY <2>1, <2>3, <2>4, <2>5 DEF CheckInv, SawInv
<1>3. QED
  BY <1>1, <1>2, OrderIs DEF Select, CheckInv, HealthTypeOK

LEMMA ReportKeeps ==
  ASSUME CheckInv, Report
  PROVE  CheckInv'
<1>1. TypeOK'
  BY DEF Report, CheckInv, HealthTypeOK, TypeOK, vars, dbVars, procVars, histVars
<1>2. HealthTypeOK'
  <2>1. aged' \in BOOLEAN /\ steady' \in BOOLEAN /\ doomed' \in BOOLEAN
    BY DEF Report, CheckInv, HealthTypeOK
  <2>2. read' \in 0 .. Len(Order) /\ verdict' = None /\ saw' = saw
    BY OrderIs DEF Report
  <2>3. QED
    BY <1>1, <2>1, <2>2 DEF CheckInv, HealthTypeOK
<1>3. SawInv'
  BY OrderIs DEF Report, CheckInv, SawInv
<1>4. QED
  BY <1>2, <1>3 DEF Report, CheckInv, SteadyInv, DoomedInv

(* A step is of a live process and touches the lock as its owner.          *)
LEMMA StepsOfTheLiving ==
  ASSUME Inv, NEW p \in Procs, Run(p) \/ Fails(p)
  PROVE  /\ Live(p) /\ pc'[p] # "new"
         /\ lock' = lock \/ lock' = None \/ lock'.owner = p
<1> USE DEF Live, Goto, Exit, Guarded, dbVars, procVars
<1>1. pc \in [Procs -> Labels] /\ (lock # None => lock \in [owner : Procs, fresh : BOOLEAN])
  BY DEF Inv, TypeOK
<1>2. CASE Run(p)
  <2>1. CASE CreateTables(p) \/ InsertVersion(p) \/ Refused(p) \/ Insert(p) \/ BeginEndpoint(p)
             \/ EndUpkeep(p) \/ LockLost(p) \/ RecordFailure(p) \/ Close(p)
    BY <1>1, <2>1 DEF CreateTables, InsertVersion, Refused, Insert, BeginEndpoint, EndUpkeep,
                      LockLost, RecordFailure, Close
  <2>2. CASE Acquire(p) \/ Release(p)
    BY <1>1, <2>2 DEF Acquire, Release
  <2>3. CASE StorePage(p) \/ FinishEndpoint(p) \/ SyncSilver(p) \/ Upkeep(p)
    BY <1>1, <2>3 DEF StorePage, FinishEndpoint, SyncSilver, Upkeep, Through, Beats, Owns
  <2>4. QED
    BY <1>2, <2>1, <2>2, <2>3 DEF Run
<1>3. CASE Fails(p)
  <2>1. CASE FailEndpoint(p) \/ RejectLogin(p) \/ Kill(p)
    BY <1>1, <2>1 DEF FailEndpoint, RejectLogin, Kill, Through
  <2>2. CASE Break(p) \/ \E signal \in {"INT", "TERM"} : Interrupt(p, signal)
    <3>1. Live(p) => "new" \notin Unwound(pc[p]) /\ "new" \notin Raised(pc[p])
      BY <1>1, RaisedIs
    <3>2. QED
      BY <1>1, <2>2, <3>1 DEF Interrupt, Break, Leave
  <2>3. QED
    BY <1>3, <2>1, <2>2 DEF Fails
<1>4. QED
  BY <1>2, <1>3

(* A dead owner stays dead, and its lock gets no fresher, until another    *)
(* command takes it.                                                       *)
LEMMA LockSteps ==
  ASSUME Inv, Command, lock # None, lock' # None, lock'.owner = lock.owner
  PROVE  /\ Live(lock.owner) => pc'[lock.owner] # "new"
         /\ ~Live(lock.owner) => ~Live(lock.owner)' /\ (lock'.fresh => lock.fresh)
<1>1. lock.owner \in Procs
  BY LockTypes DEF Inv
<1>2. ASSUME NEW p \in Procs, Run(p) \/ Fails(p)
      PROVE  /\ Live(lock.owner) => pc'[lock.owner] # "new"
             /\ ~Live(lock.owner) => ~Live(lock.owner)' /\ (lock'.fresh => lock.fresh)
  <2>1. Live(p) /\ pc'[p] # "new" /\ (lock' = lock \/ lock'.owner = p)
    BY <1>2, StepsOfTheLiving
  <2>2. \A q \in Procs \ {p} : pc'[q] = pc[q]
    BY <1>2, RunSteps DEF Step, Undisturbed
  <2>3. QED
    BY <1>1, <2>1, <2>2 DEF Live
<1>3. ASSUME NEW p \in Procs, NEW endpoints \in Requests, Launch(p, endpoints)
      PROVE  /\ pc'[lock.owner] = pc[lock.owner] /\ lock' = lock
  BY <1>1, <1>3 DEF Launch, Owns, Goto, Inv, TypeOK
<1>4. CASE Age
  BY <1>1, <1>4 DEF Age, procVars, Live, Inv, TypeOK
<1>5. QED
  BY <1>2, <1>3, <1>4 DEF Command, Live

LEMMA WatchedKeeps ==
  ASSUME Inv, Inv', CheckInv, Command, Watched
  PROVE  CheckInv'
<1>1. HealthTypeOK' /\ SawInv'
  <2>1. aged' \in BOOLEAN /\ steady' \in BOOLEAN /\ doomed' \in BOOLEAN
    BY DEF Watched, CheckInv, HealthTypeOK
  <2>2. QED
    BY <2>1 DEF Watched, CheckInv, HealthTypeOK, SawInv, Inv, Unseen
<1>2. SteadyInv'
  <2>1. SUFFICES ASSUME steady'
                 PROVE  /\ read' # 0 /\ lock' # None /\ Live(lock.owner)'
                        /\ read' = 1 => lock'.fresh \/ aged'
                        /\ read' = 2 => verdict' # "dead"
    BY DEF SteadyInv
  <2>2. /\ steady /\ lock' # None /\ lock'.owner = lock.owner /\ pc'[lock.owner] # "done"
        /\ read' = read /\ verdict' = verdict
    BY <2>1 DEF Watched
  <2>3. /\ read # 0 /\ lock # None /\ Live(lock.owner)
        /\ read = 1 => lock.fresh \/ aged
        /\ read = 2 => verdict # "dead"
    BY <2>2 DEF CheckInv, SteadyInv
  <2>4. Live(lock.owner)'
    BY <2>2, <2>3, LockSteps DEF Live
  <2>5. read = 1 => lock'.fresh \/ aged'
    <3>1. read = 1 => 0 < read /\ read < Len(Order)
      BY OrderIs
    <3>2. QED
      BY <2>2, <2>3, <3>1, Zenon DEF Watched
  <2>6. QED
    BY <2>2, <2>3, <2>4, <2>5
<1>3. DoomedInv'
  <2>1. SUFFICES ASSUME doomed'
                 PROVE  /\ read' # 0 /\ Hopeless'
                        /\ read' = 1 => saw'.fetch = "running"
                        /\ read' = 1 /\ lock' # None /\ HostOf[lock'.owner] # CheckHost => ~aged'
                        /\ read' = 2 => verdict' = "dead"
    BY DEF DoomedInv
  <2>2. /\ doomed /\ (lock' # None => lock # None /\ lock'.owner = lock.owner)
        /\ read' = read /\ verdict' = verdict /\ saw' = saw
    BY <2>1 DEF Watched
  <2>3. /\ read # 0 /\ Hopeless
        /\ read = 1 => saw.fetch = "running"
        /\ read = 1 /\ lock # None /\ HostOf[lock.owner] # CheckHost => ~aged
        /\ read = 2 => verdict = "dead"
    BY <2>2 DEF CheckInv, DoomedInv
  <2>4. Hopeless'
    BY <2>2, <2>3, LockSteps DEF Hopeless
  <2>5. read = 1 /\ lock' # None /\ HostOf[lock'.owner] # CheckHost => ~aged'
    BY <2>2, <2>3 DEF Watched, Hopeless
  <2>6. QED
    BY <2>2, <2>3, <2>4, <2>5
<1>4. QED
  BY <1>1, <1>2, <1>3 DEF CheckInv

LEMMA CheckInvHolds ==
  HealthSpec => []Inv /\ []CheckInv
<1>1. HealthInit => Init /\ CheckInv
  <2> SUFFICES ASSUME HealthInit
               PROVE  Init /\ CheckInv
    OBVIOUS
  <2>1. Init /\ TypeOK /\ steady = FALSE /\ doomed = FALSE /\ aged = FALSE
    BY InitIsInv DEF HealthInit, Inv
  <2>2. SawInv /\ read \in 0 .. Len(Order) /\ verdict = None /\ saw = Unseen
    BY OrderIs DEF HealthInit, SawInv
  <2>3. HealthTypeOK
    BY <2>1, <2>2 DEF HealthTypeOK, Unseen
  <2>4. QED
    BY <2>1, <2>2, <2>3 DEF CheckInv, SteadyInv, DoomedInv
<1>2. [HealthNext]_allVars => [Command]_vars
  BY DEF HealthNext, Select, Report, allVars
<1>3. HealthSpec => Spec
  BY <1>1, <1>2, PTL DEF HealthSpec, Spec
<1>4. Inv /\ Inv' /\ CheckInv /\ [HealthNext]_allVars => CheckInv'
  <2> SUFFICES ASSUME Inv, Inv', CheckInv, [HealthNext]_allVars
               PROVE  CheckInv'
    OBVIOUS
  <2>1. CASE Command /\ Watched
    BY <2>1, WatchedKeeps
  <2>2. CASE Select
    BY <2>2, SelectKeeps
  <2>3. CASE Report
    BY <2>3, ReportKeeps
  <2>4. CASE UNCHANGED allVars
    <3>1. UNCHANGED <<read, saw, verdict, aged, steady, doomed, lock, pc>>
      BY <2>4 DEF allVars, healthVars, vars, dbVars, procVars
    <3>2. HealthTypeOK' /\ SawInv'
      BY <3>1 DEF CheckInv, HealthTypeOK, SawInv, Inv, Unseen
    <3>3. QED
      BY <3>1, <3>2 DEF CheckInv, SteadyInv, DoomedInv, Hopeless, Live
  <2>5. QED
    BY <2>1, <2>2, <2>3, <2>4 DEF HealthNext
<1>5. QED
  BY <1>1, <1>3, <1>4, InvHolds, PTL DEF HealthSpec

-----------------------------------------------------------------------------
(* Every variable of the commands and of the check keeps its type.         *)
THEOREM HealthTypeCorrect == HealthSpec => []HealthTypeOK
<1>1. CheckInv => HealthTypeOK
  BY DEF CheckInv
<1>2. QED
  BY <1>1, CheckInvHolds, PTL

(* A fetch that keeps running with its lock from the moment the check read *)
(* its row is not reported as dead, whatever else goes on between its      *)
(* SELECTs (collect_health).                                               *)
THEOREM RunningIsNotReported == HealthSpec => []RunningNotReported
<1>1. CheckInv => RunningNotReported
  BY NoVerdictAssumption, OrderIs
     DEF CheckInv, HealthTypeOK, SawInv, SteadyInv, RunningNotReported
<1>2. QED
  BY <1>1, CheckInvHolds, PTL

(* A fetch that had died when the check began is reported by it, unless    *)
(* another command takes the lock meanwhile (collect_health).              *)
THEOREM DeadIsReported == HealthSpec => []DeadFetchReported
<1>1. CheckInv => DeadFetchReported
  BY OrderIs DEF CheckInv, HealthTypeOK, SawInv, DoomedInv, DeadFetchReported
<1>2. QED
  BY <1>1, CheckInvHolds, PTL
=============================================================================
