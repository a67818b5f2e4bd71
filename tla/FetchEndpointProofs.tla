------------------------ MODULE FetchEndpointProofs ------------------------
(***************************************************************************)
(* What FetchEndpoint.tla promises for every set of records, page size,    *)
(* clock and number of changes: its types, the deletions it flags, and     *)
(* what a window has read, however often the reading was stopped and       *)
(* resumed, while Centric leaves its records alone, adds to them, or takes *)
(* some from their places.                                                 *)
(***************************************************************************)
EXTENDS FetchEndpoint, FiniteSetTheorems, WellFoundedInduction, TLAPS

(* The writers of bronze turn rows into rows.                              *)
LEMMA UpsertType ==
  ASSUME NEW row \in Rows(RunIds), NEW v \in Version, NEW run \in RunIds
  PROVE  Upsert(row, v, run) \in RowOf(RunIds)
BY NoneAssumption DEF Upsert, NewRow, Rows, RowOf, Version

LEMMA ApplyPageType ==
  ASSUME NEW b \in [Ids -> Rows(RunIds)], NEW page, IsPage(page, Ids), NEW run \in RunIds
  PROVE  ApplyPage(b, page, run) \in [Ids -> Rows(RunIds)]
<1>1. \A i \in Ids : i \in DOMAIN page => Upsert(b[i], page[i], run) \in Rows(RunIds)
  BY UpsertType DEF IsPage, Rows
<1>2. QED
  BY <1>1 DEF ApplyPage

LEMMA MarkDeletedType ==
  ASSUME NEW b \in [Ids -> Rows(RunIds)], NEW ids
  PROVE  MarkDeleted(b, ids) \in [Ids -> Rows(RunIds)]
BY DEF MarkDeleted, Active, Rows, RowOf

(* A page holds records of the endpoint as Centric has them.               *)
LEMMA PageType ==
  ASSUME TypeOK, NEW w
  PROVE  /\ IsPage(Page(w), Ids)
         /\ DOMAIN Page(w) \subseteq Listed(w)
         /\ \A i \in DOMAIN Page(w) : Page(w)[i] = centric[i]
BY DEF Page, Listed, IsPage, TypeOK

LEMMA IdsAreNumbers ==
  /\ Ids = 1 .. Cardinality(Ids) /\ Ids \subseteq Nat
  /\ IsFiniteSet(Ids) /\ Cardinality(Ids) \in Nat
<1>1. Cardinality(Ids) \in Nat
  BY IdsAssumption, FS_CardinalityType
<1>2. QED
  BY <1>1, IdsAssumption

LEMMA CountType ==
  ASSUME NEW S \in SUBSET Ids
  PROVE  Cardinality(S) \in Nat
BY IdsAreNumbers, FS_Subset, FS_CardinalityType

LEMMA WindowNotNone == \A w \in Window : w # None
  BY NoneAssumption

-----------------------------------------------------------------------------
(* What a run keeps in memory is in its initial state between runs.        *)
LEMMA NothingInMemory ==
  /\ NoReq \in [allow : BOOLEAN, resumed : BOOLEAN, any : BOOLEAN, complete : BOOLEAN]
  /\ DOMAIN NoPass = {"expected", "seen", "prev", "late", "dup", "conc"}
  /\ NoPass.expected \in Nat /\ NoPass.seen \subseteq Ids /\ IsPage(NoPass.prev, Ids)
  /\ {NoPass.late, NoPass.dup, NoPass.conc} \subseteq BOOLEAN
  /\ DOMAIN NoCheck = {"todo", "found", "missing"}
  /\ NoCheck.todo \subseteq Ids /\ NoCheck.missing \subseteq Ids /\ IsPage(NoCheck.found, Ids)
BY DEF NoReq, NoPass, NoCheck, IsPage, EmptyPage

PassOK(p) ==
  /\ DOMAIN p = DOMAIN NoPass
  /\ p.expected \in Nat /\ p.seen \subseteq Ids /\ IsPage(p.prev, Ids)
  /\ {p.late, p.dup, p.conc} \subseteq BOOLEAN

CheckOK(c) ==
  /\ DOMAIN c = DOMAIN NoCheck
  /\ c.todo \subseteq Ids /\ c.missing \subseteq Ids /\ IsPage(c.found, Ids)

LEMMA NewWindowType ==
  ASSUME TypeOK, NEW run \in RunIds, NEW full
  PROVE  NewWindow(run, full) \in Window
<1>1. cursor # None => cursor - Overlap \in Int
  BY ClockAssumption DEF TypeOK
<1>2. QED
  BY <1>1 DEF TypeOK, NewWindow, Window

LEMMA OpenedType ==
  ASSUME TypeOK, NEW run \in RunIds, NEW full, NEW restart
  PROVE  Opened(run, full, restart) \in Window
<1>1. CASE Resumes(full, restart)
  <2>1. pending \in Window
    BY <1>1 DEF Resumes, TypeOK
  <2>2. [pending EXCEPT !.skip = 0, !.fetched = 0] \in Window
    BY <2>1 DEF Window
  <2>3. QED
    BY <1>1, <2>1, <2>2 DEF Opened, Resumed
<1>2. CASE ~Resumes(full, restart)
  BY <1>2, NewWindowType DEF Opened
<1>3. QED
  BY <1>1, <1>2

LEMMA OpenType ==
  ASSUME TypeOK, NEW run \in RunIds,
         NEW full \in BOOLEAN, NEW restart \in BOOLEAN, NEW allow \in BOOLEAN,
         Open(run, full, restart, allow), quiet' \subseteq RunIds
  PROVE  TypeOK'
<1>1. window' \in Window
  BY OpenedType DEF Open
<1>2. {shifts', stops', stepBacks'} \subseteq Nat
  BY DEF Open, TypeOK
<1>3. req' \in [allow : BOOLEAN, resumed : BOOLEAN, any : BOOLEAN, complete : BOOLEAN]
  BY DEF Open, NoReq, Resumes
<1>4. pending' = window' /\ pc' = "count" /\ gone' \subseteq Ids
  BY DEF Open
<1>5. UNCHANGED <<centricVars, now, bronze, cursor, pass, check>>
  BY DEF Open
<1>6. QED
  BY <1>1, <1>2, <1>3, <1>4, <1>5, WindowNotNone DEF TypeOK, centricVars

LEMMA StartType ==
  ASSUME TypeOK, AnyStart
  PROVE  TypeOK'
<1>1. PICK full \in BOOLEAN, restart \in BOOLEAN, allow \in BOOLEAN, run \in RunIds :
        /\ Open(run, full, restart, allow)
        /\ quiet' = IF Resumes(full, restart) THEN quiet ELSE {run}
  BY DEF AnyStart, Start, Unused
<1>2. quiet' \subseteq RunIds
  BY <1>1 DEF TypeOK
<1>3. QED
  BY <1>1, <1>2, OpenType

LEMMA ReadPageType ==
  ASSUME TypeOK, ReadPage
  PROVE  TypeOK'
<1> DEFINE page == Page(window)
           n == Cardinality(DOMAIN page)
<1>1. window \in Window /\ window.run \in RunIds
  BY NoneAssumption DEF ReadPage, TypeOK, Window
<1>2. IsPage(page, Ids)
  BY PageType
<1>3. n \in Nat
  BY <1>2, CountType DEF IsPage
<1>4. window' \in Window /\ pending' = window'
  <2>1. window' = [window EXCEPT !.skip = @ + n, !.fetched = @ + n] /\ pending' = window'
    BY DEF ReadPage
  <2>2. window.skip + n \in Nat /\ window.fetched + n \in Nat
    BY <1>1, <1>3 DEF Window
  <2>3. QED
    BY <1>1, <2>1, <2>2 DEF Window
<1>5. bronze' \in [Ids -> Rows(RunIds)]
  BY <1>1, <1>2, ApplyPageType DEF ReadPage, TypeOK
<1>6. PassOK(pass')
  <2>1. pass'.seen \subseteq Ids /\ IsPage(pass'.prev, Ids) /\ DOMAIN pass' = DOMAIN pass
    BY <1>2, NothingInMemory DEF ReadPage, TypeOK, IsPage
  <2>2. pass'.expected = pass.expected
    BY DEF ReadPage
  <2>3. pass'.dup \in BOOLEAN /\ pass'.conc \in BOOLEAN /\ pass'.late \in BOOLEAN
    BY NothingInMemory DEF ReadPage, TypeOK
  <2>4. QED
    BY <2>1, <2>2, <2>3 DEF PassOK, TypeOK
<1>7. pc' \in {"reject", "read"}
  BY DEF ReadPage
<1>8. req' \in [allow : BOOLEAN, resumed : BOOLEAN, any : BOOLEAN, complete : BOOLEAN]
  BY DEF ReadPage, TypeOK
<1>9. UNCHANGED <<centricVars, now, cursor, check, histVars>>
  BY DEF ReadPage
<1>10. QED
  BY <1>4, <1>5, <1>6, <1>7, <1>8, <1>9, WindowNotNone
     DEF TypeOK, PassOK, centricVars, histVars

LEMMA FinishType ==
  ASSUME TypeOK, Finish
  PROVE  TypeOK'
<1>1. window \in Window /\ window.run \in RunIds /\ window.start \in Int
  BY NoneAssumption DEF Finish, TypeOK, Window
<1>2. ApplyPage(bronze, check.found, window.run) \in [Ids -> Rows(RunIds)]
  BY <1>1, ApplyPageType DEF TypeOK
<1>3. bronze' \in [Ids -> Rows(RunIds)]
  BY <1>2, MarkDeletedType DEF Finish
<1>4. cursor' \in Int \cup {None}
  BY <1>1 DEF Finish, NextCursor, TypeOK
<1>5. QED
  BY <1>3, <1>4, NothingInMemory DEF Finish, TypeOK, centricVars

LEMMA LookupType ==
  ASSUME TypeOK, Lookup
  PROVE  TypeOK'
<1>1. PICK batch \in SUBSET check.todo :
        LET found == {i \in batch : centric[i] # None}
        IN  /\ check' = [todo    |-> check.todo \ batch,
                         found   |-> Merge([i \in found |-> centric[i]], check.found),
                         missing |-> check.missing \cup (batch \ found)]
            /\ pc' = IF batch = check.todo THEN "finish" ELSE "lookup"
  BY DEF Lookup
<1> DEFINE found == {i \in batch : centric[i] # None}
<1>2. [i \in found |-> centric[i]] \in [found -> Version] /\ found \subseteq Ids
  BY DEF TypeOK
<1>3. check.found \in [DOMAIN check.found -> Version] /\ DOMAIN check.found \subseteq Ids
  BY DEF TypeOK, IsPage
<1>4. IsPage(Merge([i \in found |-> centric[i]], check.found), Ids)
  BY <1>2, <1>3 DEF IsPage, Merge
<1>5. CheckOK(check')
  <2>1. check' = [todo    |-> check.todo \ batch,
                  found   |-> Merge([i \in found |-> centric[i]], check.found),
                  missing |-> check.missing \cup (batch \ found)]
    BY <1>1
  <2>2. check.todo \subseteq Ids /\ check.missing \subseteq Ids
    BY DEF TypeOK
  <2>3. QED
    BY <1>4, <2>1, <2>2 DEF CheckOK, NoCheck
<1>6. pc' \in {"finish", "lookup"} /\ pc = "lookup"
  BY <1>1 DEF Lookup
<1>7. UNCHANGED <<centricVars, now, dbVars, window, req, pass, histVars>>
  BY DEF Lookup
<1>8. QED
  BY <1>5, <1>6, <1>7 DEF TypeOK, CheckOK, centricVars, dbVars, histVars

LEMMA CentricType ==
  ASSUME TypeOK, NEW i \in Ids, Create(i) \/ Edit(i) \/ Delete(i)
  PROVE  TypeOK'
<1>1. [mod |-> srv, rev |-> rev + 1] \in Version
  BY DEF TypeOK, Version
<1>2. centric' \in [Ids -> Version \cup {None}] /\ rev' \in Nat
  BY <1>1 DEF Create, Edit, Delete, TypeOK
<1>3. {shifts', stops', stepBacks'} \subseteq Nat /\ gone' \subseteq Ids /\ quiet' = {}
  BY DEF Create, Edit, Delete, Shift, TypeOK, histVars
<1>4. UNCHANGED <<srv, now, dbVars, procVars>>
  BY DEF Create, Edit, Delete
<1>5. QED
  BY <1>2, <1>3, <1>4 DEF TypeOK, dbVars, procVars

LEMMA InitType == Init => TypeOK
<1> SUFFICES ASSUME Init PROVE TypeOK
  OBVIOUS
<1>1. Times0 \subseteq Int
  BY ClockAssumption DEF Times0, Start0
<1>2. centric \in [Ids -> Version \cup {None}]
  <2>1. PICK S \in SUBSET Ids, mods \in [Ids -> Times0] : InitCentric(S, mods)
    BY DEF Init
  <2>2. \A i \in Ids : mods[i] \in Int /\ i \in Nat
    BY <1>1, <2>1, IdsAreNumbers
  <2>3. \A i \in Ids : [mod |-> mods[i], rev |-> i] \in Version
    BY <2>2 DEF Version
  <2>4. QED
    BY <2>1, <2>3 DEF InitCentric
<1>3. bronze \in [Ids -> Rows(RunIds)] /\ cursor \in Int \cup {None}
  <2>1. CASE InitSynced
    <3>1. PICK run \in RunIds, behind \in BOOLEAN :
            bronze = [i \in Ids |->
              IF centric[i] = None \/ (behind /\ centric[i].mod >= Start0 - Overlap)
              THEN None ELSE NewRow(centric[i], run)]
      BY <2>1 DEF InitSynced
    <3>2. \A i \in Ids : centric[i] # None => NewRow(centric[i], run) \in RowOf(RunIds)
      BY <1>2 DEF NewRow, RowOf, Version
    <3>3. QED
      BY <2>1, <3>1, <3>2 DEF InitSynced, Rows, Start0
  <2>2. CASE InitEmpty
    BY <2>2 DEF InitEmpty, Rows
  <2>3. QED
    BY <2>1, <2>2 DEF Init
<1>4. rev \in Nat
  BY CountType DEF Init
<1>5. now \in Int /\ srv \in Int
  BY ClockAssumption DEF Init, Start0
<1>6. /\ pending = None /\ pc = "idle" /\ window = None
      /\ req = NoReq /\ pass = NoPass /\ check = NoCheck
      /\ gone = {} /\ shifts = 0 /\ quiet = {} /\ stops = 0 /\ stepBacks = 0
  BY DEF Init
<1>7. QED
  BY <1>2, <1>3, <1>4, <1>5, <1>6, NothingInMemory DEF TypeOK

(* The steps that only judge, save or drop what was read.                  *)
LEMMA WindowStepType ==
  ASSUME TypeOK, EndFirstPass \/ EndLaterPass
  PROVE  TypeOK'
<1>1. window \in Window
  BY NoneAssumption DEF EndFirstPass, EndLaterPass, AtEnd, TypeOK
<1>2. ASSUME NEW complete \in BOOLEAN, Judge(complete) PROVE TypeOK'
  <2>1. req' \in [allow : BOOLEAN, resumed : BOOLEAN, any : BOOLEAN, complete : BOOLEAN]
    BY <1>2 DEF Judge, TypeOK
  <2>2. pc' \in {"confirm", "finish"}
    BY <1>2 DEF Judge
  <2>3. UNCHANGED <<centricVars, now, dbVars, window, pass, check, histVars>>
    BY <1>2 DEF Judge
  <2>4. QED
    BY <1>1, <2>1, <2>2, <2>3, WindowNotNone DEF TypeOK, centricVars, dbVars, histVars
<1>3. ASSUME NextPass PROVE TypeOK'
  <2>1. window' = [window EXCEPT !.pass = @ + 1, !.skip = 0, !.fetched = 0] /\ pc' = "save"
    BY <1>3 DEF NextPass
  <2>2. window' \in Window
    <3>1. window.pass + 1 \in Nat
      BY <1>1 DEF Window
    <3>2. QED
      BY <1>1, <2>1, <3>1 DEF Window
  <2>3. UNCHANGED <<centricVars, now, dbVars, req, pass, check, histVars>>
    BY <1>3 DEF NextPass
  <2>4. QED
    BY <2>1, <2>2, <2>3, WindowNotNone DEF TypeOK, centricVars, dbVars, histVars
<1>4. ProvenAtOnce \in BOOLEAN /\ ProvenAgain \in BOOLEAN
  BY DEF ProvenAtOnce, ProvenAgain, Distinct, TypeOK
<1>5. QED
  BY <1>2, <1>3, <1>4 DEF EndFirstPass, EndLaterPass

LEMMA TypeInductive == TypeOK /\ [Next]_vars => TypeOK'
<1> SUFFICES ASSUME TypeOK, [Next]_vars PROVE TypeOK'
  OBVIOUS
<1>1. CASE AnyStart
  BY <1>1, StartType
<1>2. CASE Count
  <2>1. window \in Window
    BY <1>2, NoneAssumption DEF Count, TypeOK
  <2>2. Cardinality(Listed(window)) \in Nat
    BY CountType DEF Listed
  <2>3. PassOK(pass')
    BY <1>2, <2>2, NothingInMemory DEF Count, PassOK, NoPass
  <2>4. pc' \in {"read", "save"}
    BY <1>2 DEF Count
  <2>5. UNCHANGED <<centricVars, now, dbVars, window, req, check, histVars>>
    BY <1>2 DEF Count
  <2>6. QED
    BY <2>1, <2>3, <2>4, <2>5, WindowNotNone
       DEF TypeOK, PassOK, centricVars, dbVars, histVars
<1>3. CASE ReadPage
  BY <1>3, ReadPageType
<1>4. CASE RepeatedPage
  BY <1>4 DEF RepeatedPage, TypeOK, centricVars, dbVars, histVars
<1>5. CASE Reject
  BY <1>5, NothingInMemory DEF Reject, TypeOK, centricVars
<1>6. CASE EndFirstPass \/ EndLaterPass
  BY <1>6, WindowStepType
<1>7. CASE SavePass
  <2>1. window \in Window
    BY <1>7, NoneAssumption DEF SavePass, TypeOK
  <2>2. PassOK(pass')
    BY <1>7, NothingInMemory DEF SavePass, PassOK, NoPass, TypeOK
  <2>3. pc' = "read" /\ pending' = window
    BY <1>7 DEF SavePass
  <2>4. UNCHANGED <<centricVars, now, bronze, cursor, window, req, check, histVars>>
    BY <1>7 DEF SavePass
  <2>5. QED
    BY <2>1, <2>2, <2>3, <2>4, WindowNotNone DEF TypeOK, PassOK, centricVars, histVars
<1>8. CASE ConfirmUnseen
  <2>1. CheckOK(check')
    BY <1>8, NothingInMemory DEF ConfirmUnseen, UnseenIds, CheckOK, TypeOK
  <2>2. pc' \in {"lookup", "finish"} /\ pc = "confirm"
    BY <1>8 DEF ConfirmUnseen
  <2>3. UNCHANGED <<centricVars, now, dbVars, window, req, pass, histVars>>
    BY <1>8 DEF ConfirmUnseen
  <2>4. QED
    BY <2>1, <2>2, <2>3 DEF TypeOK, CheckOK, centricVars, dbVars, histVars
<1>9. CASE Lookup
  BY <1>9, LookupType
<1>10. CASE Finish
  BY <1>10, FinishType
<1>11. CASE Stop
  BY <1>11, NothingInMemory DEF Stop, TypeOK, centricVars, dbVars
<1>12. CASE Centric
  BY <1>12, CentricType DEF Centric
<1>13. CASE Tick
  BY <1>13 DEF Tick, TypeOK, dbVars, procVars, histVars
<1>14. CASE StepBack
  BY <1>14 DEF StepBack, TypeOK, centricVars, dbVars, procVars
<1>15. CASE UNCHANGED vars
  BY <1>15 DEF TypeOK, vars, centricVars, dbVars, procVars, histVars
<1>16. QED
  BY <1>1, <1>2, <1>3, <1>4, <1>5, <1>6, <1>7, <1>8, <1>9, <1>10, <1>11,
     <1>12, <1>13, <1>14, <1>15 DEF Next, Process

(* Every variable keeps its type.                                          *)
THEOREM TypeCorrect == Spec => []TypeOK
BY InitType, TypeInductive, PTL DEF Spec

-----------------------------------------------------------------------------
(* The invariant behind DeletesConfirmed: while a run goes on, gone holds  *)
(* every record Centric is without, so a record the lookup did not find is *)
(* in it; and nothing is missing before the lookup.                        *)
MissingIsGone ==
  /\ pc # "idle" => \A i \in Ids : centric[i] = None => i \in gone
  /\ pc \in {"lookup", "finish"} => check.missing \subseteq gone
  /\ pc \notin {"lookup", "finish"} => check = NoCheck

LEMMA MissingIsGoneInductive ==
  TypeOK /\ MissingIsGone /\ [Next]_vars => MissingIsGone'
<1> SUFFICES ASSUME TypeOK, MissingIsGone, [Next]_vars PROVE MissingIsGone'
  OBVIOUS
<1> USE DEF MissingIsGone
<1>1. CASE AnyStart
  BY <1>1 DEF AnyStart, Start, Open, centricVars
<1>2. CASE Count \/ SavePass
  BY <1>2 DEF Count, SavePass, centricVars, histVars
<1>3. CASE ReadPage \/ RepeatedPage
  BY <1>3 DEF ReadPage, RepeatedPage, centricVars, histVars
<1>4. CASE Reject \/ Finish \/ Stop
  BY <1>4 DEF Reject, Finish, Stop, centricVars
<1>5. CASE EndFirstPass \/ EndLaterPass
  <2>1. pc = "read" /\ UNCHANGED <<centric, check, gone>>
    BY <1>5 DEF EndFirstPass, EndLaterPass, AtEnd, Judge, NextPass, centricVars, histVars
  <2>2. pc' \in {"confirm", "finish", "save"}
    BY <1>5 DEF EndFirstPass, EndLaterPass, Judge, NextPass
  <2>3. check.missing = {}
    BY <2>1 DEF NoCheck
  <2>4. QED
    BY <2>1, <2>2, <2>3
<1>6. CASE ConfirmUnseen
  <2>1. pc = "confirm" /\ UNCHANGED <<centric, gone>> /\ pc' \in {"lookup", "finish"}
    BY <1>6 DEF ConfirmUnseen, centricVars, histVars
  <2>2. check'.missing = {}
    BY <1>6 DEF ConfirmUnseen, NoCheck
  <2>3. QED
    BY <2>1, <2>2
<1>7. CASE Lookup
  <2>1. pc = "lookup" /\ UNCHANGED <<centric, gone>> /\ pc' \in {"lookup", "finish"}
    BY <1>7 DEF Lookup, centricVars, histVars
  <2>2. check.todo \subseteq Ids
    BY DEF TypeOK
  <2>3. \A i \in check'.missing : i \in check.missing \/ (i \in check.todo /\ centric[i] = None)
    BY <1>7 DEF Lookup
  <2>4. QED
    BY <2>1, <2>2, <2>3
<1>8. CASE Centric
  <2>1. PICK i \in Ids : Create(i) \/ Edit(i) \/ Delete(i)
    BY <1>8 DEF Centric
  <2>2. pc' = pc /\ check' = check /\ gone \subseteq gone'
    BY <2>1 DEF Create, Edit, Delete, procVars, histVars
  <2>3. ASSUME pc # "idle", NEW j \in Ids, centric'[j] = None PROVE j \in gone'
    <3>1. CASE Create(i) \/ Edit(i)
      <4>1. [mod |-> srv, rev |-> rev + 1] # None
        <5>1. [mod |-> srv, rev |-> rev + 1] \in Version
          BY DEF TypeOK, Version
        <5>2. QED
          BY <5>1, NoneAssumption
      <4>2. centric[j] = None
        BY <2>3, <3>1, <4>1 DEF Create, Edit, TypeOK
      <4>3. QED
        BY <2>2, <2>3, <4>2
    <3>2. CASE Delete(i)
      BY <2>2, <2>3, <3>2 DEF Delete, TypeOK
    <3>3. QED
      BY <2>1, <3>1, <3>2
  <2>4. QED
    BY <2>2, <2>3
<1>9. CASE Tick \/ StepBack \/ UNCHANGED vars
  BY <1>9 DEF Tick, StepBack, vars, centricVars, procVars, histVars
<1>10. QED
  BY <1>1, <1>2, <1>3, <1>4, <1>5, <1>6, <1>7, <1>8, <1>9 DEF Next, Process

(* Storing a page leaves active what was.                                  *)
LEMMA ApplyPageKeepsActive ==
  ASSUME NEW b \in [Ids -> Rows(RunIds)], NEW page, IsPage(page, Ids), NEW run \in RunIds,
         NEW i \in Ids, Active(b[i])
  PROVE  Active(ApplyPage(b, page, run)[i])
<1>1. CASE i \in DOMAIN page
  <2>1. Upsert(b[i], page[i], run) \in RowOf(RunIds)
    BY <1>1, UpsertType DEF IsPage
  <2>2. ~Upsert(b[i], page[i], run).deleted
    BY NoneAssumption DEF Upsert, NewRow, Active, Rows, RowOf
  <2>3. QED
    BY <1>1, <2>1, <2>2, NoneAssumption DEF ApplyPage, Active
<1>2. CASE i \notin DOMAIN page
  BY <1>2 DEF ApplyPage
<1>3. QED
  BY <1>1, <1>2

(* A step flags rows only in a run asked to, for records Centric has been  *)
(* without.                                                                *)
LEMMA StepsConfirmed ==
  TypeOK /\ MissingIsGone /\ [Next]_vars
    => [\A i \in Ids : Flagged(i) => req.allow /\ i \in gone]_vars
<1> SUFFICES ASSUME TypeOK, MissingIsGone, [Next]_vars,
                    NEW i \in Ids, Flagged(i)
             PROVE  req.allow /\ i \in gone
  OBVIOUS
<1>1. CASE ReadPage
  <2>1. window.run \in RunIds
    BY <1>1, NoneAssumption DEF ReadPage, TypeOK, Window
  <2>2. bronze' = ApplyPage(bronze, Page(window), window.run) /\ IsPage(Page(window), Ids)
    BY <1>1, PageType DEF ReadPage
  <2>3. QED
    BY <2>1, <2>2, ApplyPageKeepsActive DEF Flagged, TypeOK
<1>2. CASE Finish
  <2> DEFINE stored == ApplyPage(bronze, check.found, window.run)
  <2>1. window.run \in RunIds
    BY <1>2, NoneAssumption DEF Finish, TypeOK, Window
  <2>2. Active(stored[i])
    BY <2>1, ApplyPageKeepsActive DEF Flagged, TypeOK
  <2>3. bronze' = IF req.allow THEN MarkDeleted(stored, check.missing) ELSE stored
    BY <1>2 DEF Finish
  <2>4. req.allow /\ i \in check.missing
    <3>1. DOMAIN stored = Ids
      BY DEF ApplyPage, TypeOK
    <3>2. QED
      BY <2>2, <2>3, <3>1 DEF Flagged, MarkDeleted
  <2>5. QED
    BY <1>2, <2>4 DEF MissingIsGone, Finish
<1>3. CASE bronze' = bronze
  BY <1>3 DEF Flagged
<1>4. QED
  BY <1>1, <1>2, <1>3 DEF Next, Process, AnyStart, Start, Open, Count, RepeatedPage, Reject,
     EndFirstPass, EndLaterPass, Judge, NextPass, SavePass, ConfirmUnseen, Lookup, Stop,
     Centric, Create, Edit, Delete, Tick, StepBack, vars, dbVars

(* A row is flagged deleted only in a run asked to, and only for a record  *)
(* Centric has been without since that run began.                          *)
THEOREM DeletionsAreConfirmed == Spec => DeletesConfirmed
<1>1. Init => MissingIsGone
  BY DEF Init, MissingIsGone
<1>2. QED
  BY <1>1, StepsConfirmed, TypeCorrect, MissingIsGoneInductive, PTL DEF Spec, DeletesConfirmed

-----------------------------------------------------------------------------
(* Ranks.  A set of records in the order of distinct change numbers.       *)

Below(c, i, S) == {j \in S : c[j].rev < c[i].rev}

Ordered(c, S, bound) ==
  /\ IsFiniteSet(S)
  /\ \A i \in S : c[i].rev \in 0 .. bound
  /\ \A i, j \in S : c[i].rev = c[j].rev => i = j

(* A nonempty set of records has an earliest and a latest one.             *)
LEMMA EarliestIn ==
  ASSUME NEW c, NEW T, T # {}, \A i \in T : c[i].rev \in Nat
  PROVE  \E i \in T : \A j \in T : c[i].rev <= c[j].rev
<1> DEFINE less == {ss \in Nat \X Nat : ss[1] < ss[2]}
           revs == {c[i].rev : i \in T}
<1>1. IsWellFoundedOn(less, Nat)
  BY NatLessThanWellFounded, Zenon DEF OpToRel
<1>2. revs \subseteq Nat /\ revs # {}
  OBVIOUS
<1>3. \A e, other \in Nat : <<other, e>> \notin less => e <= other
  OBVIOUS
<1>4. \E e \in revs : \A other \in revs : ~ (<<other, e>> \in less)
  <2> HIDE DEF less, revs
  <2>1. QED
    BY <1>1, <1>2, WFMin, Zenon
<1>5. PICK e \in revs : \A other \in revs : e <= other
  <2> HIDE DEF less
  <2>1. QED
    BY <1>2, <1>3, <1>4
<1>6. PICK i \in T : e = c[i].rev
  BY <1>5
<1>7. QED
  BY <1>5, <1>6

LEMMA LatestIn ==
  ASSUME NEW c, NEW T, T # {}, NEW bound \in Nat, \A i \in T : c[i].rev \in 0 .. bound
  PROVE  \E i \in T : \A j \in T : c[j].rev <= c[i].rev
<1> DEFINE d == [i \in T |-> [rev |-> bound - c[i].rev]]
<1>1. \A i \in T : d[i].rev = bound - c[i].rev /\ d[i].rev \in Nat
  OBVIOUS
<1> HIDE DEF d
<1>2. PICK i \in T : \A j \in T : d[i].rev <= d[j].rev
  BY <1>1, EarliestIn
<1>3. QED
  BY <1>1, <1>2

LEMMA BelowIsFinite ==
  ASSUME NEW c, NEW S, NEW bound, Ordered(c, S, bound), NEW i
  PROVE  IsFiniteSet(Below(c, i, S)) /\ Cardinality(Below(c, i, S)) \in Nat
<1>1. Below(c, i, S) \in SUBSET S /\ IsFiniteSet(S)
  BY DEF Below, Ordered
<1>2. QED
  BY <1>1, FS_Subset, FS_CardinalityType

LEMMA RanksGrow ==
  ASSUME NEW c, NEW S, NEW bound \in Nat, Ordered(c, S, bound),
         NEW i \in S, NEW j \in S, c[i].rev < c[j].rev
  PROVE  Cardinality(Below(c, i, S)) < Cardinality(Below(c, j, S))
<1>1. Below(c, i, S) \in SUBSET Below(c, j, S)
  BY DEF Below, Ordered
<1>2. i \in Below(c, j, S) /\ i \notin Below(c, i, S)
  BY DEF Below, Ordered
<1>3. QED
  BY <1>1, <1>2, BelowIsFinite, FS_Subset

(* No rank is left out: if one is n or more, one is n.                     *)
LEMMA NoRankIsMissing ==
  ASSUME NEW c, NEW S, NEW bound \in Nat, Ordered(c, S, bound),
         NEW n \in Nat, NEW i \in S, Cardinality(Below(c, i, S)) >= n
  PROVE  \E j \in S : Cardinality(Below(c, j, S)) = n
<1> DEFINE T == {k \in S : Cardinality(Below(c, k, S)) >= n}
<1>1. PICK j \in T : \A k \in T : c[j].rev <= c[k].rev
  <2>1. T # {} /\ \A k \in T : c[k].rev \in Nat
    BY DEF Ordered
  <2> HIDE DEF T
  <2>2. QED
    BY <2>1, EarliestIn
<1> DEFINE L == Below(c, j, S)
<1>2. /\ IsFiniteSet(L) /\ Cardinality(L) \in Nat
      /\ \A k \in S : Cardinality(Below(c, k, S)) \in Nat /\ IsFiniteSet(Below(c, k, S))
  BY BelowIsFinite
<1>3. \A k \in L : k \in S /\ Cardinality(Below(c, k, S)) < n
  <2>1. TAKE k \in L
  <2>2. k \in S /\ c[k].rev < c[j].rev /\ c[k].rev \in Nat /\ c[j].rev \in Nat
    BY <1>1, <2>1 DEF Below, Ordered
  <2>3. k \notin T
    <3> HIDE DEF T
    <3>1. QED
      BY <1>1, <2>2
  <2>4. QED
    BY <1>2, <2>2, <2>3
<1>4. CASE L = {}
  BY <1>1, <1>4, FS_EmptySet
<1>5. CASE L # {}
  <2>1. PICK k \in L : \A m \in L : c[m].rev <= c[k].rev
    <3>1. \A m \in L : c[m].rev \in 0 .. bound
      BY DEF Below, Ordered
    <3> HIDE DEF L
    <3>2. QED
      BY <1>5, <3>1, LatestIn
  <2>2. L = Below(c, k, S) \cup {k} /\ k \notin Below(c, k, S)
    BY <1>1, <2>1 DEF Below, Ordered
  <2>3. Cardinality(L) = Cardinality(Below(c, k, S)) + 1
    BY <1>2, <1>3, <2>2, FS_AddElement
  <2>4. QED
    BY <1>1, <1>2, <1>3, <2>1, <2>3
<1>6. QED
  BY <1>4, <1>5

Ranked(c, S, n, k) == {i \in S : Cardinality(Below(c, i, S)) \in n .. (n + k - 1)}

(* A page of k records holds no more than k, and reaches as far as it      *)
(* holds.                                                                  *)
LEMMA PageFits ==
  ASSUME NEW c, NEW S, NEW bound \in Nat, Ordered(c, S, bound), NEW n \in Nat, NEW k \in Nat
  PROVE  /\ IsFiniteSet(Ranked(c, S, n, k))
         /\ Cardinality(Ranked(c, S, n, k)) \in Nat
         /\ Cardinality(Ranked(c, S, n, k)) <= k
<1> DEFINE P == Ranked(c, S, n, k)
           f == [i \in P |-> Cardinality(Below(c, i, S))]
<1>1. P \in SUBSET S /\ IsFiniteSet(P) /\ Cardinality(P) \in Nat
  <2>1. P \in SUBSET S /\ IsFiniteSet(S)
    BY DEF Ranked, Ordered
  <2>2. QED
    BY <2>1, FS_Subset, FS_CardinalityType
<1>2. f \in [P -> n .. (n + k - 1)]
  BY DEF Ranked
<1>3. \A i, j \in P : f[i] = f[j] => i = j
  <2>1. SUFFICES ASSUME NEW i \in P, NEW j \in P, i # j
                 PROVE  f[i] # f[j]
    OBVIOUS
  <2>2. i \in S /\ j \in S
    BY <1>1
  <2>3. c[i].rev < c[j].rev \/ c[j].rev < c[i].rev
    BY <2>1, <2>2 DEF Ordered
  <2>4. QED
    BY <2>2, <2>3, RanksGrow, BelowIsFinite
<1>4. IsFiniteSet(n .. (n + k - 1)) /\ Cardinality(n .. (n + k - 1)) = k
  <2>1. n \in Int /\ n + k - 1 \in Int
    OBVIOUS
  <2>2. QED
    BY <2>1, FS_Interval
<1>5. f \in Injection(P, n .. (n + k - 1))
  <2> HIDE DEF f, P
  <2>1. QED
    BY <1>2, <1>3 DEF Injection, IsInjective
<1>6. Cardinality(P) <= k
  <2> HIDE DEF f, P
  <2>1. QED
    BY <1>4, <1>5, FS_Injection
<1>7. QED
  BY <1>1, <1>6

LEMMA PageReaches ==
  ASSUME NEW c, NEW S, NEW bound \in Nat, Ordered(c, S, bound), NEW n \in Nat, NEW k \in Nat,
         Ranked(c, S, n, k) # {}
  PROVE  \E i \in Ranked(c, S, n, k) :
           Cardinality(Below(c, i, S)) >= n + Cardinality(Ranked(c, S, n, k)) - 1
<1> DEFINE P == Ranked(c, S, n, k)
           m == Cardinality(P) - 1
<1>1. IsFiniteSet(P) /\ Cardinality(P) \in Nat
  BY PageFits
<1>2. m \in Nat
  BY <1>1, FS_EmptySet
<1>3. SUFFICES ASSUME \A i \in P : Cardinality(Below(c, i, S)) < n + m
               PROVE  FALSE
  <2>1. \A i \in P : Cardinality(Below(c, i, S)) \in Nat
    BY BelowIsFinite
  <2>2. n + Cardinality(P) - 1 = n + m
    BY <1>1
  <2> HIDE DEF P, m
  <2>3. SUFFICES \E i \in P : Cardinality(Below(c, i, S)) >= n + m
    BY <2>2 DEF P
  <2>4. QED
    BY <1>2, <1>3, <2>1
<1>4. P \in SUBSET Ranked(c, S, n, m)
  <2>1. ASSUME NEW i \in P
        PROVE  i \in S /\ Cardinality(Below(c, i, S)) \in n .. (n + m - 1)
    <3>1. i \in S /\ Cardinality(Below(c, i, S)) \in Nat /\ Cardinality(Below(c, i, S)) >= n
      BY <2>1, BelowIsFinite DEF Ranked
    <3>2. Cardinality(Below(c, i, S)) < n + m
      BY <1>3, <2>1
    <3> HIDE DEF P, m
    <3>3. QED
      BY <1>2, <3>1, <3>2
  <2> HIDE DEF P, m
  <2>2. QED
    BY <2>1 DEF Ranked
<1>5. IsFiniteSet(Ranked(c, S, n, m)) /\ Cardinality(Ranked(c, S, n, m)) <= m
      /\ Cardinality(Ranked(c, S, n, m)) \in Nat
  BY <1>2, PageFits
<1>6. Cardinality(P) <= Cardinality(Ranked(c, S, n, m))
  BY <1>4, <1>5, FS_Subset
<1>7. QED
  BY <1>1, <1>5, <1>6

(* A record that changes outside the list comes last if at all.            *)
LEMMA ChangesComeLast ==
  ASSUME NEW c, NEW S, NEW bound \in Nat, Ordered(c, S, bound),
         NEW d, NEW x, NEW R, x \notin S, S \subseteq R, R \subseteq S \cup {x},
         \A i \in S : d[i] = c[i],
         x \in R => d[x].rev = bound + 1
  PROVE  /\ \A i \in S : Cardinality(Below(d, i, R)) = Cardinality(Below(c, i, S))
         /\ x \in R => \A i \in S : Cardinality(Below(d, x, R)) > Cardinality(Below(c, i, S))
<1>1. \A i \in S : Below(d, i, R) = Below(c, i, S)
  BY DEF Below, Ordered
<1>2. ASSUME x \in R, NEW i \in S
      PROVE  Cardinality(Below(d, x, R)) > Cardinality(Below(c, i, S))
  <2>1. Below(d, x, R) = S
    BY <1>2 DEF Below, Ordered
  <2>2. Below(c, i, S) \in SUBSET S /\ i \notin Below(c, i, S) /\ IsFiniteSet(S)
    BY DEF Below, Ordered
  <2>3. QED
    BY <2>1, <2>2, FS_Subset, FS_CardinalityType
<1>3. QED
  BY <1>1, <1>2

-----------------------------------------------------------------------------
(* The invariant *)

Older(u, v) == u.mod <= v.mod /\ (u.rev = v.rev => u.mod = v.mod)

(* A version Centric has had of a record: none is later than the one it    *)
(* has, and the numbers of its changes tell them apart.                    *)
Known(v, current, last, time) ==
  v.rev <= last /\ v.mod <= time /\ (current # None => Older(v, current))

VersionsInv ==
  /\ \A i, j \in Ids :
       centric[i] # None /\ centric[j] # None /\ centric[i].rev = centric[j].rev => i = j
  /\ \A i \in Ids : centric[i] # None => Known(centric[i], centric[i], rev, srv)
  /\ \A i \in Ids : bronze[i] # None => Known(bronze[i], centric[i], rev, srv)
  /\ \A i \in DOMAIN check.found : Known(check.found[i], centric[i], rev, srv)

(* Centric's clock is not far behind this host's, nor behind any time the  *)
(* host has noted.                                                         *)
ClockInv == now <= srv + Lag /\ (cursor # None => cursor <= srv + Lag)

SameWindow(u, w) ==
  u.run = w.run /\ u.mode = w.mode /\ u.start = w.start /\ u.floor = w.floor

Windows == {window, pending} \ {None}
Reading == {window} \ {None}

OpenInv == \A w \in Reading : pending # None /\ SameWindow(w, pending)

(* What has not changed since the window was opened.                       *)
Old(i, w) == \/ w.run \in quiet
             \/ centric[i].mod < ChangedSince(w)
             \/ cursor # None /\ centric[i].mod < cursor - Overlap

Stored(i, run) == Current(i) /\ bronze[i].seen = run

Behind(w) == \A i \in Listed(w) : Old(i, w) => Stored(i, w.run)

(* No change has come after a quiet window was opened, and the records it  *)
(* has stamped are Centric's.                                              *)
QuietInv(w) ==
  w.run \in quiet =>
    /\ shifts = 0
    /\ \A i \in Ids : bronze[i] # None /\ bronze[i].seen = w.run => centric[i] # None

(* As long as no record leaves its place, the ones before the position are *)
(* stored, and a later pass has them all.                                  *)
PositionInv(w) ==
  shifts = 0 =>
    /\ w.skip = 0 \/ \E i \in Listed(w) : Rank(i, Listed(w)) >= w.skip - 1
    /\ \A i \in Listed(w) : Rank(i, Listed(w)) < w.skip => Stored(i, w.run)
    /\ w.pass # 1 => Behind(w)

WindowInv(w) == w.start <= srv + Lag /\ QuietInv(w) /\ PositionInv(w)

(* A lookup finds what has not changed as it is.                           *)
LookupInv ==
  /\ pc = "finish" => check.todo = {}
  /\ \A w \in Reading :
       /\ \A i \in check.missing : centric[i] # None => ~Old(i, w)
       /\ \A i \in DOMAIN check.found :
            centric[i] # None /\ Old(i, w) => check.found[i] = centric[i]

Judged == {"confirm", "lookup", "finish"}

(* What the judgement and the lookup of a quiet window come to.            *)
JudgeInv ==
  \A w \in Reading :
    /\ pc \in Judged /\ shifts = 0 => Behind(w)
    /\ pc \in {"confirm", "lookup"} => w.mode = "full"
    /\ w.run \in quiet =>
         /\ pc = "read" /\ w.pass # 1 => ~pass.late
         /\ pc = "finish" /\ w.mode = "delta" => req.complete
         /\ \A i \in DOMAIN check.found : centric[i] # None
         /\ pc \in {"lookup", "finish"} /\ w.mode = "full" /\ req.any =>
              \A i \in Ids : centric[i] = None /\ Active(bronze[i])
                               => i \in check.todo \cup check.missing

Rest == /\ ClockInv /\ VersionsInv /\ OpenInv
        /\ \A w \in Windows : WindowInv(w)
        /\ LookupInv /\ JudgeInv

Inv == TypeOK /\ MissingIsGone /\ Rest

-----------------------------------------------------------------------------
LEMMA WindowsAre ==
  ASSUME TypeOK
  PROVE  /\ Windows \subseteq Window /\ None \notin Windows
         /\ pc # "idle" => window \in Windows /\ window \in Reading /\ window # None
         /\ pc = "idle" => Reading = {}
         /\ Reading \subseteq Windows
BY DEF TypeOK, Windows, Reading

LEMMA VersionTypes ==
  ASSUME TypeOK, NEW i \in Ids
  PROVE  /\ centric[i] # None => centric[i].mod \in Int /\ centric[i].rev \in Nat
         /\ bronze[i] # None => /\ bronze[i].mod \in Int /\ bronze[i].rev \in Nat
                                /\ bronze[i].deleted \in BOOLEAN /\ bronze[i].seen \in RunIds
BY NoneAssumption DEF TypeOK, Version, Rows, RowOf

(* The records a window lists are in the order of their numbers.           *)
LEMMA ListedOrdered ==
  ASSUME TypeOK, VersionsInv, NEW w
  PROVE  /\ Ordered(centric, Listed(w), rev)
         /\ rev \in Nat
         /\ \A i, S : Rank(i, S) = Cardinality(Below(centric, i, S))
         /\ \A i : Rank(i, Listed(w)) \in Nat
<1>1. Listed(w) \in SUBSET Ids /\ IsFiniteSet(Ids)
  BY IdsAreNumbers DEF Listed
<1>2. IsFiniteSet(Listed(w))
  BY <1>1, FS_Subset
<1>3. \A i \in Listed(w) : centric[i] # None /\ i \in Ids
  BY DEF Listed
<1>4. Ordered(centric, Listed(w), rev)
  BY <1>2, <1>3, VersionTypes DEF Ordered, VersionsInv, Known
<1>5. \A i, S : Rank(i, S) = Cardinality(Below(centric, i, S))
  BY DEF Rank, Below
<1>6. rev \in Nat
  BY DEF TypeOK
<1>7. QED
  BY <1>4, <1>5, <1>6, BelowIsFinite

(* At the end of a pass there is nothing the position has not passed.      *)
LEMMA EndIsPast ==
  ASSUME TypeOK, VersionsInv, NEW w \in Window, PositionInv(w), shifts = 0, DOMAIN Page(w) = {}
  PROVE  \A i \in Listed(w) : Stored(i, w.run)
<1>1. w.skip \in Nat /\ Limit \in Nat \ {0}
  BY LimitAssumption DEF Window
<1>2. \A i \in Listed(w) : Rank(i, Listed(w)) \notin w.skip .. (w.skip + Limit - 1)
  BY DEF Page
<1>3. ASSUME NEW i \in Listed(w), Rank(i, Listed(w)) >= w.skip
      PROVE  FALSE
  <2>1. PICK j \in Listed(w) : Rank(j, Listed(w)) = w.skip
    BY <1>1, <1>3, ListedOrdered, NoRankIsMissing
  <2>2. QED
    BY <1>1, <1>2, <2>1
<1>4. \A i \in Listed(w) : Rank(i, Listed(w)) < w.skip
  BY <1>1, <1>3, ListedOrdered
<1>5. QED
  BY <1>4 DEF PositionInv

(* What a step that leaves Centric and bronze alone keeps of a window.     *)
Placid ==
  /\ centric' = centric /\ rev' = rev /\ bronze' = bronze /\ cursor' = cursor
  /\ shifts' = shifts /\ quiet' = quiet
  /\ srv \in Int /\ srv' \in Int /\ srv <= srv'

LEMMA PlacidKeeps ==
  ASSUME TypeOK, Placid, NEW w \in Window
  PROVE  /\ WindowInv(w) => WindowInv(w)'
         /\ Behind(w)' <=> Behind(w)
         /\ \A i \in Ids : Old(i, w)' <=> Old(i, w)
<1>1. Listed(w)' = Listed(w) /\ ChangedSince(w)' = ChangedSince(w)
  BY DEF Placid, Listed, ChangedSince
<1>2. \A i, S : Rank(i, S)' = Rank(i, S)
  BY DEF Placid, Rank
<1>3. \A i : Current(i)' <=> Current(i)
  BY DEF Placid, Current, Active
<1>4. \A i, run : Stored(i, run)' <=> Stored(i, run)
  BY <1>3 DEF Placid, Stored
<1>5. \A i : Old(i, w)' <=> Old(i, w)
  BY <1>1 DEF Placid, Old
<1>6. Behind(w)' <=> Behind(w)
  BY <1>1, <1>4, <1>5 DEF Behind
<1>7. QuietInv(w)' <=> QuietInv(w)
  BY DEF Placid, QuietInv
<1>8. PositionInv(w)' <=> PositionInv(w)
  BY <1>1, <1>2, <1>4, <1>6 DEF Placid, PositionInv
<1>9. w.start <= srv + Lag => w.start <= srv' + Lag
  BY ClockAssumption DEF Placid, Window
<1>10. QED
  BY <1>5, <1>6, <1>7, <1>8, <1>9 DEF WindowInv

LEMMA PlacidVersions ==
  ASSUME TypeOK, VersionsInv, Placid, check' = check \/ check' = NoCheck
  PROVE  VersionsInv'
<1>1. ASSUME NEW v, NEW current, v.mod \in Int, Known(v, current, rev, srv)
      PROVE  Known(v, current, rev', srv')
  BY <1>1 DEF Known, Placid
<1>2. \A i \in Ids : centric[i] # None => Known(centric[i], centric[i], rev', srv')
  BY <1>1, VersionTypes DEF VersionsInv
<1>3. \A i \in Ids : bronze[i] # None => Known(bronze[i], centric[i], rev', srv')
  BY <1>1, VersionTypes DEF VersionsInv
<1>4. \A i \in DOMAIN check'.found : Known(check'.found[i], centric[i], rev', srv')
  <2>1. CASE check' = NoCheck
    BY <2>1 DEF NoCheck, EmptyPage
  <2>2. CASE check' = check
    <3>1. \A i \in DOMAIN check.found : check.found[i].mod \in Int
      BY DEF TypeOK, IsPage, Version
    <3>2. QED
      BY <1>1, <2>2, <3>1 DEF VersionsInv
  <2>3. QED
    BY <2>1, <2>2
<1>5. QED
  BY <1>2, <1>3, <1>4 DEF VersionsInv, Placid

-----------------------------------------------------------------------------
(* The steps                                                               *)

LEMMA PlacidWindows ==
  ASSUME TypeOK, Placid, \A w \in Windows : WindowInv(w), Windows' \subseteq Windows
  PROVE  \A w \in Windows' : WindowInv(w)'
BY PlacidKeeps, WindowsAre

(* A step of the clocks or of a request whose answer is only kept in       *)
(* memory.                                                                 *)
LEMMA PlacidLookup ==
  ASSUME TypeOK, Placid, LookupInv, Reading' \subseteq Reading,
         check' = check \/ check' = NoCheck, pc' = "finish" => check'.todo = {}
  PROVE  LookupInv'
<1>1. ASSUME NEW w \in Reading'
      PROVE  /\ \A i \in check'.missing : centric'[i] # None => ~Old(i, w)'
             /\ \A i \in DOMAIN check'.found :
                  centric'[i] # None /\ Old(i, w)' => check'.found[i] = centric'[i]
  <2>1. w \in Reading /\ w \in Window /\ centric' = centric
    BY <1>1, WindowsAre DEF Placid
  <2>2. CASE check' = NoCheck
    BY <2>2 DEF NoCheck, EmptyPage
  <2>3. CASE check' = check
    <3>1. check.missing \subseteq Ids /\ DOMAIN check.found \subseteq Ids
      BY DEF TypeOK, IsPage
    <3>2. QED
      BY <2>1, <2>3, <3>1, PlacidKeeps DEF LookupInv
  <2>4. QED
    BY <2>2, <2>3
<1>2. QED
  BY <1>1 DEF LookupInv

LEMMA CountStep ==
  ASSUME Inv, Count
  PROVE  Rest'
<1> USE DEF Count, centricVars, dbVars, histVars
<1>1. TypeOK /\ Rest /\ MissingIsGone
  BY DEF Inv
<1>2. Placid /\ Windows' = Windows /\ Reading' = Reading
  BY <1>1 DEF Placid, Windows, Reading, TypeOK
<1>3. ClockInv' /\ OpenInv'
  BY <1>1, <1>2 DEF Rest, ClockInv, OpenInv
<1>4. VersionsInv' /\ LookupInv' /\ \A w \in Windows' : WindowInv(w)'
  BY <1>1, <1>2, PlacidVersions, PlacidWindows, PlacidLookup DEF Rest
<1>5. JudgeInv'
  <2>1. pc' \in {"read", "save"} /\ ~pass'.late /\ check' = NoCheck
    BY <1>1 DEF NoPass, MissingIsGone
  <2>2. QED
    BY <2>1 DEF JudgeInv, Judged, NoCheck, EmptyPage
<1>6. QED
  BY <1>3, <1>4, <1>5 DEF Rest

LEMMA RepeatedPageStep ==
  ASSUME Inv, RepeatedPage
  PROVE  Rest'
<1> USE DEF RepeatedPage, centricVars, dbVars, histVars
<1>1. TypeOK /\ Rest /\ MissingIsGone
  BY DEF Inv
<1>2. Placid /\ Windows' = Windows /\ Reading' = Reading
  BY <1>1 DEF Placid, Windows, Reading, TypeOK
<1>3. ClockInv' /\ OpenInv'
  BY <1>1, <1>2 DEF Rest, ClockInv, OpenInv
<1>4. VersionsInv' /\ LookupInv' /\ \A w \in Windows' : WindowInv(w)'
  BY <1>1, <1>2, PlacidVersions, PlacidWindows, PlacidLookup DEF Rest
<1>5. JudgeInv'
  <2>1. pc' = "reject" /\ check' = NoCheck
    BY <1>1 DEF MissingIsGone
  <2>2. QED
    BY <2>1 DEF JudgeInv, Judged, NoCheck, EmptyPage
<1>6. QED
  BY <1>3, <1>4, <1>5 DEF Rest

LEMMA StopStep ==
  ASSUME Inv, Stop
  PROVE  Rest'
<1> USE DEF Stop, centricVars, dbVars
<1>1. TypeOK /\ Rest
  BY DEF Inv
<1>2. Placid /\ Windows' \subseteq Windows /\ Reading' = {}
  BY <1>1 DEF Placid, Windows, Reading, TypeOK
<1>3. ClockInv' /\ OpenInv' /\ JudgeInv'
  BY <1>1, <1>2 DEF Rest, ClockInv, OpenInv, JudgeInv
<1>4. VersionsInv' /\ LookupInv' /\ \A w \in Windows' : WindowInv(w)'
  BY <1>1, <1>2, PlacidVersions, PlacidWindows, PlacidLookup DEF Rest
<1>5. QED
  BY <1>3, <1>4 DEF Rest

LEMMA ClockStep ==
  ASSUME Inv, Tick \/ StepBack
  PROVE  Rest'
<1>1. TypeOK /\ Rest
  BY DEF Inv
<1>2. /\ Placid /\ Windows' = Windows /\ Reading' = Reading
      /\ UNCHANGED <<cursor, check, pc, pass, req, pending>>
  BY <1>1 DEF Tick, StepBack, centricVars, dbVars, procVars, histVars, Placid, Windows, Reading, TypeOK
<1>3. ClockInv'
  <2>1. /\ now \in Int /\ srv \in Int /\ Lag \in Int
        /\ cursor # None => cursor \in Int
    BY <1>1, ClockAssumption DEF TypeOK
  <2>2. /\ (srv' = srv + 1 /\ now' = now + 1) \/ (srv' = srv /\ now' = now - 1)
        /\ cursor' = cursor
    BY DEF Tick, StepBack, centricVars, dbVars
  <2>3. QED
    BY <1>1, <2>1, <2>2 DEF Rest, ClockInv
<1>4. OpenInv'
  BY <1>1, <1>2 DEF Rest, OpenInv
<1>5. VersionsInv' /\ LookupInv' /\ \A w \in Windows' : WindowInv(w)'
  BY <1>1, <1>2, PlacidVersions, PlacidWindows, PlacidLookup DEF Rest, LookupInv
<1>6. JudgeInv'
  <2>1. \A w \in Reading : Behind(w)' <=> Behind(w)
    BY <1>1, <1>2, PlacidKeeps, WindowsAre
  <2>2. QED
    BY <1>1, <1>2, <2>1 DEF Rest, JudgeInv, Placid
<1>7. QED
  BY <1>3, <1>4, <1>5, <1>6 DEF Rest

LEMMA SameWindows ==
  ASSUME NEW u, NEW w, SameWindow(u, w)
  PROVE  /\ Listed(u) = Listed(w)
         /\ Behind(u) <=> Behind(w)
         /\ QuietInv(u) <=> QuietInv(w)
         /\ \A i : Old(i, u) <=> Old(i, w)
<1>1. Listed(u) = Listed(w)
  BY DEF SameWindow, Listed
<1>2. \A i : Old(i, u) <=> Old(i, w)
  BY DEF SameWindow, Old, ChangedSince
<1>3. QuietInv(u) <=> QuietInv(w)
  BY DEF SameWindow, QuietInv
<1>4. Behind(u) <=> Behind(w)
  BY <1>1, <1>2 DEF Behind, SameWindow
<1>5. QED
  BY <1>1, <1>2, <1>3, <1>4

LEMMA EndPassStep ==
  ASSUME Inv, EndFirstPass \/ EndLaterPass
  PROVE  Rest'
<1> USE DEF EndFirstPass, EndLaterPass, AtEnd
<1>1. TypeOK /\ Rest /\ pc = "read" /\ check = NoCheck
  BY DEF Inv, MissingIsGone
<1>2. /\ window \in Window /\ window \in Windows /\ window \in Reading /\ WindowInv(window)
  BY <1>1, WindowsAre DEF Rest
<1>3. shifts = 0 => Behind(window)
  BY <1>1, <1>2, EndIsPast DEF WindowInv, Rest, Behind
<1>4. ASSUME NEW complete, Judge(complete),
             window.run \in quiet /\ window.mode = "delta" => complete
      PROVE  Rest'
  <2> USE <1>4 DEF Judge, centricVars, dbVars, histVars
  <2>1. Placid /\ Windows' = Windows /\ Reading' = Reading
    BY <1>1 DEF Placid, Windows, Reading, TypeOK
  <2>2. ClockInv' /\ OpenInv'
    BY <1>1, <2>1 DEF Rest, ClockInv, OpenInv
  <2>3. VersionsInv' /\ LookupInv' /\ \A w \in Windows' : WindowInv(w)'
    BY <1>1, <2>1, PlacidVersions, PlacidWindows, PlacidLookup DEF Rest, NoCheck
  <2>4. JudgeInv'
    <3>1. /\ pc' \in {"confirm", "finish"} /\ check' = NoCheck
          /\ pc' = "confirm" <=> window.mode = "full"
      BY <1>1
    <3>2. pc' = "finish" /\ window.run \in quiet => complete /\ req'.complete = complete
      BY <1>1, <3>1 DEF TypeOK, Window
    <3>3. shifts = 0 => Behind(window)
      BY <1>3
    <3>4. \A w \in Reading' : w = window /\ (Behind(w)' <=> Behind(w))
      BY <1>1, <1>2, <2>1, PlacidKeeps DEF Reading
    <3>5. QED
      BY <3>1, <3>2, <3>3, <3>4 DEF JudgeInv, NoCheck, EmptyPage, Placid
  <2>5. QED
    BY <2>2, <2>3, <2>4 DEF Rest
<1>5. ASSUME NextPass
      PROVE  Rest'
  <2> USE <1>5 DEF NextPass, centricVars, dbVars, histVars
  <2>1. Placid /\ Reading' = {window'} \ {None} /\ Windows' = {window', pending} \ {None}
    BY <1>1 DEF Placid, Windows, Reading, TypeOK
  <2>2. /\ window' = [window EXCEPT !.pass = @ + 1, !.skip = 0, !.fetched = 0]
        /\ SameWindow(window', window) /\ window'.skip = 0
    BY <1>2 DEF Window, SameWindow
  <2>3. ASSUME NEW w \in Windows'
        PROVE  WindowInv(w)'
    <3>1. CASE w \in Windows
      BY <1>1, <2>1, <3>1, PlacidKeeps, WindowsAre DEF Rest
    <3>2. CASE w = window'
      <4>1. SameWindow(w, window) /\ w.skip = 0
        BY <2>2, <3>2
      <4>2. Behind(w) <=> Behind(window)
        BY <4>1, SameWindows
      <4>3. QuietInv(w) /\ Listed(w) = Listed(window) /\ w.start = window.start
        BY <1>2, <4>1, SameWindows DEF WindowInv, SameWindow
      <4>4. \A i \in Listed(w) : ~ (Rank(i, Listed(w)) < 0)
        BY <1>1, ListedOrdered DEF Rest
      <4>5. PositionInv(w)
        BY <1>3, <4>1, <4>2, <4>4 DEF PositionInv
      <4>6. WindowInv(w)
        BY <1>2, <4>3, <4>5 DEF WindowInv
      <4>7. w \in Window
        BY <1>1, <3>2, TypeInductive, WindowsAre DEF TypeOK, Next, Process
      <4>8. QED
        BY <1>1, <2>1, <4>6, <4>7, PlacidKeeps
    <3>3. QED
      BY <2>1, <2>3, <3>1, <3>2 DEF Windows
  <2>4. ClockInv' /\ VersionsInv' /\ LookupInv'
    <3>1. ClockInv' /\ VersionsInv'
      BY <1>1, <2>1, PlacidVersions DEF Rest, ClockInv
    <3>2. check' = NoCheck /\ pc' = "save"
      BY <1>1
    <3>3. QED
      BY <3>1, <3>2 DEF LookupInv, NoCheck, EmptyPage
  <2>5. OpenInv'
    BY <1>1, <1>2, <2>1, <2>2 DEF Rest, OpenInv, SameWindow
  <2>6. JudgeInv'
    BY <1>1 DEF JudgeInv, Judged, NoCheck, EmptyPage
  <2>7. QED
    BY <2>3, <2>4, <2>5, <2>6 DEF Rest
<1>6. CASE EndFirstPass
  <2>1. (Judge(ProvenAtOnce) /\ (window.mode = "delta" => ProvenAtOnce)) \/ NextPass
    BY <1>6 DEF Verify
  <2>2. QED
    BY <1>4, <1>5, <2>1
<1>7. CASE EndLaterPass
  <2>1. Judge(ProvenAgain) \/ NextPass
    BY <1>7
  <2>2. window.run \in quiet => ProvenAgain
    <3>1. window.pass # 1
      BY <1>2, <1>7 DEF Window
    <3>2. QED
      BY <1>1, <1>2, <3>1 DEF Rest, JudgeInv, ProvenAgain
  <2>3. QED
    BY <1>4, <1>5, <2>1, <2>2
<1>8. QED
  BY <1>6, <1>7

LEMMA SavePassStep ==
  ASSUME Inv, SavePass
  PROVE  Rest'
<1> USE DEF SavePass, centricVars, histVars
<1>1. TypeOK /\ Rest /\ check = NoCheck /\ window # None
  BY WindowsAre DEF Inv, MissingIsGone
<1>2. Placid /\ Windows' \subseteq Windows /\ Reading' = Reading /\ Reading = {window}
  BY <1>1 DEF Placid, Windows, Reading, TypeOK
<1>3. ClockInv' /\ OpenInv'
  BY <1>1, <1>2 DEF Rest, ClockInv, OpenInv, SameWindow
<1>4. VersionsInv' /\ LookupInv' /\ \A w \in Windows' : WindowInv(w)'
  BY <1>1, <1>2, PlacidVersions, PlacidWindows, PlacidLookup DEF Rest
<1>5. JudgeInv'
  <2>1. pc' = "read" /\ ~pass'.late /\ check' = NoCheck
    BY <1>1 DEF NoPass
  <2>2. QED
    BY <2>1 DEF JudgeInv, Judged, NoCheck, EmptyPage
<1>6. QED
  BY <1>3, <1>4, <1>5 DEF Rest

LEMMA ConfirmUnseenStep ==
  ASSUME Inv, ConfirmUnseen
  PROVE  Rest'
<1> USE DEF ConfirmUnseen, centricVars, dbVars, histVars
<1>1. TypeOK /\ Rest /\ pc = "confirm" /\ check = NoCheck
  BY DEF Inv, MissingIsGone
<1>2. Placid /\ Windows' = Windows /\ Reading' = Reading
  BY <1>1 DEF Placid, Windows, Reading, TypeOK
<1>3. /\ pc' \in {"lookup", "finish"} /\ req' = req
      /\ check'.missing = {} /\ DOMAIN check'.found = {}
      /\ pc' = "finish" => check'.todo = {}
  BY <1>1 DEF NoCheck, EmptyPage
<1>4. ClockInv' /\ OpenInv' /\ \A w \in Windows' : WindowInv(w)'
  BY <1>1, <1>2, PlacidWindows DEF Rest, ClockInv, OpenInv
<1>5. VersionsInv'
  BY <1>1, <1>2, <1>3 DEF Rest, VersionsInv, Placid
<1>6. LookupInv'
  BY <1>3 DEF LookupInv
<1>7. JudgeInv'
  <2>1. ASSUME NEW w \in Reading'
        PROVE  /\ w = window /\ w \in Reading /\ (Behind(w)' <=> Behind(w))
    BY <1>1, <1>2, <2>1, WindowsAre, PlacidKeeps DEF Reading
  <2>2. window.mode = "full" /\ (shifts = 0 => Behind(window))
    BY <1>1, WindowsAre DEF Rest, JudgeInv, Judged
  <2>3. ASSUME window.run \in quiet, req.any, NEW i \in Ids, centric[i] = None, Active(bronze[i])
        PROVE  i \in check'.todo
    <3>1. QuietInv(window)
      BY <1>1, WindowsAre DEF Rest, WindowInv
    <3>2. bronze[i].seen # window.run /\ DOMAIN bronze = Ids
      BY <1>1, <2>3, <3>1 DEF QuietInv, Active, TypeOK
    <3>3. i \in UnseenIds(bronze, window.run)
      BY <2>3, <3>2 DEF UnseenIds
    <3>4. QED
      BY <1>1, <2>3, <3>3 DEF NoCheck
  <2>4. QED
    BY <1>2, <1>3, <2>1, <2>2, <2>3 DEF JudgeInv, Placid
<1>8. QED
  BY <1>4, <1>5, <1>6, <1>7 DEF Rest

LEMMA LookupStep ==
  ASSUME Inv, Lookup
  PROVE  Rest'
<1>1. TypeOK /\ Rest /\ pc = "lookup" /\ window # None /\ window \in Window
  BY WindowsAre DEF Inv, Lookup, TypeOK
<1>2. PICK batch \in SUBSET check.todo :
        LET found == {i \in batch : centric[i] # None}
        IN  /\ check' = [todo    |-> check.todo \ batch,
                         found   |-> Merge([i \in found |-> centric[i]], check.found),
                         missing |-> check.missing \cup (batch \ found)]
            /\ pc' = IF batch = check.todo THEN "finish" ELSE "lookup"
  BY DEF Lookup
<1> DEFINE found == {i \in batch : centric[i] # None}
<1>3. /\ check'.todo = check.todo \ batch
      /\ check'.missing = check.missing \cup (batch \ found)
      /\ check'.found = Merge([i \in found |-> centric[i]], check.found)
      /\ pc' \in {"lookup", "finish"} /\ (pc' = "finish" => batch = check.todo)
  BY <1>2
<1>4. /\ found \subseteq Ids /\ DOMAIN check.found \subseteq Ids /\ check.todo \subseteq Ids
      /\ \A i \in found : centric[i] # None
  BY <1>1 DEF TypeOK, IsPage
<1>5. /\ DOMAIN check'.found = found \cup DOMAIN check.found
      /\ \A i \in DOMAIN check'.found :
           \/ i \in found /\ check'.found[i] = centric[i]
           \/ i \in DOMAIN check.found /\ check'.found[i] = check.found[i]
  BY <1>3 DEF Merge
<1> HIDE DEF found
<1>6. /\ Placid /\ Windows' = Windows /\ Reading' = Reading /\ Reading = {window}
      /\ UNCHANGED <<centric, window, req, cursor, pending, now, quiet>>
  BY <1>1 DEF Lookup, centricVars, dbVars, histVars, Placid, Windows, Reading, TypeOK
<1>7. ClockInv' /\ OpenInv' /\ \A w \in Windows' : WindowInv(w)'
  <2>1. ClockInv'
    BY <1>1 DEF Lookup, centricVars, dbVars, Rest, ClockInv
  <2>2. OpenInv'
    BY <1>1, <1>6 DEF Rest, OpenInv, SameWindow
  <2>3. \A w \in Windows' : WindowInv(w)'
    BY <1>1, <1>6, PlacidWindows DEF Rest
  <2>4. QED
    BY <2>1, <2>2, <2>3
<1>8. VersionsInv'
  <2>1. \A i \in DOMAIN check'.found : Known(check'.found[i], centric[i], rev, srv)
    BY <1>1, <1>4, <1>5 DEF Rest, VersionsInv
  <2>2. UNCHANGED <<centric, rev, srv, bronze>>
    BY DEF Lookup, centricVars, dbVars
  <2>3. QED
    BY <1>1, <2>1, <2>2 DEF Rest, VersionsInv
<1>9. \A w \in Reading' : /\ w = window /\ (Behind(w)' <=> Behind(w))
                          /\ \A i \in Ids : Old(i, w)' <=> Old(i, w)
  BY <1>1, <1>6, PlacidKeeps
<1>10. LookupInv'
  <2>1. /\ \A i \in check.missing : centric[i] # None => ~Old(i, window)
        /\ \A i \in DOMAIN check.found :
             centric[i] # None /\ Old(i, window) => check.found[i] = centric[i]
        /\ check.missing \subseteq Ids
    BY <1>1, <1>6 DEF Rest, LookupInv, TypeOK
  <2>2. \A i \in check'.missing : i \in Ids /\ (centric[i] # None => ~Old(i, window))
    BY <1>3, <1>4, <2>1 DEF found
  <2>3. \A i \in DOMAIN check'.found :
          i \in Ids /\ (centric[i] # None /\ Old(i, window) => check'.found[i] = centric[i])
    BY <1>4, <1>5, <2>1
  <2>4. pc' = "finish" => check'.todo = {}
    BY <1>3
  <2>5. QED
    BY <1>6, <1>9, <2>2, <2>3, <2>4 DEF LookupInv
<1>11. JudgeInv'
  <2>1. /\ shifts = 0 => Behind(window)
        /\ window.mode = "full"
        /\ window.run \in quiet =>
             /\ \A i \in DOMAIN check.found : centric[i] # None
             /\ req.any => \A i \in Ids : centric[i] = None /\ Active(bronze[i])
                                           => i \in check.todo \cup check.missing
    BY <1>1, <1>6 DEF Rest, JudgeInv, Judged
  <2>2. window.run \in quiet => \A i \in DOMAIN check'.found : centric[i] # None
    BY <1>4, <1>5, <2>1
  <2>3. window.run \in quiet /\ req.any =>
          \A i \in Ids : centric[i] = None /\ Active(bronze[i])
                           => i \in check'.todo \cup check'.missing
    BY <1>3, <2>1 DEF found
  <2>4. QED
    BY <1>3, <1>6, <1>9, <2>1, <2>2, <2>3 DEF JudgeInv, Placid
<1>12. QED
  BY <1>7, <1>8, <1>10, <1>11 DEF Rest

LEMMA RejectStep ==
  ASSUME Inv, Reject
  PROVE  Rest'
<1>1. TypeOK /\ Rest
  BY DEF Inv
<1>2. /\ Windows' = {} /\ Reading' = {} /\ pc' = "idle" /\ check' = NoCheck
      /\ UNCHANGED <<centric, rev, srv, now, bronze, cursor>>
  BY DEF Reject, Windows, Reading, centricVars
<1>3. VersionsInv'
  BY <1>1, <1>2 DEF Rest, VersionsInv, NoCheck, EmptyPage
<1>4. QED
  BY <1>1, <1>2, <1>3 DEF Rest, ClockInv, OpenInv, LookupInv, JudgeInv

(* A resumed window is the one that was saved; a new one has read nothing  *)
(* and bears a run no row bears.                                           *)
LEMMA StartStep ==
  ASSUME Inv, AnyStart
  PROVE  Rest'
<1>1. TypeOK /\ Rest /\ pc = "idle" /\ check = NoCheck
  BY DEF Inv, MissingIsGone, AnyStart, Start, Open
<1>2. PICK full \in BOOLEAN, restart \in BOOLEAN, allow \in BOOLEAN, run \in Unused :
        /\ Open(run, full, restart, allow)
        /\ quiet' = IF Resumes(full, restart) THEN quiet ELSE {run}
  BY DEF AnyStart, Start
<1>3. /\ pending' = Opened(run, full, restart) /\ window' = pending'
      /\ shifts' = IF Resumes(full, restart) THEN shifts ELSE 0
      /\ pc' = "count" /\ check' = NoCheck
      /\ UNCHANGED <<centric, rev, srv, now, bronze, cursor>>
  BY <1>1, <1>2 DEF Open, centricVars
<1>4. run \in RunIds \ Used
  BY DEF Unused
<1>5. pending' \in Window /\ pending' # None
  BY <1>1, <1>3, <1>4, OpenedType, WindowNotNone
<1>6. Windows' = {pending'} /\ Reading' = {pending'}
  BY <1>3, <1>5 DEF Windows, Reading
<1>7. ClockInv' /\ VersionsInv' /\ OpenInv'
  BY <1>1, <1>3, <1>5, <1>6 DEF Rest, ClockInv, VersionsInv, OpenInv, SameWindow
<1>8. LookupInv' /\ JudgeInv'
  BY <1>3 DEF LookupInv, JudgeInv, Judged, NoCheck, EmptyPage
<1>9. ASSUME NEW w, w = pending'
      PROVE  WindowInv(w)'
  <2>1. CASE Resumes(full, restart)
    <3>1. /\ pending \in Windows /\ pending \in Window /\ w = Resumed(pending)
          /\ quiet' = quiet /\ shifts' = shifts
      BY <1>1, <1>2, <1>3, <1>9, <2>1 DEF Resumes, Opened, Windows, TypeOK
    <3>2. Placid
      BY <1>1, <1>3, <3>1 DEF Placid, TypeOK
    <3>3. WindowInv(pending)
      BY <1>1, <3>1 DEF Rest
    <3>4. w \in Window /\ SameWindow(w, pending) /\ w.pass = pending.pass
          /\ (w = pending \/ w.skip = 0)
      BY <1>5, <1>9, <3>1 DEF Resumed, SameWindow, Window
    <3>5. WindowInv(w)
      <4>1. CASE w = pending
        BY <3>3, <4>1
      <4>2. CASE w.skip = 0
        <5>1. \A i \in Listed(w) : ~ (Rank(i, Listed(w)) < 0)
          BY <1>1, ListedOrdered DEF Rest
        <5>2. PositionInv(w)
          BY <3>3, <3>4, <4>2, <5>1, SameWindows DEF WindowInv, PositionInv
        <5>3. QED
          BY <3>3, <3>4, <5>2, SameWindows DEF WindowInv, SameWindow
      <4>3. QED
        BY <3>4, <4>1, <4>2
    <3>6. QED
      BY <1>1, <3>2, <3>4, <3>5, PlacidKeeps
  <2>2. CASE ~Resumes(full, restart)
    <3>1. /\ w.run = run /\ w.start = now /\ w.skip = 0 /\ w.pass = 1
          /\ shifts' = 0
      BY <1>3, <1>9, <2>2 DEF Opened, NewWindow
    <3>2. \A i \in Ids : bronze[i] # None => bronze[i].seen # run
      BY <1>4 DEF Used
    <3>3. QuietInv(w)'
      BY <1>3, <3>1, <3>2 DEF QuietInv
    <3>4. \A i \in Listed(w) : ~ (Rank(i, Listed(w)) < 0)
      BY <1>1, ListedOrdered DEF Rest
    <3>5. PositionInv(w)'
      <4>1. Listed(w)' = Listed(w) /\ \A i, S : Rank(i, S)' = Rank(i, S)
        BY <1>3 DEF Listed, Rank
      <4>2. QED
        BY <3>1, <3>4, <4>1 DEF PositionInv
    <3>6. w.start <= srv' + Lag
      BY <1>1, <1>3, <3>1 DEF Rest, ClockInv
    <3>7. QED
      BY <3>3, <3>5, <3>6 DEF WindowInv
  <2>3. QED
    BY <2>1, <2>2
<1>10. QED
  BY <1>6, <1>7, <1>8, <1>9 DEF Rest

(* A record written over a row that is not newer leaves a known version,   *)
(* and Centric's own one leaves that one.                                  *)
LEMMA UpsertKnown ==
  ASSUME NEW row \in Rows(RunIds), NEW v, NEW run \in RunIds, NEW current,
         v.mod \in Int, v.rev \in Nat,
         row # None => Known(row, current, rev, srv), Known(v, current, rev, srv)
  PROVE  /\ Known(Upsert(row, v, run), current, rev, srv)
         /\ Upsert(row, v, run) # None
         /\ ~Upsert(row, v, run).deleted /\ Upsert(row, v, run).seen = run
         /\ current # None /\ v = current
              => Upsert(row, v, run).mod = v.mod /\ Upsert(row, v, run).rev = v.rev
<1> DEFINE new == Upsert(row, v, run)
<1>1. CASE row = None \/ Replaces(v, row)
  <2>1. new = NewRow(v, run)
    BY <1>1 DEF Upsert
  <2>2. new \in RowOf(RunIds) /\ new.mod = v.mod /\ new.rev = v.rev
        /\ ~new.deleted /\ new.seen = run
    BY <2>1 DEF NewRow, RowOf
  <2> HIDE DEF new
  <2>3. new # None
    BY <2>2, NoneAssumption
  <2>4. Known(new, current, rev, srv)
    BY <2>2 DEF Known, Older
  <2>5. QED
    BY <2>2, <2>3, <2>4 DEF new
<1>2. CASE row # None /\ ~Replaces(v, row)
  <2>1. row \in RowOf(RunIds) /\ row.mod \in Int /\ row.rev \in Nat
    BY <1>2 DEF Rows, RowOf
  <2>2. new = [row EXCEPT !.deleted = FALSE, !.seen = run]
    BY <1>2 DEF Upsert
  <2>3. new \in RowOf(RunIds) /\ new.mod = row.mod /\ new.rev = row.rev
        /\ ~new.deleted /\ new.seen = run
    BY <2>1, <2>2 DEF RowOf
  <2>4. v.mod < row.mod \/ v.rev = row.rev
    BY <1>2, <2>1 DEF Replaces
  <2> HIDE DEF new
  <2>5. new # None
    BY <2>3, NoneAssumption
  <2>6. Known(new, current, rev, srv)
    BY <1>2, <2>3 DEF Known, Older
  <2>7. current # None /\ v = current => row.mod = v.mod /\ row.rev = v.rev
    BY <1>2, <2>1, <2>4 DEF Known, Older
  <2>8. QED
    BY <2>3, <2>5, <2>6, <2>7 DEF new
<1>3. QED
  BY <1>1, <1>2

(* A page stores the records it holds as Centric has them.                 *)
LEMMA PageStores ==
  ASSUME TypeOK, VersionsInv, MissingIsGone, ReadPage, NEW run, run = window.run
  PROVE  /\ \A i \in DOMAIN Page(window) : Stored(i, run)'
         /\ \A i \in Ids : i \notin DOMAIN Page(window) => bronze'[i] = bronze[i]
         /\ \A i \in Ids : Current(i) => Current(i)'
         /\ \A i \in Ids : Stored(i, run) => Stored(i, run)'
         /\ VersionsInv'
<1>1. TypeOK /\ VersionsInv /\ run \in RunIds /\ check = NoCheck
  BY WindowsAre DEF ReadPage, TypeOK, Window, MissingIsGone
<1> DEFINE page == Page(window)
<1>2. /\ bronze' = ApplyPage(bronze, page, run)
      /\ UNCHANGED <<centric, rev, srv, check>>
  BY DEF ReadPage, centricVars
<1>3. DOMAIN page \subseteq Ids /\ \A i \in DOMAIN page : page[i] = centric[i] /\ centric[i] # None
  BY <1>1, PageType DEF Listed, IsPage
<1>4. /\ \A i \in DOMAIN page : bronze'[i] = Upsert(bronze[i], centric[i], run)
      /\ \A i \in Ids : i \notin DOMAIN page => bronze'[i] = bronze[i]
  <2>1. DOMAIN bronze = Ids
    BY <1>1 DEF TypeOK
  <2> HIDE DEF page
  <2>2. QED
    BY <1>2, <1>3, <2>1 DEF ApplyPage
<1>5. ASSUME NEW i \in DOMAIN page
      PROVE  /\ Known(bronze'[i], centric[i], rev, srv)
             /\ bronze'[i] # None /\ ~bronze'[i].deleted /\ bronze'[i].seen = run
             /\ bronze'[i].mod = centric[i].mod /\ bronze'[i].rev = centric[i].rev
  <2> HIDE DEF page
  <2>1. i \in Ids /\ centric[i] # None /\ bronze'[i] = Upsert(bronze[i], centric[i], run)
    BY <1>3, <1>4, <1>5
  <2>2. bronze[i] \in Rows(RunIds) /\ centric[i].mod \in Int /\ centric[i].rev \in Nat
    BY <1>1, <2>1, VersionTypes DEF TypeOK
  <2>3. (bronze[i] # None => Known(bronze[i], centric[i], rev, srv))
        /\ Known(centric[i], centric[i], rev, srv)
    BY <1>1, <2>1 DEF VersionsInv
  <2>4. QED
    BY <1>1, <2>1, <2>2, <2>3, UpsertKnown
<1>6. \A i \in DOMAIN page : Stored(i, run)'
  BY <1>2, <1>5 DEF Stored, Current, Active
<1>7. \A i \in Ids : Current(i) => Current(i)'
  BY <1>2, <1>4, <1>5 DEF Current, Active
<1>8. \A i \in Ids : Stored(i, run) => Stored(i, run)'
  BY <1>4, <1>5, <1>7 DEF Stored
<1>9. VersionsInv'
  <2>1. \A i \in Ids : bronze'[i] # None => Known(bronze'[i], centric[i], rev, srv)
    BY <1>1, <1>4, <1>5 DEF VersionsInv
  <2>2. QED
    BY <1>1, <1>2, <2>1 DEF VersionsInv
<1>10. QED
  BY <1>4, <1>6, <1>7, <1>8, <1>9 DEF page

LEMMA ReadPageStores ==
  ASSUME Inv, ReadPage, NEW run, run = window.run
  PROVE  /\ \A i \in DOMAIN Page(window) : Stored(i, run)'
         /\ \A i \in Ids : i \notin DOMAIN Page(window) => bronze'[i] = bronze[i]
         /\ \A i \in Ids : Current(i) => Current(i)'
         /\ \A i \in Ids : Stored(i, run) => Stored(i, run)'
         /\ VersionsInv'
BY PageStores DEF Inv, Rest

LEMMA ReadPagePosition ==
  ASSUME Inv, ReadPage, shifts = 0, NEW w, w = window'
  PROVE  PositionInv(w)'
<1>1. TypeOK /\ VersionsInv /\ window \in Window /\ PositionInv(window)
  BY WindowsAre DEF Inv, ReadPage, Rest, WindowInv
<1> DEFINE n == Cardinality(DOMAIN Page(window))
           L == Listed(window)
<1>2. window.skip \in Nat /\ Limit \in Nat \ {0} /\ rev \in Nat /\ Ordered(centric, L, rev)
  BY <1>1, LimitAssumption, ListedOrdered DEF Window
<1>3. DOMAIN Page(window) = Ranked(centric, L, window.skip, Limit)
  BY DEF Page, Ranked, Rank, Below
<1>4. n \in Nat /\ n <= Limit
  BY <1>2, <1>3, PageFits
<1>5. \E i \in L : Rank(i, L) >= window.skip + n - 1
  <2>1. \E i \in Ranked(centric, L, window.skip, Limit) : Rank(i, L) >= window.skip + n - 1
    BY <1>1, <1>2, <1>3, PageReaches, ListedOrdered DEF ReadPage
  <2>2. QED
    BY <2>1 DEF Ranked
<1>6. w.skip = window.skip + n /\ w.pass = window.pass /\ SameWindow(w, window) /\ w.run = window.run
  BY <1>1, <1>4 DEF ReadPage, Window, SameWindow
<1>7. centric' = centric /\ cursor' = cursor /\ quiet' = quiet
  BY DEF ReadPage, centricVars, histVars
<1>8. Listed(w)' = L /\ \A i, S : Rank(i, S)' = Rank(i, S)
  BY <1>6, <1>7 DEF Listed, SameWindow, Rank
<1>9. \A i \in L : i \in Ids /\ Rank(i, L) \in Nat
  BY <1>1, ListedOrdered DEF Listed
<1>10. \A i \in Ids : Stored(i, w.run) => Stored(i, w.run)'
  BY <1>6, ReadPageStores
<1>11. \A i \in L : Rank(i, L) < w.skip => Stored(i, w.run)'
  <2>1. SUFFICES ASSUME NEW i \in L, Rank(i, L) < window.skip + n
                 PROVE  Stored(i, w.run)'
    BY <1>6
  <2>2. CASE Rank(i, L) < window.skip
    BY <1>1, <1>6, <1>9, <1>10, <2>2 DEF PositionInv
  <2>3. CASE Rank(i, L) >= window.skip
    <3>1. i \in DOMAIN Page(window)
      <4>1. Rank(i, L) \in window.skip .. (window.skip + Limit - 1)
        BY <1>2, <1>4, <1>9, <2>1, <2>3
      <4>2. QED
        BY <4>1 DEF Page
    <3>2. QED
      BY <1>6, <3>1, ReadPageStores
  <2>4. QED
    BY <1>2, <1>9, <2>2, <2>3
<1>12. w.pass # 1 => Behind(w)'
  <2>1. \A i : Old(i, w)' <=> Old(i, window)
    BY <1>6, <1>7 DEF Old, SameWindow, ChangedSince
  <2>2. w.pass # 1 => Behind(window)
    BY <1>1, <1>6 DEF PositionInv
  <2>3. QED
    BY <1>6, <1>8, <1>9, <1>10, <2>1, <2>2 DEF Behind
<1> HIDE DEF n, L
<1>13. \E i \in L : Rank(i, L) >= w.skip - 1
  BY <1>2, <1>4, <1>5, <1>6
<1>14. QED
  BY <1>8, <1>11, <1>12, <1>13 DEF PositionInv

LEMMA ReadPageStep ==
  ASSUME Inv, ReadPage
  PROVE  Rest'
<1>1. TypeOK /\ Rest /\ window \in Window /\ WindowInv(window) /\ check = NoCheck /\ window \in Reading
  BY WindowsAre DEF Inv, ReadPage, Rest, MissingIsGone
<1>2. /\ SameWindow(window', window) /\ pending' = window' /\ window'.pass = window.pass
      /\ pc' \in {"reject", "read"}
      /\ UNCHANGED <<centric, rev, srv, now, cursor, check, shifts, quiet>>
  BY <1>1 DEF ReadPage, Window, SameWindow, centricVars, histVars
<1>3. window' # None
  BY <1>1, TypeInductive, <1>2 DEF Next, Process, TypeOK
<1>4. Windows' = {window'} /\ Reading' = {window'}
  BY <1>2, <1>3 DEF Windows, Reading
<1>5. ClockInv' /\ OpenInv' /\ VersionsInv'
  BY <1>1, <1>2, <1>3, <1>4, ReadPageStores DEF Rest, ClockInv, OpenInv, SameWindow
<1>6. LookupInv'
  BY <1>1, <1>2 DEF LookupInv, NoCheck, EmptyPage
<1>7. ASSUME NEW w, w = window'
      PROVE  WindowInv(w)'
  <2>1. w.start <= srv' + Lag
    BY <1>1, <1>2, <1>7 DEF WindowInv, SameWindow
  <2>2. QuietInv(w)'
    <3>1. w.run = window.run
      BY <1>2, <1>7 DEF SameWindow
    <3>2. DOMAIN Page(window) \subseteq Ids /\ \A i \in DOMAIN Page(window) : centric[i] # None
      BY <1>1, PageType DEF Listed, IsPage
    <3>3. QED
      BY <1>1, <1>2, <3>1, <3>2, ReadPageStores DEF WindowInv, QuietInv
  <2>3. PositionInv(w)'
    BY <1>2, <1>7, ReadPagePosition DEF PositionInv
  <2>4. QED
    BY <2>1, <2>2, <2>3 DEF WindowInv
<1>8. JudgeInv'
  <2>1. ASSUME window.run \in quiet, window.pass # 1
        PROVE  ~pass'.late
    <3>1. ~pass.late
      BY <1>1, <2>1 DEF Rest, JudgeInv, ReadPage
    <3>2. Behind(window)
      BY <1>1, <2>1 DEF WindowInv, QuietInv, PositionInv
    <3>3. \A i \in DOMAIN Page(window) : Stored(i, window.run)
      BY <1>1, <2>1, <3>2, PageType DEF Behind, Old
    <3>4. LateFinds(bronze, Page(window), window.run, window.start) = {}
      BY <3>3 DEF LateFinds, Stored, Current, Active
    <3>5. pass'.late = (pass.late \/ /\ window.pass > 1
                                     /\ LateFinds(bronze, Page(window), window.run, window.start) # {})
      BY <1>1, NothingInMemory DEF ReadPage, TypeOK
    <3>6. QED
      BY <3>1, <3>4, <3>5
  <2>2. \A w \in Reading' : w = window' /\ w.run = window.run
    BY <1>2, <1>4 DEF SameWindow
  <2>3. QED
    BY <1>1, <1>2, <2>1, <2>2 DEF JudgeInv, Judged, NoCheck, EmptyPage
<1>9. QED
  BY <1>4, <1>5, <1>6, <1>7, <1>8 DEF Rest

(* What is stored as Centric has it, was found so if it was looked up, and *)
(* was not missed.                                                         *)
Settled(i) == /\ Current(i) /\ i \notin check.missing
              /\ i \in DOMAIN check.found => check.found[i] = centric[i]

(* What the lookup found is stored over known rows, and flagging a row     *)
(* leaves its version.                                                     *)
LEMMA RowFinished ==
  ASSUME TypeOK, VersionsInv, Finish, NEW i \in Ids
  PROVE  /\ bronze'[i] # None => Known(bronze'[i], centric[i], rev, srv)
         /\ Settled(i) /\ centric[i] # None => Current(i)'
         /\ i \notin DOMAIN check.found /\ ~Active(bronze[i]) => ~Active(bronze'[i])
         /\ i \notin DOMAIN check.found /\ i \in check.missing /\ req.allow => ~Active(bronze'[i])
         /\ bronze'[i] # None => bronze'[i].seen = window.run \/
                                  (bronze[i] # None /\ bronze'[i].seen = bronze[i].seen)
<1>1. window.run \in RunIds
  BY WindowsAre DEF Finish, TypeOK, Window
<1> DEFINE row == IF i \in DOMAIN check.found
                  THEN Upsert(bronze[i], check.found[i], window.run) ELSE bronze[i]
           flag == req.allow /\ i \in check.missing /\ Active(row)
<1>2. bronze'[i] = IF flag THEN [row EXCEPT !.deleted = TRUE] ELSE row
  BY DEF Finish, ApplyPage, MarkDeleted, TypeOK
<1>3. /\ bronze[i] \in Rows(RunIds)
      /\ bronze[i] # None => Known(bronze[i], centric[i], rev, srv)
  BY DEF TypeOK, VersionsInv
<1>4. ASSUME i \in DOMAIN check.found
      PROVE  /\ row \in RowOf(RunIds) /\ Known(row, centric[i], rev, srv)
             /\ row.seen = window.run
             /\ centric[i] # None /\ Settled(i) =>
                  ~row.deleted /\ row.mod = centric[i].mod /\ row.rev = centric[i].rev
  <2>1. check.found[i] \in Version /\ Known(check.found[i], centric[i], rev, srv)
    BY <1>4 DEF TypeOK, IsPage, VersionsInv
  <2>2. row = Upsert(bronze[i], check.found[i], window.run)
    BY <1>4
  <2>3. check.found[i].mod \in Int /\ check.found[i].rev \in Nat
    BY <2>1 DEF Version
  <2>4. Settled(i) => check.found[i] = centric[i]
    BY <1>4 DEF Settled
  <2>5. row \in RowOf(RunIds)
    BY <1>1, <1>3, <2>1, <2>2, UpsertType
  <2> HIDE DEF row
  <2>6. QED
    BY <1>1, <1>3, <2>1, <2>2, <2>3, <2>4, <2>5, UpsertKnown
<1>5. i \notin DOMAIN check.found => row = bronze[i]
  OBVIOUS
<1>6. row \in Rows(RunIds) /\ (row # None => Known(row, centric[i], rev, srv))
  BY <1>3, <1>4, <1>5 DEF Rows
<1> HIDE DEF row
<1>7. flag => /\ row # None /\ row \in RowOf(RunIds)
              /\ bronze'[i].mod = row.mod /\ bronze'[i].rev = row.rev /\ bronze'[i].deleted
              /\ bronze'[i].seen = row.seen
  BY <1>2, <1>6 DEF Active, Rows, RowOf
<1>8. bronze'[i] # None => Known(bronze'[i], centric[i], rev, srv)
  BY <1>2, <1>6, <1>7 DEF Known, Older
<1>9. ASSUME Settled(i), centric[i] # None
      PROVE  Current(i)'
  <2>1. ~flag
    BY <1>9 DEF Settled
  <2>2. row # None /\ ~row.deleted /\ row.mod = centric[i].mod /\ row.rev = centric[i].rev
    BY <1>4, <1>5, <1>9, NoneAssumption DEF Settled, Current, Active
  <2>3. centric' = centric
    BY DEF Finish, centricVars
  <2>4. QED
    BY <1>2, <2>1, <2>2, <2>3 DEF Current, Active
<1>10. i \notin DOMAIN check.found /\ ~Active(bronze[i]) => ~Active(bronze'[i])
  BY <1>2, <1>5
<1>11. i \notin DOMAIN check.found /\ i \in check.missing /\ req.allow => ~Active(bronze'[i])
  BY <1>2, <1>7 DEF Active
<1>12. bronze'[i] # None => bronze'[i].seen = window.run \/
                            (bronze[i] # None /\ bronze'[i].seen = bronze[i].seen)
  BY <1>2, <1>4, <1>5, <1>7
<1>13. QED
  BY <1>8, <1>9, <1>10, <1>11, <1>12

LEMMA FinishStores ==
  ASSUME Inv, Finish, NEW i \in Ids
  PROVE  /\ bronze'[i] # None => Known(bronze'[i], centric[i], rev, srv)
         /\ Current(i) /\ Old(i, window) /\ centric[i] # None => Current(i)'
         /\ i \notin DOMAIN check.found /\ ~Active(bronze[i]) => ~Active(bronze'[i])
         /\ i \notin DOMAIN check.found /\ i \in check.missing /\ req.allow => ~Active(bronze'[i])
<1>1. TypeOK /\ Rest /\ window \in Reading
  BY WindowsAre DEF Inv, Finish
<1>2. Current(i) /\ Old(i, window) /\ centric[i] # None => Settled(i)
  BY <1>1 DEF Settled, Rest, LookupInv
<1>3. QED
  BY <1>1, <1>2, RowFinished DEF Rest

LEMMA FinishStep ==
  ASSUME Inv, Finish
  PROVE  Rest'
<1>1. TypeOK /\ Rest /\ window \in Windows
  BY WindowsAre DEF Inv, Finish
<1>2. /\ Windows' = {} /\ Reading' = {} /\ pc' = "idle" /\ check' = NoCheck
      /\ cursor' \in {window.start, cursor}
      /\ UNCHANGED <<centric, rev, srv, now>>
  BY DEF Finish, NextCursor, Windows, Reading, centricVars
<1>3. ClockInv'
  BY <1>1, <1>2 DEF Rest, ClockInv, WindowInv
<1>4. \A i \in Ids : bronze'[i] # None => Known(bronze'[i], centric[i], rev, srv)
  BY FinishStores
<1>5. VersionsInv'
  BY <1>1, <1>2, <1>4 DEF Rest, VersionsInv, NoCheck, EmptyPage
<1>6. QED
  BY <1>2, <1>3, <1>5 DEF Rest, OpenInv, LookupInv, JudgeInv

-----------------------------------------------------------------------------
(* Centric's steps.  A changed record is not old in any window, and as     *)
(* long as shifts stays 0 it is not one the open window lists.             *)

LEMMA ChangedCentric ==
  ASSUME TypeOK, NEW i \in Ids, Create(i) \/ Edit(i) \/ Delete(i)
  PROVE  /\ rev' = rev + 1 /\ quiet' = {}
         /\ UNCHANGED <<srv, now, bronze, cursor, pending, pc, window, req, pass, check>>
         /\ DOMAIN centric' = Ids /\ \A j \in Ids : j # i => centric'[j] = centric[j]
         /\ centric'[i] # None => centric'[i].mod = srv /\ centric'[i].rev = rev + 1
<1>1. centric' = [centric EXCEPT ![i] = [mod |-> srv, rev |-> rev + 1]]
      \/ centric' = [centric EXCEPT ![i] = None]
  BY DEF Create, Edit, Delete
<1>2. QED
  BY <1>1 DEF TypeOK, Create, Edit, Delete, dbVars, procVars

LEMMA ChangedRecord ==
  ASSUME Inv, NEW i \in Ids, Create(i) \/ Edit(i) \/ Delete(i)
  PROVE  /\ rev' = rev + 1 /\ quiet' = {}
         /\ UNCHANGED <<srv, now, bronze, cursor, pending, pc, window, req, pass, check>>
         /\ DOMAIN centric' = Ids /\ \A j \in Ids : j # i => centric'[j] = centric[j]
         /\ centric'[i] # None => centric'[i].mod = srv /\ centric'[i].rev = rev + 1
         /\ \/ shifts' = shifts /\ \A w \in Windows : i \notin Listed(w)
            \/ shifts' = shifts + 1
<1>1. TypeOK /\ Rest
  BY DEF Inv
<1>5. \/ shifts' = shifts /\ (pending # None => i \notin Listed(pending))
      \/ shifts' = shifts + 1
  BY DEF Create, Edit, Delete, Shift, Listed
<1>6. \A w \in Windows : pending # None /\ Listed(w) = Listed(pending)
  BY <1>1, SameWindows DEF Rest, OpenInv, Windows, Reading
<1>7. QED
  BY <1>1, <1>5, <1>6, ChangedCentric

(* What was old stays so, as it was, and what changes is not.              *)
LEMMA OldStays ==
  ASSUME Inv, NEW i \in Ids, Create(i) \/ Edit(i) \/ Delete(i), NEW w \in Window,
         w.start <= srv + Lag, NEW j \in Ids, centric'[j] # None, Old(j, w)'
  PROVE  j # i /\ centric'[j] = centric[j] /\ Old(j, w)
<1>1. /\ quiet' = {} /\ cursor' = cursor /\ (j # i => centric'[j] = centric[j])
      /\ centric'[i] # None => centric'[i].mod = srv
  BY ChangedRecord
<1>2. centric'[j].mod < w.start - Overlap \/ (cursor # None /\ centric'[j].mod < cursor - Overlap)
  BY <1>1 DEF Old, ChangedSince
<1>3. TypeOK /\ ClockInv
  BY DEF Inv, Rest
<1>4. /\ srv \in Int /\ Overlap \in Int /\ Lag \in Int /\ Lag <= Overlap /\ w.start \in Int
      /\ cursor # None => cursor \in Int /\ cursor <= srv + Lag
  BY <1>3, ClockAssumption DEF TypeOK, ClockInv, Window
<1>5. j # i
  BY <1>1, <1>2, <1>4
<1>6. QED
  BY <1>1, <1>2, <1>5 DEF Old, ChangedSince

LEMMA ChangedVersions ==
  ASSUME TypeOK, VersionsInv, NEW i \in Ids, Create(i) \/ Edit(i) \/ Delete(i)
  PROVE  VersionsInv'
<1>1. TypeOK /\ VersionsInv /\ rev \in Nat /\ srv \in Int
  BY DEF TypeOK
<1>2. ASSUME NEW v, NEW j \in Ids, v.mod \in Int, v.rev \in Nat, Known(v, centric[j], rev, srv)
      PROVE  Known(v, centric'[j], rev + 1, srv)
  <2>1. v.rev <= rev + 1 /\ v.mod <= srv /\ v.rev # rev + 1
    BY <1>1, <1>2 DEF Known
  <2>2. CASE j = i
    BY <2>1, <2>2, ChangedCentric DEF Known, Older
  <2>3. CASE j # i
    BY <1>2, <2>1, <2>3, ChangedCentric DEF Known
  <2>4. QED
    BY <2>2, <2>3
<1>3. \A j \in Ids : bronze[j] # None => Known(bronze[j], centric'[j], rev + 1, srv)
  BY <1>1, <1>2, VersionTypes DEF VersionsInv
<1>4. \A j \in DOMAIN check.found : Known(check.found[j], centric'[j], rev + 1, srv)
  <2>1. \A j \in DOMAIN check.found :
          j \in Ids /\ check.found[j].mod \in Int /\ check.found[j].rev \in Nat
    BY <1>1 DEF TypeOK, IsPage, Version
  <2>2. QED
    BY <1>1, <1>2, <2>1 DEF VersionsInv
<1>5. \A j \in Ids : centric'[j] # None => Known(centric'[j], centric'[j], rev + 1, srv)
  <2>1. centric'[i] # None => Known(centric'[i], centric'[i], rev + 1, srv)
    BY <1>1, ChangedCentric DEF Known, Older
  <2>2. \A j \in Ids : j # i /\ centric[j] # None => Known(centric[j], centric'[j], rev + 1, srv)
    BY <1>1, <1>2, VersionTypes DEF VersionsInv
  <2>3. QED
    BY <2>1, <2>2, ChangedCentric
<1>6. ASSUME NEW j \in Ids, NEW k \in Ids, centric'[j] # None, centric'[k] # None,
             centric'[j].rev = centric'[k].rev
      PROVE  j = k
  <2>1. \A m \in Ids : m # i /\ centric'[m] # None =>
          centric'[m] = centric[m] /\ centric[m].rev \in Nat /\ centric[m].rev <= rev
    BY <1>1, ChangedCentric, VersionTypes DEF VersionsInv, Known
  <2>2. centric'[i] # None => centric'[i].rev = rev + 1
    BY ChangedCentric
  <2>3. CASE j # i /\ k # i
    BY <1>1, <1>6, <2>1, <2>3 DEF VersionsInv
  <2>4. CASE j = i \/ k = i
    BY <1>1, <1>6, <2>1, <2>2, <2>4
  <2>5. QED
    BY <2>3, <2>4
<1>7. QED
  BY <1>3, <1>4, <1>5, <1>6, ChangedCentric DEF VersionsInv

LEMMA CentricVersions ==
  ASSUME Inv, NEW i \in Ids, Create(i) \/ Edit(i) \/ Delete(i)
  PROVE  VersionsInv'
BY ChangedVersions DEF Inv, Rest

(* The window lists what it listed and, last, what has changed.            *)
LEMMA LastListed ==
  ASSUME TypeOK, VersionsInv, NEW i \in Ids, Create(i) \/ Edit(i) \/ Delete(i), NEW w,
         i \notin Listed(w)
  PROVE  /\ Listed(w) \subseteq Listed(w)' /\ Listed(w)' \subseteq Listed(w) \cup {i}
         /\ \A j \in Listed(w) : Rank(j, Listed(w))' = Rank(j, Listed(w))
         /\ i \in Listed(w)' => \A j \in Listed(w) : Rank(i, Listed(w))' > Rank(j, Listed(w))
         /\ \A j : Rank(j, Listed(w)) \in Nat /\ Rank(j, Listed(w))' \in Nat
<1>1. TypeOK /\ VersionsInv
  OBVIOUS
<1> DEFINE L == Listed(w)
           R == Listed(w)'
           after(j) == Cardinality(Below(centric', j, R))
<1>2. /\ L \subseteq R /\ R \subseteq L \cup {i} /\ R \subseteq Ids /\ L \subseteq Ids
      /\ \A j \in L : centric'[j] = centric[j]
      /\ i \in R => centric'[i].rev = rev + 1
  <2>1. \A j \in Ids : j # i => (j \in R <=> j \in L)
    BY ChangedCentric DEF Listed
  <2>2. L \subseteq Ids /\ R \subseteq Ids /\ i \notin L /\ \A j \in R : centric'[j] # None
    BY DEF Listed
  <2> HIDE DEF L, R
  <2>3. QED
    BY <2>1, <2>2, ChangedCentric
<1>3. /\ Ordered(centric, L, rev) /\ rev \in Nat
      /\ \A j, S : Rank(j, S) = Cardinality(Below(centric, j, S))
      /\ \A j : Rank(j, L) \in Nat
      /\ \A j : Rank(j, Listed(w))' = after(j)
  BY <1>1, ListedOrdered DEF Rank, Below
<1>4. i \notin L
  OBVIOUS
<1>5. /\ \A j \in L : after(j) = Rank(j, L)
      /\ i \in R => \A j \in L : after(i) > Rank(j, L)
  <2> HIDE DEF L, R
  <2>1. /\ \A j \in L : Cardinality(Below(centric', j, R)) = Cardinality(Below(centric, j, L))
        /\ i \in R => \A j \in L : Cardinality(Below(centric', i, R)) > Cardinality(Below(centric, j, L))
    BY <1>2, <1>3, <1>4, ChangesComeLast
  <2>2. QED
    BY <1>3, <2>1
<1>6. \A j : after(j) \in Nat
  <2>1. IsFiniteSet(R)
    BY <1>2, IdsAreNumbers, FS_Subset
  <2>2. \A j : Below(centric', j, R) \in SUBSET R
    BY DEF Below
  <2> HIDE DEF R
  <2>3. QED
    BY <2>1, <2>2, FS_Subset, FS_CardinalityType
<1>7. QED
  BY <1>2, <1>3, <1>5, <1>6

LEMMA ChangedListed ==
  ASSUME Inv, NEW i \in Ids, Create(i) \/ Edit(i) \/ Delete(i), NEW w \in Windows,
         i \notin Listed(w)
  PROVE  /\ Listed(w) \subseteq Listed(w)' /\ Listed(w)' \subseteq Listed(w) \cup {i}
         /\ \A j \in Listed(w) : Rank(j, Listed(w))' = Rank(j, Listed(w))
         /\ i \in Listed(w)' => \A j \in Listed(w) : Rank(i, Listed(w))' > Rank(j, Listed(w))
         /\ \A j : Rank(j, Listed(w)) \in Nat /\ Rank(j, Listed(w))' \in Nat
BY LastListed DEF Inv, Rest

LEMMA StoredStays ==
  ASSUME Inv, NEW i \in Ids, Create(i) \/ Edit(i) \/ Delete(i), NEW j, j # i,
         centric'[j] = centric[j]
  PROVE  /\ Current(j)' <=> Current(j)
         /\ \A run : Stored(j, run)' <=> Stored(j, run)
BY ChangedRecord DEF Stored, Current, Active

(* A window that has all it needs keeps it, whatever changes.              *)
LEMMA BehindStays ==
  ASSUME Inv, NEW i \in Ids, Create(i) \/ Edit(i) \/ Delete(i), NEW w \in Windows, Behind(w)
  PROVE  Behind(w)'
<1>1. w \in Window /\ w.start <= srv + Lag
  BY WindowsAre DEF Inv, Rest, WindowInv
<1>2. SUFFICES ASSUME NEW j \in Listed(w)', Old(j, w)'
               PROVE  Stored(j, w.run)'
  BY DEF Behind
<1>3. centric'[j] # None /\ j \in Ids
  BY DEF Listed
<1>4. j # i /\ centric'[j] = centric[j] /\ Old(j, w)
  BY <1>1, <1>2, <1>3, OldStays
<1>5. j \in Listed(w)
  BY <1>2, <1>4 DEF Listed
<1>6. QED
  BY <1>4, <1>5, StoredStays DEF Behind

LEMMA CentricPosition ==
  ASSUME Inv, NEW i \in Ids, Create(i) \/ Edit(i) \/ Delete(i), NEW w \in Windows, shifts' = 0
  PROVE  PositionInv(w)'
<1>1. TypeOK /\ shifts \in Nat /\ PositionInv(w) /\ w.skip \in Nat
  BY WindowsAre DEF Inv, TypeOK, Rest, WindowInv, Window
<1>2. shifts = 0 /\ i \notin Listed(w)
  BY <1>1, ChangedRecord
<1>3. /\ w.skip = 0 \/ \E j \in Listed(w) : Rank(j, Listed(w)) >= w.skip - 1
      /\ \A j \in Listed(w) : Rank(j, Listed(w)) < w.skip => Stored(j, w.run)
      /\ w.pass # 1 => Behind(w)
  BY <1>1, <1>2 DEF PositionInv
<1>4. w.skip = 0 \/ \E j \in Listed(w)' : Rank(j, Listed(w))' >= w.skip - 1
  BY <1>2, <1>3, ChangedListed
<1>5. ASSUME NEW j \in Listed(w)', Rank(j, Listed(w))' < w.skip
      PROVE  Stored(j, w.run)'
  <2>1. CASE j \in Listed(w)
    <3>1. Rank(j, Listed(w)) < w.skip /\ j \in Ids /\ j # i
      BY <1>2, <1>5, <2>1, ChangedListed DEF Listed
    <3>2. QED
      BY <1>3, <2>1, <3>1, ChangedRecord, StoredStays
  <2>2. CASE j = i
    <3>1. w.skip # 0
      BY <1>2, <1>5, ChangedListed
    <3>2. PICK k \in Listed(w) : Rank(k, Listed(w)) >= w.skip - 1
      BY <1>3, <3>1
    <3>3. Rank(i, Listed(w))' > Rank(k, Listed(w))
      BY <1>2, <1>5, <2>2, <3>2, ChangedListed
    <3>4. Rank(k, Listed(w)) \in Nat /\ Rank(i, Listed(w))' \in Nat
      BY <1>2, ChangedListed
    <3>5. QED
      BY <1>1, <1>5, <2>2, <3>2, <3>3, <3>4
  <2>3. QED
    BY <1>2, <1>5, <2>1, <2>2, ChangedListed
<1>6. QED
  BY <1>3, <1>4, <1>5, BehindStays DEF PositionInv

LEMMA CentricStep ==
  ASSUME Inv, NEW i \in Ids, Create(i) \/ Edit(i) \/ Delete(i)
  PROVE  Rest'
<1>1. TypeOK /\ Rest
  BY DEF Inv
<1>2. /\ Windows' = Windows /\ Reading' = Reading /\ quiet' = {}
      /\ UNCHANGED <<srv, now, bronze, cursor, pending, pc, window, req, pass, check>>
      /\ \A j \in Ids : j # i => centric'[j] = centric[j]
      /\ shifts' = 0 => shifts = 0
  BY <1>1, ChangedRecord DEF Windows, Reading, TypeOK
<1>3. ClockInv' /\ OpenInv' /\ VersionsInv'
  BY <1>1, <1>2, CentricVersions DEF Rest, ClockInv, OpenInv
<1>4. ASSUME NEW w \in Windows
      PROVE  WindowInv(w)'
  <2>1. w.start <= srv' + Lag
    BY <1>1, <1>2 DEF Rest, WindowInv
  <2>2. QuietInv(w)'
    BY <1>2 DEF QuietInv
  <2>3. PositionInv(w)'
    BY CentricPosition DEF PositionInv
  <2>4. QED
    BY <2>1, <2>2, <2>3 DEF WindowInv
<1>5. \A w \in Reading : w \in Windows /\ w \in Window /\ w.start <= srv + Lag
  BY <1>1, WindowsAre DEF Rest, WindowInv
<1>6. LookupInv'
  <2>1. pc' = "finish" => check'.todo = {}
    BY <1>1, <1>2 DEF Rest, LookupInv
  <2>2. check.missing \subseteq Ids /\ DOMAIN check.found \subseteq Ids
    BY <1>1 DEF TypeOK, IsPage
  <2>3. ASSUME NEW w \in Reading, NEW j \in Ids, centric'[j] # None, Old(j, w)'
        PROVE  centric'[j] = centric[j] /\ Old(j, w)
    BY <1>5, <2>3, OldStays
  <2>4. QED
    BY <1>1, <1>2, <2>1, <2>2, <2>3 DEF Rest, LookupInv
<1>7. JudgeInv'
  BY <1>1, <1>2, <1>5, BehindStays DEF Rest, JudgeInv
<1>8. QED
  BY <1>2, <1>3, <1>4, <1>6, <1>7 DEF Rest

LEMMA InvInit == Init => Inv
<1> SUFFICES ASSUME Init PROVE Inv
  OBVIOUS
<1>1. TypeOK /\ MissingIsGone
  BY InitType DEF Init, MissingIsGone
<1>2. Windows = {} /\ Reading = {} /\ pc = "idle" /\ check = NoCheck
  BY DEF Init, Windows, Reading
<1>3. PICK S \in SUBSET Ids, mods \in [Ids -> Times0] : InitCentric(S, mods)
  BY DEF Init
<1>4. ClockInv
  BY ClockAssumption DEF Init, InitEmpty, InitSynced, Start0, ClockInv
<1>5. \A i \in Ids : i \in 0 .. rev /\ mods[i] <= srv /\ mods[i] \in Int
  <2>1. \A i \in Ids : i \in 0 .. Cardinality(Ids)
    BY IdsAreNumbers
  <2>2. \A i \in Ids : mods[i] \in 0 .. (Start0 - Lag)
    BY <1>3 DEF Times0
  <2>3. QED
    BY <2>1, <2>2, ClockAssumption DEF Init, Start0
<1>6. \A i \in Ids : centric[i] # None => centric[i].mod = mods[i] /\ centric[i].rev = i
  BY <1>3 DEF InitCentric
<1>7. \A i \in Ids : bronze[i] # None =>
        centric[i] # None /\ bronze[i].mod = centric[i].mod /\ bronze[i].rev = centric[i].rev
  BY DEF Init, InitEmpty, InitSynced, NewRow
<1>8. VersionsInv
  BY <1>2, <1>5, <1>6, <1>7 DEF VersionsInv, Known, Older, NoCheck, EmptyPage
<1>9. QED
  BY <1>1, <1>2, <1>4, <1>8 DEF Inv, Rest, OpenInv, LookupInv, JudgeInv

LEMMA InvNext == Inv /\ [Next]_vars => Inv'
<1> SUFFICES ASSUME Inv, [Next]_vars PROVE Inv'
  OBVIOUS
<1>1. TypeOK' /\ MissingIsGone'
  BY TypeInductive, MissingIsGoneInductive DEF Inv
<1>2. CASE AnyStart \/ Count
  BY <1>2, StartStep, CountStep, <1>1 DEF Inv
<1>3. CASE ReadPage \/ RepeatedPage \/ Reject
  BY <1>3, ReadPageStep, RepeatedPageStep, RejectStep, <1>1 DEF Inv
<1>4. CASE EndFirstPass \/ EndLaterPass \/ SavePass
  BY <1>4, EndPassStep, SavePassStep, <1>1 DEF Inv
<1>5. CASE ConfirmUnseen \/ Lookup \/ Finish
  BY <1>5, ConfirmUnseenStep, LookupStep, FinishStep, <1>1 DEF Inv
<1>6. CASE Stop \/ Tick \/ StepBack
  BY <1>6, StopStep, ClockStep, <1>1 DEF Inv
<1>7. CASE Centric
  BY <1>7, CentricStep, <1>1 DEF Inv, Centric
<1>8. CASE UNCHANGED vars
  <2>1. UNCHANGED <<centric, rev, srv, now, bronze, cursor, pending, pc, window, req,
                    pass, check, gone, shifts, quiet>>
    BY <1>8 DEF vars, centricVars, dbVars, procVars, histVars
  <2>2. Rest /\ TypeOK
    BY DEF Inv
  <2>3. Placid /\ Windows' = Windows /\ Reading' = Reading
    BY <2>1, <2>2 DEF Placid, Windows, Reading, TypeOK
  <2>4. ClockInv' /\ OpenInv'
    BY <2>1, <2>2, <2>3 DEF Rest, ClockInv, OpenInv
  <2>5. VersionsInv' /\ LookupInv' /\ \A w \in Windows' : WindowInv(w)'
    BY <2>1, <2>2, <2>3, PlacidVersions, PlacidWindows, PlacidLookup DEF Rest, LookupInv
  <2>6. \A w \in Reading : Behind(w)' <=> Behind(w)
    BY <2>2, <2>3, PlacidKeeps, WindowsAre
  <2>7. JudgeInv'
    BY <2>1, <2>2, <2>3, <2>6 DEF Rest, JudgeInv
  <2>8. QED
    BY <1>1, <2>4, <2>5, <2>7 DEF Rest, Inv
<1>9. QED
  BY <1>2, <1>3, <1>4, <1>5, <1>6, <1>7, <1>8 DEF Next, Process

-----------------------------------------------------------------------------
(* Windows whose records change                                            *)

(* Few enough changes for a window to be read in full: none of the records *)
(* the first fetch lists, one of those any other window lists, is edited   *)
(* or deleted while it is open.                                            *)
FewShifts == shifts <= IF FirstFetch THEN 0 ELSE 1

(* What bears the run of a window was Centric's when it was stamped.       *)
SeenInv(w) ==
  \A i \in SeenIds(bronze, w.run) : centric[i] # None /\ Old(i, w) => Current(i)

(* A record leaves its place once: the passes before had all there was, or *)
(* the pass under way is not disturbed.                                    *)
LaterInv(w) ==
  shifts <= 1 /\ w.pass # 1 =>
    \/ Behind(w)
    \/ \A i \in Listed(w) : Old(i, w) /\ Rank(i, Listed(w)) < w.skip => Stored(i, w.run)

(* A first pass that has met no changed record has read none but those it  *)
(* counted; the others it lists by now have changed since.                 *)
Counted(w) ==
  \E S \in SUBSET Ids :
    /\ Cardinality(S) = pass.expected
    /\ SeenIds(bronze, w.run) \subseteq S
    /\ \A i \in Listed(w) \ S : centric[i].mod >= ChangedSince(w) /\ ~Old(i, w)

CountInv ==
  \A w \in Reading :
    /\ pc = "count" /\ ~req.resumed => w.pass = 1 /\ SeenIds(bronze, w.run) = {}
    /\ pc = "save" => w.pass # 1
    /\ pc = "read" /\ w.pass = 1 /\ ~Changed => Counted(w)

(* What is proven has been read.                                           *)
ProvenInv ==
  \A w \in Reading :
    pc \in Judged /\ req.complete /\ (FewShifts \/ (w.pass = 1 /\ ~FirstFetch)) => Behind(w)

Shifted == /\ \A w \in Windows : SeenInv(w) /\ LaterInv(w)
           /\ CountInv /\ ProvenInv

LEMMA SeenAre ==
  ASSUME TypeOK, NEW run
  PROVE  /\ SeenIds(bronze, run) \subseteq Ids
         /\ \A i \in SeenIds(bronze, run) : bronze[i] # None /\ bronze[i].seen = run
         /\ \A i \in Ids : Stored(i, run) => i \in SeenIds(bronze, run)
BY DEF TypeOK, SeenIds, Stored, Current, Active

(* Windows that differ in their position only.                             *)
LEMMA SameSeen ==
  ASSUME NEW u, NEW w, SameWindow(u, w)
  PROVE  SeenInv(u) <=> SeenInv(w)
BY SameWindows DEF SeenInv, SameWindow

LEMMA PlacidShifted ==
  ASSUME TypeOK, Placid, NEW w \in Window
  PROVE  /\ SeenInv(w)' <=> SeenInv(w)
         /\ LaterInv(w)' <=> LaterInv(w)
         /\ pass' = pass => (Counted(w)' <=> Counted(w))
         /\ FewShifts' <=> FewShifts
         /\ FirstFetch' <=> FirstFetch
<1>1. /\ Listed(w)' = Listed(w) /\ ChangedSince(w)' = ChangedSince(w)
      /\ SeenIds(bronze, w.run)' = SeenIds(bronze, w.run)
      /\ SeenIds(bronze, w.run) \subseteq Ids /\ Listed(w) \subseteq Ids
      /\ FirstFetch' <=> FirstFetch
  BY SeenAre DEF Placid, Listed, ChangedSince, SeenIds, FirstFetch
<1>2. /\ \A i, S : Rank(i, S)' = Rank(i, S)
      /\ \A i, run : (Stored(i, run)' <=> Stored(i, run)) /\ (Current(i)' <=> Current(i))
  BY DEF Placid, Rank, Stored, Current, Active
<1>3. /\ \A i \in Ids : Old(i, w)' <=> Old(i, w)
      /\ Behind(w)' <=> Behind(w)
  BY PlacidKeeps
<1>4. SeenInv(w)' <=> SeenInv(w)
  BY <1>1, <1>2, <1>3 DEF SeenInv, Placid
<1>5. LaterInv(w)' <=> LaterInv(w)
  BY <1>1, <1>2, <1>3 DEF LaterInv, Placid
<1>6. pass' = pass => (Counted(w)' <=> Counted(w))
  BY <1>1, <1>3 DEF Counted, Placid
<1>7. FewShifts' <=> FewShifts
  BY <1>1 DEF FewShifts, Placid
<1>8. QED
  BY <1>1, <1>4, <1>5, <1>6, <1>7

(* The end of a pass.  A later pass has all there is unless two records    *)
(* have changed; a first pass that has met no change has all it counted.   *)
LEMMA EndIsBehind ==
  ASSUME Inv, Shifted, AtEnd
  PROVE  /\ shifts = 0 \/ (shifts <= 1 /\ window.pass # 1) => Behind(window)
         /\ window.pass = 1 /\ Distinct /\ ~Changed => Behind(window)
<1>1. /\ TypeOK /\ VersionsInv /\ window \in Window /\ window \in Windows /\ window \in Reading
      /\ WindowInv(window) /\ SeenInv(window) /\ LaterInv(window) /\ pc = "read"
  BY WindowsAre DEF Inv, AtEnd, Rest, Shifted
<1>2. CASE shifts = 0
  BY <1>1, <1>2, EndIsPast DEF WindowInv, AtEnd, Behind
<1>3. CASE shifts <= 1 /\ window.pass # 1
  <2>1. window.skip \in Nat /\ Limit \in Nat \ {0}
    BY <1>1, LimitAssumption DEF Window
  <2>2. \A i \in Listed(window) :
          Rank(i, Listed(window)) \notin window.skip .. (window.skip + Limit - 1)
    BY DEF AtEnd, Page
  <2>3. ASSUME NEW i \in Listed(window), Rank(i, Listed(window)) >= window.skip
        PROVE  FALSE
    <3>1. PICK j \in Listed(window) : Rank(j, Listed(window)) = window.skip
      BY <1>1, <2>1, <2>3, ListedOrdered, NoRankIsMissing
    <3>2. QED
      BY <2>1, <2>2, <3>1
  <2>4. \A i \in Listed(window) : Rank(i, Listed(window)) < window.skip
    BY <1>1, <2>1, <2>3, ListedOrdered
  <2>5. QED
    BY <1>1, <1>3, <2>4 DEF LaterInv, Behind
<1>4. CASE window.pass = 1 /\ Distinct /\ ~Changed
  <2> DEFINE seen == SeenIds(bronze, window.run)
  <2>1. PICK S \in SUBSET Ids :
          /\ Cardinality(S) = pass.expected
          /\ seen \subseteq S
          /\ \A i \in Listed(window) \ S : ~Old(i, window)
    BY <1>1, <1>4 DEF Shifted, CountInv, Counted
  <2>2. IsFiniteSet(S) /\ Cardinality(seen) >= Cardinality(S)
    BY <1>4, <2>1, IdsAreNumbers, FS_Subset DEF Distinct
  <2>3. seen = S
    <3>1. seen \in SUBSET S
      BY <2>1
    <3>2. /\ IsFiniteSet(seen) /\ Cardinality(seen) \in Nat /\ Cardinality(S) \in Nat
          /\ seen # S => Cardinality(seen) < Cardinality(S)
      BY <2>2, <3>1, FS_Subset, FS_CardinalityType
    <3>3. QED
      BY <2>2, <3>2
  <2>4. ASSUME NEW i \in Listed(window), Old(i, window)
        PROVE  Stored(i, window.run)
    <3>1. i \in seen /\ centric[i] # None
      BY <2>1, <2>3, <2>4 DEF Listed
    <3>2. QED
      BY <1>1, <2>4, <3>1, SeenAre DEF SeenInv, Stored
  <2>5. QED
    BY <2>4 DEF Behind
<1>5. QED
  BY <1>2, <1>3, <1>4

LEMMA PlacidShiftedWindows ==
  ASSUME Inv, Shifted, Placid, Windows' \subseteq Windows
  PROVE  \A w \in Windows' : SeenInv(w)' /\ LaterInv(w)'
BY PlacidShifted, WindowsAre DEF Inv, Shifted

(* A step that leaves what the run has come to as it is.                   *)
LEMMA IdleStep ==
  ASSUME Inv, Shifted, Placid, UNCHANGED <<window, pending, pc, req, pass>>
  PROVE  Shifted'
<1>1. TypeOK /\ Windows' = Windows /\ Reading' = Reading /\ Reading \subseteq Window
  BY WindowsAre DEF Inv, Windows, Reading
<1>2. ASSUME NEW w \in Reading
      PROVE  /\ SeenIds(bronze, w.run)' = SeenIds(bronze, w.run)
             /\ (Counted(w)' <=> Counted(w)) /\ (Behind(w)' <=> Behind(w))
             /\ (FewShifts' <=> FewShifts) /\ (FirstFetch' <=> FirstFetch)
  BY <1>1, <1>2, PlacidShifted, PlacidKeeps DEF Placid, SeenIds
<1>3. CountInv'
  BY <1>1, <1>2 DEF Shifted, CountInv, Changed
<1>4. ProvenInv'
  BY <1>1, <1>2 DEF Shifted, ProvenInv
<1>5. QED
  BY <1>1, <1>3, <1>4, PlacidShiftedWindows DEF Shifted

LEMMA CountShifted ==
  ASSUME Inv, Shifted, Count
  PROVE  Shifted'
<1> USE DEF Count, centricVars, dbVars, histVars
<1>1. TypeOK /\ window \in Reading /\ window \in Window
  BY WindowsAre DEF Inv
<1>2. Placid /\ Windows' = Windows /\ Reading' = {window}
  BY <1>1 DEF Placid, Windows, Reading, TypeOK
<1>3. ASSUME window.pass = 1, ~Changed'
      PROVE  Counted(window)'
  <2>1. SeenIds(bronze, window.run)' = {}
    BY <1>1, <1>3 DEF Shifted, CountInv, Changed
  <2>2. Listed(window)' = Listed(window) /\ Listed(window) \in SUBSET Ids
        /\ pass'.expected = Cardinality(Listed(window))
    BY DEF Listed, NoPass
  <2>3. QED
    BY <2>1, <2>2 DEF Counted
<1>4. CountInv'
  BY <1>2, <1>3 DEF CountInv
<1>5. ProvenInv'
  BY DEF ProvenInv, Judged
<1>6. QED
  BY <1>2, <1>4, <1>5, PlacidShiftedWindows DEF Shifted

LEMMA StartShifted ==
  ASSUME Inv, Shifted, AnyStart
  PROVE  Shifted'
<1>1. TypeOK /\ pc = "idle"
  BY DEF Inv, AnyStart, Start, Open
<1>2. PICK full \in BOOLEAN, restart \in BOOLEAN, allow \in BOOLEAN, run \in Unused :
        /\ Open(run, full, restart, allow)
        /\ quiet' = IF Resumes(full, restart) THEN quiet ELSE {run}
  BY DEF AnyStart, Start
<1>3. /\ pending' = Opened(run, full, restart) /\ window' = pending' /\ pc' = "count"
      /\ shifts' = IF Resumes(full, restart) THEN shifts ELSE 0
      /\ req'.resumed = Resumes(full, restart)
      /\ UNCHANGED <<centric, rev, srv, now, bronze, cursor>>
  BY <1>2 DEF Open, centricVars, NoReq
<1>4. run \in RunIds \ Used
  BY DEF Unused
<1>5. pending' \in Window /\ pending' # None
  BY <1>1, <1>3, <1>4, OpenedType, WindowNotNone
<1>6. Windows' = {pending'} /\ Reading' = {pending'}
  BY <1>3, <1>5 DEF Windows, Reading
<1>7. ProvenInv'
  BY <1>3 DEF ProvenInv, Judged
<1>8. CASE Resumes(full, restart)
  <2>1. /\ pending \in Windows /\ pending \in Window /\ pending' = Resumed(pending)
        /\ quiet' = quiet /\ shifts' = shifts
    BY <1>1, <1>2, <1>3, <1>8 DEF Resumes, Opened, Windows, TypeOK
  <2>2. Placid
    BY <1>1, <1>3, <2>1 DEF Placid, TypeOK
  <2>3. ASSUME NEW w, w = pending'
        PROVE  SeenInv(w) /\ LaterInv(w)
    <3>1. /\ w \in Window /\ SameWindow(w, pending) /\ w.pass = pending.pass
          /\ (w = pending \/ w.skip = 0)
      BY <1>5, <2>1, <2>3 DEF Resumed, SameWindow, Window
    <3>2. SeenInv(pending) /\ LaterInv(pending)
      BY <2>1 DEF Shifted
    <3>3. ASSUME w.skip = 0
          PROVE  LaterInv(w)
      <4>1. \A i \in Listed(w) : ~ (Rank(i, Listed(w)) < 0)
        BY <1>1, ListedOrdered DEF Inv, Rest
      <4>2. QED
        BY <3>3, <4>1 DEF LaterInv
    <3>4. QED
      BY <3>1, <3>2, <3>3, SameSeen
  <2>4. \A w \in Windows' : SeenInv(w)' /\ LaterInv(w)'
    BY <1>1, <1>5, <1>6, <2>2, <2>3, PlacidShifted
  <2>5. CountInv'
    BY <1>3, <1>8 DEF CountInv
  <2>6. QED
    BY <1>7, <2>4, <2>5 DEF Shifted
<1>9. CASE ~Resumes(full, restart)
  <2>1. pending'.run = run /\ pending'.pass = 1
    BY <1>3, <1>9 DEF Opened, NewWindow
  <2>2. \A i \in Ids : bronze[i] # None => bronze[i].seen # run
    BY <1>4 DEF Used
  <2>3. SeenIds(bronze, run) = {}
    BY <1>1, <2>2, SeenAre
  <2>4. SeenIds(bronze', run) = {}
    BY <1>3, <2>3
  <2>5. QED
    BY <1>6, <1>7, <1>3, <2>1, <2>4 DEF Shifted, SeenInv, LaterInv, CountInv
<1>10. QED
  BY <1>8, <1>9

LEMMA EndPassShifted ==
  ASSUME Inv, Shifted, EndFirstPass \/ EndLaterPass
  PROVE  Shifted'
<1>1. /\ TypeOK /\ AtEnd /\ window \in Reading /\ window \in Windows /\ window \in Window
      /\ shifts \in Nat
  BY WindowsAre DEF EndFirstPass, EndLaterPass, AtEnd, Inv, TypeOK
<1>2. ASSUME NEW complete \in BOOLEAN, Judge(complete),
             complete /\ (FewShifts \/ (window.pass = 1 /\ ~FirstFetch)) => Behind(window)
      PROVE  Shifted'
  <2> USE <1>2 DEF Judge, centricVars, dbVars, histVars
  <2>1. Placid /\ Windows' = Windows /\ Reading' = {window} /\ window' = window
    BY <1>1 DEF Placid, Windows, Reading, TypeOK
  <2>2. CountInv'
    BY DEF CountInv
  <2>3. /\ (Behind(window)' <=> Behind(window)) /\ (FewShifts' <=> FewShifts)
        /\ (FirstFetch' <=> FirstFetch)
    BY <1>1, <2>1, PlacidKeeps, PlacidShifted
  <2>4. ProvenInv'
    <3>1. req'.complete = complete
      BY <1>1 DEF TypeOK
    <3>2. QED
      BY <2>1, <2>3, <3>1 DEF ProvenInv
  <2>5. QED
    BY <2>1, <2>2, <2>4, PlacidShiftedWindows DEF Shifted
<1>3. ASSUME NextPass, window.pass >= 1
      PROVE  Shifted'
  <2> USE <1>3 DEF NextPass, centricVars, dbVars, histVars
  <2>1. Placid /\ Windows' = {window', pending} \ {None} /\ Reading' = {window'} \ {None}
    BY <1>1 DEF Placid, Windows, Reading, TypeOK
  <2>2. SameWindow(window', window) /\ window'.skip = 0 /\ window'.pass # 1 /\ window' \in Window
    <3>1. window' = [window EXCEPT !.pass = @ + 1, !.skip = 0, !.fetched = 0]
      OBVIOUS
    <3>2. SameWindow(window', window) /\ window'.skip = 0 /\ window'.pass # 1
      BY <1>1, <3>1 DEF Window, SameWindow
    <3>3. window' \in Window
      BY <1>1, TypeInductive, WindowsAre DEF TypeOK, Next, Process
    <3>4. QED
      BY <3>2, <3>3
  <2>3. ASSUME NEW w, w = window'
        PROVE  SeenInv(w)' /\ LaterInv(w)'
    <3>1. \A i \in Listed(w) : ~ (Rank(i, Listed(w)) < 0)
      BY <1>1, ListedOrdered DEF Inv, Rest
    <3>2. LaterInv(w)
      BY <2>2, <2>3, <3>1 DEF LaterInv
    <3>3. SeenInv(w)
      BY <1>1, <2>2, <2>3, SameSeen DEF Shifted
    <3>4. QED
      BY <1>1, <2>1, <2>2, <2>3, <3>2, <3>3, PlacidShifted
  <2>4. ASSUME NEW w \in Windows
        PROVE  SeenInv(w)' /\ LaterInv(w)'
    BY <1>1, <2>1, <2>4, WindowsAre, PlacidShifted DEF Shifted
  <2>5. CountInv' /\ ProvenInv'
    BY <2>1, <2>2 DEF CountInv, ProvenInv, Judged
  <2>6. QED
    BY <2>1, <2>3, <2>4, <2>5 DEF Shifted, Windows
<1>4. FewShifts => shifts = 0 \/ (shifts <= 1 /\ ~FirstFetch)
  BY <1>1 DEF FewShifts
<1>5. CASE EndFirstPass
  <2>1. (Judge(ProvenAtOnce) \/ NextPass) /\ window.pass = 1
    BY <1>5 DEF EndFirstPass
  <2>2. ProvenAtOnce /\ ~FirstFetch => Distinct /\ ~Changed
    BY DEF ProvenAtOnce, Verify
  <2>3. ProvenAtOnce /\ (FewShifts \/ ~FirstFetch) => Behind(window)
    BY <1>4, <2>1, <2>2, EndIsBehind, <1>1
  <2>4. ProvenAtOnce \in BOOLEAN
    BY DEF ProvenAtOnce, Distinct
  <2>5. QED
    BY <1>2, <1>3, <2>1, <2>3, <2>4
<1>6. CASE EndLaterPass
  <2>1. (Judge(ProvenAgain) \/ NextPass) /\ window.pass > 1 /\ window.pass \in Nat
    BY <1>1, <1>6 DEF EndLaterPass, Window
  <2>2. FewShifts => Behind(window)
    BY <1>1, <1>4, <2>1, EndIsBehind
  <2>3. ProvenAgain \in BOOLEAN
    BY <1>1 DEF ProvenAgain, TypeOK
  <2>4. QED
    BY <1>2, <1>3, <2>1, <2>2, <2>3
<1>7. QED
  BY <1>5, <1>6

LEMMA SavePassShifted ==
  ASSUME Inv, Shifted, SavePass
  PROVE  Shifted'
<1> USE DEF SavePass, centricVars, histVars
<1>1. TypeOK /\ window \in Reading
  BY WindowsAre DEF Inv
<1>2. Placid /\ Windows' \subseteq Windows /\ Reading' = {window}
  BY <1>1 DEF Placid, Windows, Reading, TypeOK
<1>3. CountInv' /\ ProvenInv'
  BY <1>1, <1>2 DEF Shifted, CountInv, ProvenInv, Judged
<1>4. QED
  BY <1>2, <1>3, PlacidShiftedWindows DEF Shifted

LEMMA LookupShifted ==
  ASSUME Inv, Shifted, ConfirmUnseen \/ Lookup \/ RepeatedPage
  PROVE  Shifted'
<1> USE DEF ConfirmUnseen, Lookup, RepeatedPage, centricVars, dbVars, histVars
<1>1. TypeOK /\ window \in Reading /\ window \in Window
  BY WindowsAre DEF Inv
<1>2. Placid /\ Windows' = Windows /\ Reading' = Reading /\ Reading = {window} /\ req' = req
  BY <1>1 DEF Placid, Windows, Reading, TypeOK
<1>3. pc' \in Judged => pc \in Judged
  BY DEF Judged
<1>4. pc' \in {"lookup", "finish", "reject"}
  OBVIOUS
<1>5. CountInv'
  BY <1>4 DEF CountInv
<1>6. ProvenInv'
  <2>1. /\ (Behind(window)' <=> Behind(window)) /\ (FewShifts' <=> FewShifts)
        /\ (FirstFetch' <=> FirstFetch)
    BY <1>1, <1>2, PlacidKeeps, PlacidShifted
  <2>2. QED
    BY <1>2, <1>3, <2>1 DEF Shifted, ProvenInv
<1>7. QED
  BY <1>2, <1>5, <1>6, PlacidShiftedWindows DEF Shifted

LEMMA CloseShifted ==
  ASSUME Inv, Shifted, Stop \/ Reject \/ Finish
  PROVE  Shifted'
<1>1. Reading' = {}
  BY DEF Stop, Reject, Finish, Reading
<1>2. CASE Stop
  <2>1. Placid /\ Windows' \subseteq Windows
    BY <1>2 DEF Stop, Inv, TypeOK, Placid, Windows, centricVars, dbVars
  <2>2. QED
    BY <1>1, <2>1, PlacidShiftedWindows DEF Shifted, CountInv, ProvenInv
<1>3. CASE Reject \/ Finish
  <2>1. Windows' = {}
    BY <1>3 DEF Reject, Finish, Windows
  <2>2. QED
    BY <1>1, <2>1 DEF Shifted, CountInv, ProvenInv
<1>4. QED
  BY <1>2, <1>3

LEMMA ReadPageWindow ==
  ASSUME Inv, Shifted, ReadPage, NEW u, u = window, NEW w, w = window'
  PROVE  /\ SeenInv(w)' /\ LaterInv(w)'
         /\ w.pass = 1 /\ ~Changed' => Counted(w)'
<1>1. /\ TypeOK /\ u \in Reading /\ u \in Windows /\ u \in Window /\ pc = "read"
      /\ SeenInv(u) /\ LaterInv(u) /\ WindowInv(u)
  BY WindowsAre DEF ReadPage, Inv, Rest, Shifted
<1> DEFINE page == Page(u)
           L == Listed(u)
<1>2. /\ SameWindow(w, u) /\ w.run = u.run /\ w.pass = u.pass
      /\ w.skip = u.skip + Cardinality(DOMAIN page)
      /\ req'.resumed = req.resumed
      /\ UNCHANGED <<centric, rev, cursor, shifts, quiet>>
  BY <1>1 DEF ReadPage, Window, SameWindow, TypeOK, centricVars, histVars
<1>3. page = [i \in DOMAIN page |-> centric[i]] /\ DOMAIN page \subseteq L /\ L \subseteq Ids
  BY DEF Page, Listed
<1>4. /\ \A i \in DOMAIN page : Stored(i, w.run)'
      /\ \A i \in Ids : i \notin DOMAIN page => bronze'[i] = bronze[i]
      /\ \A i \in Ids : Current(i) => Current(i)'
      /\ \A i \in Ids : Stored(i, w.run) => Stored(i, w.run)'
  BY <1>2, ReadPageStores
<1>5. SeenIds(bronze, w.run)' \subseteq SeenIds(bronze, w.run) \cup DOMAIN page
  <2>1. DOMAIN bronze' = Ids /\ DOMAIN bronze = Ids
    BY <1>1, TypeInductive DEF Next, Process, TypeOK
  <2> HIDE DEF page
  <2>2. QED
    BY <1>4, <2>1 DEF SeenIds
<1>6. /\ \A i : Old(i, w)' <=> Old(i, u)
      /\ Listed(w)' = L /\ ChangedSince(w)' = ChangedSince(u)
      /\ \A i, S : Rank(i, S)' = Rank(i, S)
  BY <1>2 DEF Old, ChangedSince, Listed, SameWindow, Rank
<1> HIDE DEF page, L
<1>7. SeenInv(w)'
  <2>1. SUFFICES ASSUME NEW i \in SeenIds(bronze, w.run)', centric[i] # None, Old(i, u)
                 PROVE  Current(i)'
    BY <1>2, <1>6 DEF SeenInv
  <2>2. CASE i \in DOMAIN page
    BY <1>4, <2>2 DEF Stored
  <2>3. CASE i \in SeenIds(bronze, w.run)
    BY <1>1, <1>2, <1>4, <2>1, <2>3, SeenAre DEF SeenInv
  <2>4. QED
    BY <1>5, <2>1, <2>2, <2>3
<1>8. LaterInv(w)'
  <2>1. SUFFICES ASSUME shifts <= 1, u.pass # 1
                 PROVE  \/ Behind(w)'
                        \/ \A i \in L : Old(i, u) /\ Rank(i, L) < w.skip => Stored(i, w.run)'
    BY <1>2, <1>6 DEF LaterInv
  <2>2. CASE Behind(u)
    BY <1>2, <1>3, <1>4, <1>6, <2>2 DEF Behind, L
  <2>3. CASE \A i \in L : Old(i, u) /\ Rank(i, L) < u.skip => Stored(i, u.run)
    <3>1. SUFFICES ASSUME NEW i \in L, Old(i, u), Rank(i, L) < w.skip
                   PROVE  Stored(i, w.run)'
      OBVIOUS
    <3>2. /\ Ordered(centric, L, rev) /\ rev \in Nat /\ Rank(i, L) \in Nat
          /\ u.skip \in Nat /\ Limit \in Nat
      BY <1>1, ListedOrdered, LimitAssumption DEF Inv, Rest, L, Window
    <3>3. DOMAIN page = Ranked(centric, L, u.skip, Limit)
      BY DEF page, L, Page, Ranked, Rank, Below
    <3>4. Cardinality(DOMAIN page) \in Nat /\ Cardinality(DOMAIN page) <= Limit
      BY <3>2, <3>3, PageFits
    <3>5. CASE Rank(i, L) < u.skip
      BY <1>2, <1>3, <1>4, <2>3, <3>1, <3>5
    <3>6. CASE Rank(i, L) >= u.skip
      <4>1. Rank(i, L) \in u.skip .. (u.skip + Limit - 1)
        BY <1>2, <3>1, <3>2, <3>4, <3>6
      <4>2. i \in DOMAIN page
        BY <3>1, <4>1 DEF page, L, Page
      <4>3. QED
        BY <1>4, <4>2
    <3>7. QED
      BY <3>2, <3>5, <3>6
  <2>4. QED
    BY <1>1, <2>1, <2>2, <2>3 DEF LaterInv, L
<1>9. ASSUME w.pass = 1, ~Changed'
      PROVE  Counted(w)'
  <2>1. /\ pass'.expected = pass.expected
        /\ pass'.conc = (pass.conc \/ Concurrent(page, ChangedSince(u)) # {})
    BY <1>1, NothingInMemory DEF ReadPage, TypeOK, page
  <2>2. ~pass.conc /\ Concurrent(page, ChangedSince(u)) = {} /\ ~Changed
    BY <1>2, <1>9, <2>1 DEF Changed
  <2>3. PICK S \in SUBSET Ids :
          /\ Cardinality(S) = pass.expected
          /\ SeenIds(bronze, u.run) \subseteq S
          /\ \A i \in L \ S : centric[i].mod >= ChangedSince(u) /\ ~Old(i, u)
    BY <1>1, <1>2, <1>9, <2>2 DEF Shifted, CountInv, Counted, L
  <2>4. DOMAIN page \subseteq S
    BY <1>3, <2>2, <2>3 DEF Concurrent
  <2>5. SeenIds(bronze, w.run)' \subseteq S
    BY <1>2, <1>5, <2>3, <2>4
  <2>6. \A i \in Listed(w)' \ S : centric'[i].mod >= ChangedSince(w)' /\ ~Old(i, w)'
    BY <1>2, <1>6, <2>3
  <2>7. QED
    BY <2>1, <2>3, <2>5, <2>6 DEF Counted
<1>10. QED
  BY <1>7, <1>8, <1>9

LEMMA ReadPageShifted ==
  ASSUME Inv, Shifted, ReadPage
  PROVE  Shifted'
<1>1. TypeOK /\ window \in Window
  BY WindowsAre DEF ReadPage, Inv
<1>2. pending' = window' /\ pc' \in {"reject", "read"}
  BY DEF ReadPage
<1>3. window' # None /\ Windows' = {window'} /\ Reading' = {window'}
  BY <1>1, <1>2, TypeInductive DEF Next, Process, TypeOK, Windows, Reading
<1>4. \A w \in Windows' : SeenInv(w)' /\ LaterInv(w)'
  BY <1>3, ReadPageWindow
<1>5. CountInv' /\ ProvenInv'
  BY <1>2, <1>3, ReadPageWindow DEF CountInv, ProvenInv, Judged
<1>6. QED
  BY <1>4, <1>5 DEF Shifted

LEMMA CentricShifted ==
  ASSUME Inv, Shifted, NEW i \in Ids, Create(i) \/ Edit(i) \/ Delete(i)
  PROVE  Shifted'
<1>1. TypeOK /\ Rest /\ shifts \in Nat
  BY DEF Inv, TypeOK
<1>2. /\ Windows' = Windows /\ Reading' = Reading
      /\ UNCHANGED <<srv, now, bronze, cursor, pending, pc, window, req, pass, check>>
      /\ \A j \in Ids : j # i => centric'[j] = centric[j]
      /\ centric'[i] # None => centric'[i].mod = srv
      /\ shifts' \in {shifts, shifts + 1}
  BY ChangedRecord DEF Windows, Reading
<1>3. \A w \in Windows : w \in Window /\ w.start <= srv + Lag /\ PositionInv(w)
  BY <1>1, WindowsAre DEF Rest, WindowInv
<1>4. \A run : SeenIds(bronze, run)' = SeenIds(bronze, run)
  BY <1>2 DEF SeenIds
<1>5. ASSUME NEW w \in Windows
      PROVE  SeenInv(w)'
  <2>1. SUFFICES ASSUME NEW j \in SeenIds(bronze, w.run), centric'[j] # None, Old(j, w)'
                 PROVE  Current(j)'
    BY <1>4 DEF SeenInv
  <2>2. j \in Ids
    BY <1>1, SeenAre
  <2>3. j # i /\ centric'[j] = centric[j] /\ Old(j, w)
    BY <1>3, <1>5, <2>1, <2>2, OldStays
  <2>4. Current(j)
    BY <1>5, <2>1, <2>3 DEF Shifted, SeenInv
  <2>5. QED
    BY <2>3, <2>4, StoredStays
<1>6. ASSUME NEW w \in Windows
      PROVE  LaterInv(w)'
  <2>1. SUFFICES ASSUME shifts' <= 1, w.pass # 1
                 PROVE  \/ Behind(w)'
                        \/ \A j \in Listed(w)' : Old(j, w)' /\ Rank(j, Listed(w))' < w.skip
                                                   => Stored(j, w.run)'
    BY DEF LaterInv
  <2>2. CASE Behind(w)
    BY <1>6, <2>2, BehindStays
  <2>3. CASE ~Behind(w)
    <3>1. shifts # 0
      BY <1>3, <1>6, <2>1, <2>3 DEF PositionInv
    <3>2. shifts <= 1 /\ i \notin Listed(w)
      BY <1>1, <1>6, <2>1, <3>1, ChangedRecord
    <3>3. \A j \in Listed(w) : Old(j, w) /\ Rank(j, Listed(w)) < w.skip => Stored(j, w.run)
      BY <1>6, <2>1, <2>3, <3>2 DEF Shifted, LaterInv
    <3>4. ASSUME NEW j \in Listed(w)', Old(j, w)', Rank(j, Listed(w))' < w.skip
          PROVE  Stored(j, w.run)'
      <4>1. j \in Ids /\ centric'[j] # None
        BY <3>4 DEF Listed
      <4>2. j # i /\ centric'[j] = centric[j] /\ Old(j, w)
        BY <1>3, <1>6, <3>4, <4>1, OldStays
      <4>3. j \in Listed(w) /\ Rank(j, Listed(w)) < w.skip
        BY <1>6, <3>2, <3>4, <4>2, ChangedListed
      <4>4. QED
        BY <3>3, <4>2, <4>3, StoredStays
    <3>5. QED
      BY <3>4
  <2>4. QED
    BY <2>2, <2>3
<1>7. Reading \subseteq Windows
  BY <1>1, WindowsAre
<1>8. ASSUME NEW w \in Reading, Counted(w)
      PROVE  Counted(w)'
  <2>1. PICK S \in SUBSET Ids :
          /\ Cardinality(S) = pass.expected
          /\ SeenIds(bronze, w.run) \subseteq S
          /\ \A j \in Listed(w) \ S : centric[j].mod >= ChangedSince(w) /\ ~Old(j, w)
    BY <1>8 DEF Counted
  <2>2. ASSUME NEW j \in Listed(w)' \ S
        PROVE  centric'[j].mod >= ChangedSince(w)' /\ ~Old(j, w)'
    <3>1. j \in Ids /\ centric'[j] # None /\ ChangedSince(w)' = ChangedSince(w)
      BY <2>2 DEF Listed, ChangedSince
    <3>2. w \in Window /\ w.start <= srv + Lag
      BY <1>3, <1>7, <1>8
    <3>3. CASE j = i
      <4>1. centric'[j].mod >= ChangedSince(w)
        BY <1>1, <1>2, <3>1, <3>2, <3>3, ClockAssumption DEF ChangedSince, TypeOK, Window
      <4>2. ~Old(j, w)'
        BY <3>1, <3>2, <3>3, OldStays
      <4>3. QED
        BY <3>1, <4>1, <4>2
    <3>4. CASE j # i
      <4>1. centric'[j] = centric[j] /\ j \in Listed(w)
        BY <1>2, <2>2, <3>1, <3>4 DEF Listed
      <4>2. ~Old(j, w)'
        BY <2>1, <2>2, <3>1, <3>2, <4>1, OldStays
      <4>3. QED
        BY <2>1, <2>2, <3>1, <4>1, <4>2
    <3>5. QED
      BY <3>3, <3>4
  <2>3. QED
    BY <1>2, <1>4, <2>1, <2>2 DEF Counted
<1>9. CountInv'
  BY <1>2, <1>4, <1>8 DEF Shifted, CountInv, Changed
<1>10. ProvenInv'
  <2>1. (FirstFetch' <=> FirstFetch) /\ (FewShifts' => FewShifts)
    BY <1>1, <1>2 DEF FirstFetch, FewShifts
  <2>2. QED
    BY <1>2, <1>7, <2>1, BehindStays DEF Shifted, ProvenInv
<1>11. QED
  BY <1>2, <1>5, <1>6, <1>9, <1>10 DEF Shifted

LEMMA ShiftedInit == Init => Shifted
BY DEF Init, Shifted, Windows, Reading, CountInv, ProvenInv

LEMMA ShiftedNext == Inv /\ Shifted /\ [Next]_vars => Shifted'
<1> SUFFICES ASSUME Inv, Shifted, [Next]_vars PROVE Shifted'
  OBVIOUS
<1>1. CASE AnyStart \/ Count \/ ReadPage
  BY <1>1, StartShifted, CountShifted, ReadPageShifted
<1>2. CASE EndFirstPass \/ EndLaterPass \/ SavePass
  BY <1>2, EndPassShifted, SavePassShifted
<1>3. CASE ConfirmUnseen \/ Lookup \/ RepeatedPage \/ Stop \/ Reject \/ Finish
  BY <1>3, LookupShifted, CloseShifted
<1>4. CASE Centric
  BY <1>4, CentricShifted DEF Centric
<1>5. CASE Tick \/ StepBack \/ UNCHANGED vars
  <2>1. Placid /\ UNCHANGED <<window, pending, pc, req, pass>>
    BY <1>5 DEF Tick, StepBack, vars, centricVars, dbVars, procVars, histVars, Placid, Inv, TypeOK
  <2>2. QED
    BY <2>1, IdleStep
<1>6. QED
  BY <1>1, <1>2, <1>3, <1>4, <1>5 DEF Next, Process

-----------------------------------------------------------------------------
(* What a finished window has                                              *)

(* A window during which Centric did not change mirrors it when it is      *)
(* finished, for every number of records, passes, stops and resumptions.   *)
THEOREM QuietWindowsMirror == Spec => QuietWindowMirrors
<1>1. Inv => [Finish /\ window.run \in quiet => Mirrors]_vars
  <2> SUFFICES ASSUME Inv, Finish, window.run \in quiet PROVE Mirrors
    OBVIOUS
  <2>1. TypeOK /\ Rest /\ window \in Reading /\ window \in Window /\ pc = "finish" /\ QuietInv(window)
    BY WindowsAre DEF Inv, Finish, Rest, WindowInv
  <2>2. ASSUME NEW i \in Listed(window)
        PROVE  Current(i)'
    <3>1. i \in Ids /\ centric[i] # None /\ Old(i, window)
      BY <2>2 DEF Listed, Old
    <3>2. Behind(window)
      BY <2>1 DEF Rest, JudgeInv, Judged, QuietInv
    <3>3. QED
      BY <2>2, <3>1, <3>2, FinishStores DEF Behind, Stored
  <2>3. ASSUME window.mode = "full", req.allow, req.any, NEW i \in Ids, centric[i] = None
        PROVE  ~Active(bronze'[i])
    <3>1. /\ Active(bronze[i]) => i \in check.missing
          /\ i \notin DOMAIN check.found
      BY <2>1, <2>3 DEF Rest, JudgeInv, LookupInv
    <3>2. QED
      BY <2>3, <3>1, FinishStores
  <2>4. window.mode = "delta" => cursor' = window.start
    BY <2>1 DEF Rest, JudgeInv, Finish, NextCursor
  <2>5. QED
    BY <2>2, <2>3, <2>4 DEF Mirrors
<1>2. QED
  BY <1>1, InvInit, InvNext, PTL DEF Spec, QuietWindowMirrors

(* A window judged complete is, whatever is created meanwhile, as long as  *)
(* none of the records the first fetch lists, and at most one of those any *)
(* other window lists, is edited or deleted while it is open: one record   *)
(* that leaves its place makes a pass miss one, and the passes only agree  *)
(* after one that missed none.                                             *)
THEOREM ProvenWindowsAreComplete == Spec => [](FewShifts => ProvenIsComplete)
<1>1. Inv /\ Shifted => (FewShifts => ProvenIsComplete)
  <2> SUFFICES ASSUME Inv, Shifted, FewShifts, pc = "finish", req.complete,
                      NEW i \in Listed(window), centric[i].mod < ChangedSince(window)
               PROVE  Current(i)
    BY DEF ProvenIsComplete
  <2>1. window \in Reading
    BY WindowsAre DEF Inv
  <2>2. Behind(window)
    BY <2>1 DEF Shifted, ProvenInv, Judged
  <2>3. QED
    BY <2>2 DEF Behind, Old, Stored
<1>2. QED
  BY <1>1, InvInit, InvNext, ShiftedInit, ShiftedNext, PTL DEF Spec

(* Judged on its first pass, by its count, a window that is not the first  *)
(* fetch is complete however many of its records were edited or deleted    *)
(* while it was read: what was skipped for one that left its place leaves  *)
(* the count short, and a count made up by new records is not believed.    *)
THEOREM FirstPassesAreComplete ==
  Spec => [](pc = "finish" /\ window.pass = 1 /\ ~FirstFetch => ProvenIsComplete)
<1>1. Inv /\ Shifted => (pc = "finish" /\ window.pass = 1 /\ ~FirstFetch => ProvenIsComplete)
  <2> SUFFICES ASSUME Inv, Shifted, pc = "finish", window.pass = 1, ~FirstFetch, req.complete,
                      NEW i \in Listed(window), centric[i].mod < ChangedSince(window)
               PROVE  Current(i)
    BY DEF ProvenIsComplete
  <2>1. window \in Reading
    BY WindowsAre DEF Inv
  <2>2. Behind(window)
    BY <2>1 DEF Shifted, ProvenInv, Judged
  <2>3. QED
    BY <2>2 DEF Behind, Old, Stored
<1>2. QED
  BY <1>1, InvInit, InvNext, ShiftedInit, ShiftedNext, PTL DEF Spec

(* The floor of an open window is the cursor less the overlap.             *)
FloorInv == \A w \in Windows : w.floor # None => cursor # None /\ w.floor = cursor - Overlap

LEMMA FloorNext == Inv /\ FloorInv /\ [Next]_vars => FloorInv'
<1> SUFFICES ASSUME Inv, FloorInv, [Next]_vars PROVE FloorInv'
  OBVIOUS
<1>1. TypeOK /\ TypeOK' /\ OpenInv
  BY TypeInductive DEF Inv, Rest
<1>2. CASE Finish \/ Reject
  BY <1>2 DEF Finish, Reject, FloorInv, Windows
<1>3. CASE AnyStart
  <2>1. PICK full \in BOOLEAN, restart \in BOOLEAN, run \in RunIds :
          /\ pending' = Opened(run, full, restart) /\ window' = pending' /\ cursor' = cursor
    BY <1>3 DEF AnyStart, Start, Open, Unused
  <2>2. CASE Resumes(full, restart)
    <3>1. pending \in Windows /\ pending \in Window /\ pending' = Resumed(pending)
      BY <1>1, <2>1, <2>2 DEF Resumes, Opened, Windows, TypeOK
    <3>2. pending'.floor = pending.floor
      BY <3>1 DEF Resumed, Window
    <3>3. QED
      BY <2>1, <3>1, <3>2 DEF FloorInv, Windows
  <2>3. CASE ~Resumes(full, restart)
    BY <2>1, <2>3 DEF Opened, NewWindow, FloorInv, Windows
  <2>4. QED
    BY <2>2, <2>3
<1>4. CASE ReadPage \/ EndFirstPass \/ EndLaterPass
  <2>1. window \in Window /\ window \in Windows /\ cursor' = cursor /\ pending' \in {pending, window'}
    BY <1>1, <1>4, WindowsAre
       DEF ReadPage, EndFirstPass, EndLaterPass, AtEnd, Judge, NextPass, dbVars
  <2>2. window'.floor = window.floor
    BY <1>4, <2>1 DEF ReadPage, EndFirstPass, EndLaterPass, Judge, NextPass, Window
  <2>3. QED
    BY <2>1, <2>2 DEF FloorInv, Windows
<1>5. CASE \/ Count \/ RepeatedPage \/ SavePass \/ ConfirmUnseen \/ Lookup \/ Stop
           \/ Centric \/ Tick \/ StepBack \/ UNCHANGED vars
  <2>1. cursor' = cursor /\ Windows' \subseteq Windows
    BY <1>5 DEF Count, RepeatedPage, SavePass, ConfirmUnseen, Lookup, Stop, Centric, Create,
                Edit, Delete, Tick, StepBack, vars, dbVars, procVars, Windows
  <2>2. QED
    BY <2>1 DEF FloorInv
<1>6. QED
  BY <1>2, <1>3, <1>4, <1>5 DEF Next, Process

(* A fetched database is behind its cursor.                                *)
LEMMA InitCursorSound == Init => CursorSound
<1> SUFFICES ASSUME Init, cursor # None, NEW i \in Ids, centric[i] # None,
                    centric[i].mod < cursor - Overlap
             PROVE  Current(i)
  BY DEF CursorSound
<1>1. TypeOK
  BY InitType
<1>2. cursor = Start0 /\ InitSynced
  BY DEF Init, InitEmpty, InitSynced
<1>3. PICK run \in RunIds, behind \in BOOLEAN :
        bronze = [j \in Ids |->
          IF centric[j] = None \/ (behind /\ centric[j].mod >= Start0 - Overlap)
          THEN None ELSE NewRow(centric[j], run)]
  BY <1>2 DEF InitSynced
<1>4. centric[i].mod \in Int /\ ~ (centric[i].mod >= Start0 - Overlap)
  BY <1>1, <1>2, VersionTypes, ClockAssumption DEF Start0
<1>5. bronze[i] = NewRow(centric[i], run)
  BY <1>3, <1>4
<1>6. bronze[i] # None
  <2>1. centric[i].mod \in Int /\ centric[i].rev \in Nat
    BY <1>1, VersionTypes
  <2>2. NewRow(centric[i], run) \in RowOf(RunIds)
    BY <2>1 DEF NewRow, RowOf
  <2>3. QED
    BY <1>5, <2>2, NoneAssumption
<1>7. QED
  BY <1>5, <1>6 DEF Current, Active, NewRow

(* As long as no window sees more of its records edited or deleted while   *)
(* it is open, the cursor never gets ahead of what is stored: whatever is  *)
(* created meanwhile, however often runs stop and whichever way the clock  *)
(* of this host is set.                                                    *)
THEOREM CursorsAreSound == Spec /\ []FewShifts => []CursorSound
<1>1. Init => CursorSound /\ FloorInv
  BY InitCursorSound DEF Init, FloorInv, Windows
<1>2. Inv /\ Shifted /\ FloorInv /\ FewShifts /\ CursorSound /\ [Next]_vars => CursorSound'
  <2> SUFFICES ASSUME Inv, Shifted, FloorInv, FewShifts, CursorSound, [Next]_vars,
                      cursor' # None, NEW i \in Ids, centric'[i] # None,
                      centric'[i].mod < cursor' - Overlap
               PROVE  Current(i)'
    BY DEF CursorSound
  <2>1. TypeOK /\ Rest
    BY DEF Inv
  <2>2. CASE Finish
    <3>1. window \in Reading /\ window \in Windows /\ window \in Window /\ pc = "finish"
          /\ centric' = centric /\ cursor' \in {window.start, cursor}
      BY <2>1, <2>2, WindowsAre DEF Finish, NextCursor, centricVars
    <3>2. Old(i, window)
      BY <3>1 DEF Old, ChangedSince
    <3>3. cursor' # cursor => Behind(window)
      <4>1. shifts \in Nat /\ (FirstFetch => shifts = 0)
        BY <2>1 DEF FewShifts, TypeOK
      <4>2. FirstFetch => Behind(window)
        BY <2>1, <3>1, <4>1 DEF Rest, JudgeInv, Judged
      <4>3. req.complete => Behind(window)
        BY <3>1 DEF Shifted, ProvenInv, Judged
      <4>4. QED
        BY <2>2, <4>2, <4>3 DEF Finish, NextCursor
    <3>4. Current(i)
      <4>0. CASE cursor' = cursor
        BY <3>1, <4>0 DEF CursorSound
      <4>1. CASE i \in Listed(window) /\ cursor' # cursor
        BY <3>2, <3>3, <4>1 DEF Behind, Stored
      <4>2. CASE i \notin Listed(window)
        <5>1. window.floor # None /\ ~ (centric[i].mod >= window.floor)
          BY <3>1, <4>2 DEF Listed
        <5>2. cursor # None /\ window.floor = cursor - Overlap
          BY <3>1, <5>1 DEF FloorInv
        <5>3. centric[i].mod < cursor - Overlap
          BY <2>1, <3>1, <5>1, <5>2, VersionTypes, ClockAssumption DEF TypeOK
        <5>4. QED
          BY <3>1, <5>2, <5>3 DEF CursorSound
      <4>3. QED
        BY <4>0, <4>1, <4>2
    <3>5. QED
      BY <2>2, <3>1, <3>2, <3>4, FinishStores
  <2>3. CASE ReadPage
    <3>1. centric' = centric /\ cursor' = cursor
      BY <2>3 DEF ReadPage, centricVars
    <3>2. Current(i)
      BY <3>1 DEF CursorSound
    <3>3. QED
      BY <2>3, <3>2, ReadPageStores
  <2>4. CASE Centric
    <3>1. PICK j \in Ids : Create(j) \/ Edit(j) \/ Delete(j)
      BY <2>4 DEF Centric
    <3>2. cursor' = cursor /\ bronze' = bronze /\ (i # j => centric'[i] = centric[i])
          /\ (i = j => centric'[i].mod = srv)
      BY <3>1, ChangedRecord
    <3>3. i # j
      BY <2>1, <3>2, ClockAssumption DEF TypeOK, Rest, ClockInv
    <3>4. QED
      BY <3>2, <3>3 DEF CursorSound, Current, Active
  <2>5. CASE UNCHANGED <<centric, cursor, bronze>>
    BY <2>5 DEF CursorSound, Current, Active
  <2>6. QED
    BY <2>2, <2>3, <2>4, <2>5 DEF Next, Process, AnyStart, Start, Open, Count, RepeatedPage, Reject,
       EndFirstPass, EndLaterPass, Judge, NextPass, SavePass, ConfirmUnseen, Lookup, Stop,
       Tick, StepBack, vars, centricVars, dbVars
<1>3. QED
  BY <1>1, <1>2, InvInit, InvNext, ShiftedInit, ShiftedNext, FloorNext, PTL DEF Spec

(* The bounds of the model's changes.                                      *)
BoundInv == shifts <= IF FirstFetch THEN MaxFirstShifts ELSE MaxShifts

LEMMA ShiftsAreBounded == Spec => []BoundInv
<1>1. Init => BoundInv
  BY BoundsAssumption DEF Init, BoundInv
<1>2. TypeOK /\ BoundInv /\ [Next]_vars => BoundInv'
  <2> SUFFICES ASSUME TypeOK, BoundInv, [Next]_vars PROVE BoundInv'
    OBVIOUS
  <2>1. MaxShifts \in Nat /\ MaxFirstShifts \in Nat /\ shifts \in Nat
    BY BoundsAssumption DEF TypeOK
  <2>2. CASE AnyStart
    BY <2>1, <2>2 DEF AnyStart, Start, Open, BoundInv, FirstFetch
  <2>3. CASE Reject \/ Finish
    BY <2>1, <2>3 DEF Reject, Finish, BoundInv
  <2>4. CASE Centric
    BY <2>1, <2>4 DEF Centric, Create, Edit, Delete, Shift, dbVars, BoundInv, FirstFetch
  <2>5. CASE UNCHANGED <<cursor, shifts>>
    BY <2>5 DEF BoundInv, FirstFetch
  <2>6. QED
    BY <2>2, <2>3, <2>4, <2>5 DEF Next, Process, Count, ReadPage, RepeatedPage, EndFirstPass,
       EndLaterPass, Judge, NextPass, SavePass, ConfirmUnseen, Lookup, Stop, Tick, StepBack,
       vars, dbVars, histVars
<1>3. QED
  BY <1>1, <1>2, InitType, TypeInductive, PTL DEF Spec

(* With the bounds fetch_changing and fetch_stopped set on such changes,   *)
(* whatever the other constants are, what is judged complete is.           *)
THEOREM ProvenIsCompleteInBounds ==
  ASSUME MaxShifts <= 1, MaxFirstShifts = 0
  PROVE  Spec => []ProvenIsComplete
<1>1. TypeOK /\ BoundInv => FewShifts
  BY BoundsAssumption DEF BoundInv, FewShifts, TypeOK
<1>2. QED
  BY <1>1, TypeCorrect, ShiftsAreBounded, ProvenWindowsAreComplete, PTL

(* And the cursor is behind what is stored.                                *)
THEOREM CursorSoundInBounds ==
  ASSUME MaxShifts <= 1, MaxFirstShifts = 0
  PROVE  Spec => []CursorSound
<1>1. TypeOK /\ BoundInv => FewShifts
  BY BoundsAssumption DEF BoundInv, FewShifts, TypeOK
<1>2. QED
  BY <1>1, TypeCorrect, ShiftsAreBounded, CursorsAreSound, PTL
=============================================================================
