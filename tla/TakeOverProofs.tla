--------------------------- MODULE TakeOverProofs ---------------------------
(***************************************************************************)
(* A run that took the lock over, whatever its former owner still writes,  *)
(* for every set of records and bounds, also when the holder is stopped    *)
(* and resumed: its deletions stay confirmed, a quiet window mirrors       *)
(* Centric, what is judged complete is, and the cursor stays behind what   *)
(* is stored.                                                              *)
(***************************************************************************)
EXTENDS TakeOver, FetchEndpointProofs

(* The steps of the deposed run: those that leave the holder's memory and  *)
(* the records alone, and the one that makes a holder of another run.      *)
Aside ==
  \/ \E full, restart \in BOOLEAN : Arrive(full, restart)
  \/ Answer \/ SaveWindow \/ DropWindow \/ Depart

LEMMA AsideFrame ==
  Aside => UNCHANGED <<centricVars, now, bronze, cursor, procVars, gone, shifts, stops, stepBacks>>
BY DEF Aside, Arrive, Answer, SaveWindow, DropWindow, Depart, vars, dbVars, histVars

(* The holder's steps are those of FetchEndpoint but for the new run ids.  *)
LEMMA HolderCases ==
  Holder => HolderStart \/ [Next]_vars
BY DEF Holder, Next

LEMMA AgainType ==
  ASSUME NEW w \in Window
  PROVE  Again(w) \in Window
<1>1. w.pass + 1 \in Nat
  BY DEF Window
<1>2. QED
  BY <1>1 DEF Again, Window

LEMMA HolderStartType ==
  ASSUME TakeOverTypeOK, HolderStart
  PROVE  TypeOK'
<1>1. PICK full \in BOOLEAN, restart \in BOOLEAN, allow \in BOOLEAN, run \in RunIds :
        /\ Open(run, full, restart, allow)
        /\ quiet' = IF Resumes(full, restart) THEN quiet
                    ELSE {run} \cup (quiet \cap BornBy(dwindow))
  BY DEF HolderStart, UnusedBy
<1>2. quiet' \subseteq RunIds
  BY <1>1 DEF TakeOverTypeOK, TypeOK
<1>3. QED
  BY <1>1, <1>2, OpenType DEF TakeOverTypeOK

LEMMA DeposeType ==
  ASSUME TakeOverTypeOK, Depose
  PROVE  TakeOverTypeOK'
<1>1. window \in Window
  BY NoneAssumption DEF Depose, TakeOverTypeOK, TypeOK
<1>2. /\ deposed' \in {"saving", "reading", "dropping"}
      /\ deposed' \in {"saving", "reading"} => dwindow' \in Window
      /\ deposed' = "dropping" => dwindow' = None
      /\ IsPage(dprev', Ids)
  BY <1>1, NothingInMemory DEF Depose, TakeOverTypeOK, TypeOK, NoPass
<1>3. TypeOK'
  BY NothingInMemory DEF Depose, TakeOverTypeOK, TypeOK, centricVars, dbVars
<1>4. QED
  BY <1>2, <1>3, WindowNotNone DEF TakeOverTypeOK

LEMMA AsideType ==
  ASSUME TakeOverTypeOK, Aside
  PROVE  TakeOverTypeOK'
<1>1. CASE \E full, restart \in BOOLEAN : Arrive(full, restart)
  <2>1. PICK full \in BOOLEAN, restart \in BOOLEAN, run \in RunIds :
          /\ deposed' = "opening" /\ dwindow' = Opened(run, full, restart) /\ dprev' = EmptyPage
          /\ quiet' = IF Resumes(full, restart) THEN quiet ELSE quiet \cup {run}
          /\ UNCHANGED dbVars
    BY <1>1 DEF Arrive, UnusedBy
  <2>2. dwindow' \in Window /\ quiet' \subseteq RunIds /\ IsPage(dprev', Ids)
    BY <2>1, OpenedType, NothingInMemory DEF TakeOverTypeOK, TypeOK, NoPass
  <2>3. QED
    BY <2>1, <2>2, AsideFrame, WindowNotNone
       DEF TakeOverTypeOK, TypeOK, centricVars, dbVars, procVars
<1>2. CASE SaveWindow
  <2>1. dwindow \in Window
    BY <1>2 DEF SaveWindow, TakeOverTypeOK
  <2>2. /\ deposed' \in {"saving", "reading"} /\ UNCHANGED <<dwindow, dprev, histVars>>
        /\ pending' \in Window
    BY <1>2, <2>1 DEF SaveWindow
  <2>3. QED
    BY <2>1, <2>2, AsideFrame, WindowNotNone
       DEF TakeOverTypeOK, TypeOK, centricVars, procVars, histVars
<1>3. CASE DropWindow
  BY <1>3, AsideFrame DEF DropWindow, TakeOverTypeOK, TypeOK, centricVars, procVars, histVars
<1>4. CASE Answer \/ Depart
  <2>1. TypeOK' /\ IsPage(dprev', Ids)
    BY <1>4, NothingInMemory
       DEF Answer, Depart, TakeOverTypeOK, TypeOK, NoPass, vars, centricVars, dbVars, procVars, histVars
  <2>2. CASE deposed' = "saving"
    <3>1. dwindow \in Window /\ dwindow' = Again(dwindow)
      BY <1>4, <2>2 DEF Answer, Depart, TakeOverTypeOK
    <3>2. QED
      BY <2>1, <2>2, <3>1, AgainType, WindowNotNone DEF TakeOverTypeOK
  <2>3. CASE deposed' \in {"dropping", "gone"} /\ dwindow' = None
    BY <2>1, <2>3 DEF TakeOverTypeOK
  <2>4. QED
    BY <1>4, <2>2, <2>3 DEF Answer, Depart
<1>5. QED
  BY <1>1, <1>2, <1>3, <1>4 DEF Aside

LEMMA TakeOverTypeInductive ==
  TakeOverTypeOK /\ [TakeOverNext]_<<vars, deposedVars>> => TakeOverTypeOK'
<1> SUFFICES ASSUME TakeOverTypeOK, [TakeOverNext]_<<vars, deposedVars>>
             PROVE  TakeOverTypeOK'
  OBVIOUS
<1>1. CASE Depose
  BY <1>1, DeposeType
<1>2. CASE Aside
  BY <1>2, AsideType
<1>3. CASE HolderStart /\ UNCHANGED deposedVars
  BY <1>3, HolderStartType DEF TakeOverTypeOK, deposedVars
<1>4. CASE [Next]_vars /\ UNCHANGED deposedVars
  BY <1>4, TypeInductive DEF TakeOverTypeOK, deposedVars
<1>5. QED
  BY <1>1, <1>2, <1>3, <1>4, HolderCases DEF TakeOverNext, Deposed, Aside

(* Every variable keeps its type when a run takes the lock over.           *)
THEOREM TakeOverTypeCorrect == TakeOverSpec => []TakeOverTypeOK
<1>1. TakeOverInit => TakeOverTypeOK
  BY InitType, NothingInMemory DEF TakeOverInit, TakeOverTypeOK, NoPass
<1>2. QED
  BY <1>1, TakeOverTypeInductive, PTL DEF TakeOverSpec

LEMMA TakeOverMissingIsGone ==
  TakeOverTypeOK /\ MissingIsGone /\ [TakeOverNext]_<<vars, deposedVars>> => MissingIsGone'
<1> SUFFICES ASSUME TakeOverTypeOK, MissingIsGone, [TakeOverNext]_<<vars, deposedVars>>
             PROVE  MissingIsGone'
  OBVIOUS
<1> USE DEF MissingIsGone
<1>1. CASE Depose
  BY <1>1 DEF Depose
<1>2. CASE Aside
  BY <1>2, AsideFrame DEF centricVars, procVars
<1>3. CASE HolderStart
  BY <1>3 DEF HolderStart, Open, centricVars
<1>4. CASE [Next]_vars
  BY <1>4, MissingIsGoneInductive DEF TakeOverTypeOK
<1>5. QED
  BY <1>1, <1>2, <1>3, <1>4, HolderCases DEF TakeOverNext, Deposed, Aside

(* Whatever a deposed run does to the pending window, the run that holds   *)
(* the lock flags a row only when asked to and only for a record Centric   *)
(* has been without since it began.                                        *)
THEOREM HoldersDeletionsAreConfirmed == TakeOverSpec => DeletesConfirmed
<1> DEFINE Confirmed == \A i \in Ids : Flagged(i) => req.allow /\ i \in gone
<1>1. TakeOverInit => MissingIsGone
  BY DEF TakeOverInit, Init, MissingIsGone
<1>2. TakeOverTypeOK /\ MissingIsGone /\ [TakeOverNext]_<<vars, deposedVars>>
        => [Confirmed]_vars
  <2> SUFFICES ASSUME TakeOverTypeOK, MissingIsGone, [TakeOverNext]_<<vars, deposedVars>>
               PROVE  [Confirmed]_vars
    OBVIOUS
  <2>1. CASE bronze' = bronze
    BY <2>1 DEF Flagged
  <2>2. CASE [Next]_vars
    BY <2>2, StepsConfirmed DEF TakeOverTypeOK
  <2>3. Depose \/ Aside \/ HolderStart => bronze' = bronze
    BY AsideFrame DEF Depose, HolderStart, Open, dbVars
  <2>4. QED
    BY <2>1, <2>2, <2>3, HolderCases DEF TakeOverNext, Deposed, Aside
<1>3. QED
  BY <1>1, <1>2, TakeOverTypeCorrect, TakeOverMissingIsGone, PTL
     DEF TakeOverSpec, DeletesConfirmed

-----------------------------------------------------------------------------
(* Quiet windows.  A window can go back to an earlier save, and another    *)
(* window's run can stamp its rows, so that neither its position nor its   *)
(* stamps say what this reading of it has seen.  What still holds of a     *)
(* window opened after Centric's last change, wherever it is kept, is that *)
(* what lies before its position is stored, by whichever run.              *)

Before(w) == {i \in Listed(w) : Rank(i, Listed(w)) < w.skip}

Covered(w) == IF w.pass = 1 THEN Before(w) ELSE Listed(w)

Covers(w) == w.run \in quiet => \A i \in Covered(w) : Settled(i)

Kept == {window, pending, dwindow} \ {None}

CoverInv == \A w \in Kept : Covers(w)

(* What a quiet run has stamped is Centric's.                              *)
StampsInv == \A i \in Ids : bronze[i] # None /\ bronze[i].seen \in quiet => centric[i] # None

(* What the holder knows of a quiet window: its count is right, a later    *)
(* pass has seen what lies before its position and nothing twice, and what *)
(* is judged and looked up is so.                                          *)
HolderInv ==
  \A w \in Reading : w.run \in quiet =>
    /\ pc \in {"count", "save"} /\ w.pass # 1 => w.skip = 0
    /\ pc = "save" => w.pass # 1
    /\ pc # "count" => pass.expected = Cardinality(Listed(w))
    /\ pc = "read" /\ w.pass # 1 => pass.seen = Before(w) /\ ~pass.dup
    /\ pc \in Judged => \A i \in Listed(w) : Settled(i)
    /\ pc \in {"confirm", "lookup"} => w.mode = "full"
    /\ pc = "finish" => check.todo = {} /\ (w.mode = "delta" => req.complete)
    /\ \A i \in DOMAIN check.found : centric[i] # None
    /\ pc \in {"lookup", "finish"} /\ w.mode = "full" /\ req.any =>
         \A i \in Ids : centric[i] = None /\ Active(bronze[i])
                          => i \in check.todo \cup check.missing

QuietRest == VersionsInv /\ StampsInv /\ CoverInv /\ HolderInv

QuietWindowsInv == TakeOverTypeOK /\ MissingIsGone /\ QuietRest

LEMMA VersionsStay ==
  ASSUME TypeOK, VersionsInv, UNCHANGED <<centric, rev, bronze>>,
         srv \in Int, srv' \in Int, srv <= srv', check' = check \/ check' = NoCheck
  PROVE  VersionsInv'
<1>1. ASSUME NEW v, NEW current, v.mod \in Int, Known(v, current, rev, srv)
      PROVE  Known(v, current, rev', srv')
  BY <1>1 DEF Known
<1>2. \A i \in Ids : centric[i] # None => Known(centric[i], centric[i], rev', srv')
  BY <1>1, VersionTypes DEF VersionsInv
<1>3. \A i \in Ids : bronze[i] # None => Known(bronze[i], centric[i], rev', srv')
  BY <1>1, VersionTypes DEF VersionsInv
<1>4. \A i \in DOMAIN check'.found : Known(check'.found[i], centric[i], rev', srv')
  <2>1. CASE check' = NoCheck
    BY <2>1 DEF NoCheck, EmptyPage
  <2>2. CASE check' = check
    <3>1. \A i \in DOMAIN check.found : check.found[i].mod \in Int
      BY DEF TypeOK, IsPage, Version
    <3>2. QED
      BY <1>1, <2>2, <3>1 DEF VersionsInv
  <2>3. QED
    BY <2>1, <2>2
<1>5. QED
  BY <1>2, <1>3, <1>4 DEF VersionsInv

(* A window covers what it did as long as Centric, the records and what is *)
(* in memory of them stay.                                                 *)
LEMMA CoversStay ==
  ASSUME UNCHANGED <<centric, bronze>>, check' = check \/ check' = NoCheck,
         NEW w, w.run \in quiet' => w.run \in quiet, Covers(w)
  PROVE  Covers(w)'
<1>1. Listed(w)' = Listed(w) /\ \A i, S : Rank(i, S)' = Rank(i, S)
  BY DEF Listed, Rank
<1>2. Covered(w)' = Covered(w)
  BY <1>1 DEF Covered, Before
<1>3. \A i : Settled(i) => Settled(i)'
  BY DEF Settled, Current, Active, NoCheck, EmptyPage
<1>4. QED
  BY <1>2, <1>3 DEF Covers

(* A pass has come to its end when it covers all.                          *)
LEMMA EndCoversAll ==
  ASSUME TypeOK, VersionsInv, NEW w \in Window, DOMAIN Page(w) = {}
  PROVE  Before(w) = Listed(w) /\ Covered(w) = Listed(w)
<1>1. w.skip \in Nat /\ Limit \in Nat \ {0}
  BY LimitAssumption DEF Window
<1>2. \A i \in Listed(w) : Rank(i, Listed(w)) \notin w.skip .. (w.skip + Limit - 1)
  BY DEF Page
<1>3. ASSUME NEW i \in Listed(w), Rank(i, Listed(w)) >= w.skip
      PROVE  FALSE
  <2>1. PICK j \in Listed(w) : Rank(j, Listed(w)) = w.skip
    BY <1>1, <1>3, ListedOrdered, NoRankIsMissing
  <2>2. QED
    BY <1>1, <1>2, <2>1
<1>4. \A i \in Listed(w) : Rank(i, Listed(w)) < w.skip
  BY <1>1, <1>3, ListedOrdered
<1>5. QED
  BY <1>4 DEF Before, Covered

(* The pass after covers no more than that.                                *)
LEMMA AgainCovers ==
  ASSUME TypeOK, VersionsInv, NEW w \in Window, DOMAIN Page(w) = {}, Covers(w)
  PROVE  Covers(Again(w))
<1>1. /\ Again(w).run = w.run
      /\ Listed(Again(w)) = Listed(w)
  BY DEF Again, Window, Listed
<1>2. Covered(Again(w)) \subseteq Covered(w)
  BY <1>1, EndCoversAll DEF Covered, Before
<1>3. QED
  BY <1>1, <1>2 DEF Covers

(* A new window covers nothing, one resumed no more than it did.           *)
LEMMA OpenedCovers ==
  ASSUME TypeOK, VersionsInv, pending # None => Covers(pending),
         NEW run \in RunIds, NEW full, NEW restart,
         NEW w, w = Opened(run, full, restart)
  PROVE  /\ w.pass # 1 => w.skip = 0
         /\ Resumes(full, restart) => w.run = pending.run /\ Covers(w)
         /\ ~Resumes(full, restart) => w.run = run /\ Covered(w) = {}
<1>1. CASE Resumes(full, restart)
  <2>1. pending \in Window /\ w = Resumed(pending)
    BY <1>1 DEF Resumes, Opened, TypeOK
  <2>2. /\ w.run = pending.run /\ w.pass = pending.pass /\ w.floor = pending.floor
        /\ w.pass = 1 => w.skip = pending.skip
        /\ w.pass # 1 => w.skip = 0
    BY <2>1 DEF Resumed, Window
  <2>3. Listed(w) = Listed(pending)
    BY <2>2 DEF Listed
  <2>4. Covered(w) = Covered(pending)
    BY <2>2, <2>3 DEF Covered, Before
  <2>5. QED
    BY <1>1, <2>1, <2>2, <2>4, WindowNotNone DEF Covers
<1>2. CASE ~Resumes(full, restart)
  <2>1. w.run = run /\ w.pass = 1 /\ w.skip = 0
    BY <1>2 DEF Opened, NewWindow
  <2>2. \A i : Rank(i, Listed(w)) \in Nat
    BY ListedOrdered
  <2>3. QED
    BY <1>2, <2>1, <2>2 DEF Covered, Before
<1>3. QED
  BY <1>1, <1>2

(* A step that leaves Centric and the records alone, opens no window whose *)
(* run a row bears and leaves no window past what it covers.               *)
LEMMA CalmStep ==
  ASSUME QuietWindowsInv, UNCHANGED <<centric, rev, bronze>>, srv' \in {srv, srv + 1},
         check' = check \/ check' = NoCheck,
         \A i \in Ids : bronze[i] # None /\ bronze[i].seen \in quiet' => bronze[i].seen \in quiet,
         \A w \in Kept' : \/ Covered(w) = {}
                          \/ (w.run \in quiet' => w.run \in quiet) /\ Covers(w)
  PROVE  VersionsInv' /\ StampsInv' /\ CoverInv'
<1>1. TypeOK /\ VersionsInv /\ StampsInv /\ srv \in Int /\ srv' \in Int /\ srv <= srv'
  BY DEF QuietWindowsInv, QuietRest, TakeOverTypeOK, TypeOK
<1>2. VersionsInv'
  BY <1>1, VersionsStay
<1>3. StampsInv'
  BY <1>1 DEF StampsInv
<1>4. ASSUME NEW w \in Kept'
      PROVE  Covers(w)'
  <2>1. CASE Covered(w) = {}
    <3>1. Covered(w)' = Covered(w)
      BY DEF Covered, Before, Listed, Rank
    <3>2. QED
      BY <2>1, <3>1 DEF Covers
  <2>2. CASE (w.run \in quiet' => w.run \in quiet) /\ Covers(w)
    BY <2>2, CoversStay
  <2>3. QED
    BY <1>4, <2>1, <2>2
<1>5. QED
  BY <1>2, <1>3, <1>4 DEF CoverInv

(* The holder knows what it knew while it does nothing.                    *)
LEMMA HolderStays ==
  ASSUME HolderInv, UNCHANGED <<centric, bronze, procVars>>,
         \A w \in Reading : w.run \in quiet' => w.run \in quiet
  PROVE  HolderInv'
<1>1. \A w : Listed(w)' = Listed(w) /\ Before(w)' = Before(w)
  BY DEF Before, Listed, Rank
<1>2. \A i : Settled(i)' <=> Settled(i)
  BY DEF Settled, Current, Active, procVars
<1>3. Reading' = Reading
  BY DEF Reading, procVars
<1>4. QED
  BY <1>1, <1>2, <1>3 DEF HolderInv, procVars

LEMMA IdleHolder ==
  ASSUME window' = None
  PROVE  HolderInv'
BY DEF HolderInv, Reading

LEMMA ClockQuiet ==
  ASSUME QuietWindowsInv, Tick \/ StepBack, UNCHANGED deposedVars
  PROVE  QuietRest'
<1>1. /\ UNCHANGED <<centric, rev, bronze, procVars, check, quiet, window, pending, dwindow>>
      /\ srv' \in {srv, srv + 1}
  BY DEF Tick, StepBack, centricVars, dbVars, histVars, deposedVars, procVars
<1>2. Kept' = Kept
  BY <1>1 DEF Kept
<1>3. HolderInv /\ CoverInv
  BY DEF QuietWindowsInv, QuietRest
<1>4. HolderInv'
  BY <1>1, <1>3, HolderStays
<1>5. QED
  BY <1>1, <1>2, <1>3, <1>4, CalmStep DEF QuietRest, CoverInv

LEMMA StopQuiet ==
  ASSUME QuietWindowsInv, Stop, UNCHANGED deposedVars
  PROVE  QuietRest'
<1>1. /\ UNCHANGED <<centric, rev, srv, bronze, quiet, pending, dwindow>>
      /\ window' = None /\ check' = NoCheck
  BY DEF Stop, centricVars, dbVars, deposedVars
<1>2. Kept' \subseteq Kept
  BY <1>1 DEF Kept
<1>3. CoverInv
  BY DEF QuietWindowsInv, QuietRest
<1>4. QED
  BY <1>1, <1>2, <1>3, IdleHolder, CalmStep DEF QuietRest, CoverInv

LEMMA RejectQuiet ==
  ASSUME QuietWindowsInv, Reject, UNCHANGED deposedVars
  PROVE  QuietRest'
<1>1. /\ UNCHANGED <<centric, rev, srv, bronze, dwindow>> /\ quiet' \subseteq quiet
      /\ window' = None /\ pending' = None /\ check' = NoCheck
  BY DEF Reject, centricVars, deposedVars
<1>2. Kept' \subseteq Kept
  BY <1>1 DEF Kept
<1>3. CoverInv
  BY DEF QuietWindowsInv, QuietRest
<1>4. QED
  BY <1>1, <1>2, <1>3, IdleHolder, CalmStep DEF QuietRest, CoverInv

(* Nothing is quiet after a change.                                        *)
LEMMA CentricQuiet ==
  ASSUME QuietWindowsInv, Centric
  PROVE  QuietRest'
<1>1. PICK i \in Ids : Create(i) \/ Edit(i) \/ Delete(i)
  BY DEF Centric
<1>2. TypeOK /\ VersionsInv
  BY DEF QuietWindowsInv, QuietRest, TakeOverTypeOK
<1>3. VersionsInv' /\ quiet' = {}
  BY <1>1, <1>2, ChangedVersions, ChangedCentric
<1>4. QED
  BY <1>3 DEF QuietRest, StampsInv, CoverInv, Covers, HolderInv

(* What the deposed run holds covers no more than the window it had: it is *)
(* that window, or its next pass.                                          *)
LEMMA DeposeQuiet ==
  ASSUME QuietWindowsInv, Depose
  PROVE  QuietRest'
<1>1. /\ UNCHANGED <<centric, rev, srv, bronze, quiet, pending>>
      /\ window' = None /\ check' = NoCheck
      /\ dwindow' \in {window, None}
  BY DEF Depose, centricVars, dbVars
<1>2. CoverInv /\ window # None
  BY NoneAssumption DEF QuietWindowsInv, QuietRest, TakeOverTypeOK, TypeOK, Depose
<1>3. \A w \in Kept' : Covers(w)
  BY <1>1, <1>2 DEF Kept, CoverInv
<1>4. QED
  BY <1>1, <1>3, IdleHolder, CalmStep DEF QuietRest

LEMMA AnswerQuiet ==
  ASSUME QuietWindowsInv, Answer
  PROVE  QuietRest'
<1>1. /\ UNCHANGED <<centric, rev, srv, bronze, check, quiet, window, pending, procVars>>
      /\ \/ DOMAIN Page(dwindow) = {} /\ dwindow' = Again(dwindow)
         \/ dwindow' = None
  BY DEF Answer, vars, centricVars, dbVars, procVars, histVars
<1>2. TypeOK /\ VersionsInv /\ CoverInv /\ HolderInv /\ dwindow \in Window /\ dwindow # None
  BY NoneAssumption DEF QuietWindowsInv, QuietRest, TakeOverTypeOK, Answer
<1>3. Covers(dwindow)
  BY <1>2 DEF CoverInv, Kept
<1>4. \A w \in Kept' : Covers(w)
  BY <1>1, <1>2, <1>3, AgainCovers DEF Kept, CoverInv
<1>5. HolderInv'
  BY <1>1, <1>2, HolderStays
<1>6. QED
  BY <1>1, <1>4, <1>5, CalmStep DEF QuietRest

LEMMA SaveWindowQuiet ==
  ASSUME QuietWindowsInv, SaveWindow
  PROVE  QuietRest'
<1>1. /\ UNCHANGED <<centric, rev, srv, bronze, check, quiet, window, procVars>>
      /\ pending' = dwindow /\ dwindow' = dwindow
  BY DEF SaveWindow, centricVars, procVars, histVars
<1>2. CoverInv /\ HolderInv
  BY DEF QuietWindowsInv, QuietRest
<1>3. Kept' \subseteq Kept
  BY <1>1 DEF Kept
<1>4. HolderInv'
  BY <1>1, <1>2, HolderStays
<1>5. QED
  BY <1>1, <1>2, <1>3, <1>4, CalmStep DEF QuietRest, CoverInv

LEMMA DropWindowQuiet ==
  ASSUME QuietWindowsInv, DropWindow \/ Depart
  PROVE  QuietRest'
<1>1. /\ UNCHANGED <<centric, rev, srv, bronze, check, quiet, window, procVars>>
      /\ pending' \in {pending, None} /\ dwindow' \in {dwindow, None}
  BY DEF DropWindow, Depart, vars, dbVars, centricVars, procVars, histVars
<1>2. CoverInv /\ HolderInv
  BY DEF QuietWindowsInv, QuietRest
<1>3. Kept' \subseteq Kept
  BY <1>1 DEF Kept
<1>4. HolderInv'
  BY <1>1, <1>2, HolderStays
<1>5. QED
  BY <1>1, <1>2, <1>3, <1>4, CalmStep DEF QuietRest, CoverInv

(* A run that comes to the endpoint bears an id that is not yet used.      *)
LEMMA NewRunIsNew ==
  ASSUME NEW w, NEW run \in UnusedBy(w)
  PROVE  /\ run \in RunIds
         /\ w # None => w.run # run
         /\ pending # None => pending.run # run
         /\ \A i \in Ids : bronze[i] # None => bronze[i].seen # run
BY DEF UnusedBy, Used, BornBy

LEMMA ArriveQuiet ==
  ASSUME QuietWindowsInv, \E full, restart \in BOOLEAN : Arrive(full, restart)
  PROVE  QuietRest'
<1>1. PICK full \in BOOLEAN, restart \in BOOLEAN, run \in UnusedBy(window) :
        /\ dwindow' = Opened(run, full, restart)
        /\ quiet' = IF Resumes(full, restart) THEN quiet ELSE quiet \cup {run}
  BY DEF Arrive
<1>2. UNCHANGED <<centric, rev, srv, bronze, check, window, pending, procVars>>
  BY DEF Arrive, centricVars, dbVars, procVars
<1>3. TypeOK /\ VersionsInv /\ CoverInv /\ HolderInv
  BY DEF QuietWindowsInv, QuietRest, TakeOverTypeOK
<1>4. /\ Resumes(full, restart) => Covers(dwindow')
      /\ ~Resumes(full, restart) => Covered(dwindow') = {}
  <2>1. pending # None => Covers(pending)
    BY <1>3 DEF CoverInv, Kept
  <2>2. QED
    BY <1>1, <1>3, <2>1, NewRunIsNew, OpenedCovers
<1>5. /\ Resumes(full, restart) => quiet' = quiet
      /\ \A w \in {window, pending} \ {None} : w.run \in quiet' => w.run \in quiet
      /\ \A i \in Ids : bronze[i] # None /\ bronze[i].seen \in quiet' => bronze[i].seen \in quiet
  BY <1>1, NewRunIsNew
<1>6. \A w \in Kept' : Covered(w) = {} \/ ((w.run \in quiet' => w.run \in quiet) /\ Covers(w))
  BY <1>2, <1>3, <1>4, <1>5 DEF Kept, CoverInv
<1>7. HolderInv'
  BY <1>2, <1>3, <1>5, HolderStays DEF Reading
<1>8. QED
  BY <1>2, <1>5, <1>6, <1>7, CalmStep DEF QuietRest

LEMMA HolderStartQuiet ==
  ASSUME QuietWindowsInv, HolderStart, UNCHANGED deposedVars
  PROVE  QuietRest'
<1>1. PICK full \in BOOLEAN, restart \in BOOLEAN, allow \in BOOLEAN, run \in UnusedBy(dwindow) :
        /\ Open(run, full, restart, allow)
        /\ quiet' = IF Resumes(full, restart) THEN quiet
                    ELSE {run} \cup (quiet \cap BornBy(dwindow))
  BY DEF HolderStart
<1>2. /\ UNCHANGED <<centric, rev, srv, bronze, check, dwindow>> /\ pending' = window'
      /\ window' = Opened(run, full, restart) /\ pc = "idle" /\ pc' = "count"
  BY <1>1 DEF Open, centricVars, deposedVars
<1>3. TypeOK /\ VersionsInv /\ CoverInv /\ check = NoCheck
  BY <1>2 DEF QuietWindowsInv, QuietRest, TakeOverTypeOK, MissingIsGone
<1>4. /\ Resumes(full, restart) => Covers(window')
      /\ ~Resumes(full, restart) => Covered(window') = {}
      /\ window'.pass # 1 => window'.skip = 0
  <2>1. pending # None => Covers(pending)
    BY <1>3 DEF CoverInv, Kept
  <2>2. QED
    BY <1>2, <1>3, <2>1, NewRunIsNew, OpenedCovers
<1>5. /\ Resumes(full, restart) => quiet' = quiet
      /\ dwindow # None => (dwindow.run \in quiet' => dwindow.run \in quiet)
      /\ \A i \in Ids : bronze[i] # None /\ bronze[i].seen \in quiet' => bronze[i].seen \in quiet
  BY <1>1, NewRunIsNew
<1>6. \A w \in Kept' : Covered(w) = {} \/ ((w.run \in quiet' => w.run \in quiet) /\ Covers(w))
  BY <1>2, <1>3, <1>4, <1>5 DEF Kept, CoverInv
<1>7. HolderInv'
  BY <1>2, <1>3, <1>4 DEF HolderInv, Reading, Judged, NoCheck, EmptyPage
<1>8. QED
  BY <1>2, <1>5, <1>6, <1>7, CalmStep DEF QuietRest

(* The steps that read the window.                                         *)
LEMMA CountQuiet ==
  ASSUME QuietWindowsInv, Count, UNCHANGED deposedVars
  PROVE  QuietRest'
<1>1. /\ UNCHANGED <<centric, rev, srv, bronze, check, quiet, window, pending, dwindow>>
      /\ pc = "count" /\ pc' = (IF window.pass = 1 THEN "read" ELSE "save")
      /\ pass' = [NoPass EXCEPT !.expected = Cardinality(Listed(window))]
  BY DEF Count, centricVars, dbVars, histVars, deposedVars
<1>2. CoverInv /\ HolderInv /\ check = NoCheck
  BY <1>1 DEF QuietWindowsInv, QuietRest, MissingIsGone
<1>3. Kept' = Kept /\ Reading' = Reading /\ \A w \in Reading : w = window
  BY <1>1 DEF Kept, Reading
<1>4. Listed(window)' = Listed(window)
  BY <1>1 DEF Listed
<1>5. HolderInv'
  <2>1. ASSUME NEW w \in Reading', w.run \in quiet'
        PROVE  /\ w = window /\ Listed(w)' = Listed(window)
               /\ w.pass # 1 => w.skip = 0
    BY <1>1, <1>2, <1>3, <1>4, <2>1 DEF HolderInv
  <2>2. pass'.expected = Cardinality(Listed(window))
    BY <1>1 DEF NoPass
  <2>3. pc' = "read" => window.pass = 1
    BY <1>1
  <2>4. pc' = "save" => window.pass # 1
    BY <1>1
  <2>5. pc' \in {"read", "save"} /\ check' = NoCheck
    BY <1>1, <1>2
  <2>6. QED
    BY <2>1, <2>2, <2>3, <2>4, <2>5 DEF HolderInv, Judged, NoCheck, EmptyPage
<1>6. QED
  BY <1>1, <1>2, <1>3, <1>5, CalmStep DEF QuietRest, CoverInv

LEMMA SavePassQuiet ==
  ASSUME QuietWindowsInv, SavePass, UNCHANGED deposedVars
  PROVE  QuietRest'
<1>1. /\ UNCHANGED <<centric, rev, srv, bronze, check, quiet, window, dwindow>>
      /\ pc = "save" /\ pc' = "read" /\ pending' = window
      /\ pass' = [NoPass EXCEPT !.expected = pass.expected]
  BY DEF SavePass, centricVars, histVars, deposedVars
<1>2. CoverInv /\ HolderInv /\ check = NoCheck /\ TypeOK
  BY <1>1 DEF QuietWindowsInv, QuietRest, MissingIsGone, TakeOverTypeOK
<1>3. Kept' \subseteq Kept /\ Reading' = Reading /\ \A w \in Reading : w = window
  BY <1>1 DEF Kept, Reading
<1>4. Listed(window)' = Listed(window)
  BY <1>1 DEF Listed
<1>5. HolderInv'
  <2>1. ASSUME NEW w \in Reading', w.run \in quiet'
        PROVE  /\ w = window /\ Listed(w)' = Listed(w) /\ w.skip = 0
               /\ pass.expected = Cardinality(Listed(w))
    BY <1>1, <1>2, <1>3, <1>4, <2>1 DEF HolderInv
  <2>2. pass'.expected = pass.expected /\ pass'.seen = {} /\ ~pass'.dup
    BY <1>1 DEF NoPass
  <2>3. ASSUME NEW w \in Reading', w.run \in quiet'
        PROVE  Before(w)' = {}
    <3>1. \A i \in Listed(w) : Rank(i, Listed(w)) \in Nat
      BY <1>2, ListedOrdered DEF QuietWindowsInv, QuietRest
    <3>2. \A i : Rank(i, Listed(w))' = Rank(i, Listed(w))
      BY <1>1, <2>1, <2>3 DEF Rank
    <3>3. QED
      BY <2>1, <2>3, <3>1, <3>2 DEF Before
  <2>4. pc' = "read" /\ check' = NoCheck
    BY <1>1, <1>2
  <2>5. QED
    BY <2>1, <2>2, <2>3, <2>4 DEF HolderInv, Judged, NoCheck, EmptyPage
<1>6. QED
  BY <1>1, <1>2, <1>3, <1>5, CalmStep DEF QuietRest, CoverInv

LEMMA RepeatedPageQuiet ==
  ASSUME QuietWindowsInv, RepeatedPage, UNCHANGED deposedVars
  PROVE  QuietRest'
<1>1. /\ UNCHANGED <<centric, rev, srv, bronze, check, pass, quiet, window, pending, dwindow>>
      /\ pc = "read" /\ pc' = "reject"
  BY DEF RepeatedPage, centricVars, dbVars, histVars, deposedVars
<1>2. CoverInv /\ HolderInv /\ check = NoCheck
  BY <1>1 DEF QuietWindowsInv, QuietRest, MissingIsGone
<1>3. Kept' = Kept /\ Reading' = Reading
  BY <1>1 DEF Kept, Reading
<1>4. \A w : Listed(w)' = Listed(w)
  BY <1>1 DEF Listed
<1>5. HolderInv'
  BY <1>1, <1>2, <1>3, <1>4 DEF HolderInv, Judged, NoCheck, EmptyPage
<1>6. QED
  BY <1>1, <1>2, <1>3, <1>5, CalmStep DEF QuietRest, CoverInv

(* Every record listed is before the position at the end of a pass: an     *)
(* incremental window is judged complete, and any window has what it lists. *)
LEMMA EndPassQuiet ==
  ASSUME QuietWindowsInv, EndFirstPass \/ EndLaterPass, UNCHANGED deposedVars
  PROVE  QuietRest'
<1>1. /\ UNCHANGED <<centric, rev, srv, bronze, check, pass, quiet, pending, dwindow>>
      /\ pc = "read" /\ DOMAIN Page(window) = {}
  BY DEF EndFirstPass, EndLaterPass, Judge, NextPass, AtEnd, centricVars, dbVars, histVars, deposedVars
<1>2. /\ TypeOK /\ VersionsInv /\ CoverInv /\ HolderInv /\ check = NoCheck
      /\ window \in Window /\ window # None
  BY <1>1, WindowsAre DEF QuietWindowsInv, QuietRest, MissingIsGone, TakeOverTypeOK, TypeOK
<1>3. Covers(window) /\ Before(window) = Listed(window) /\ Covered(window) = Listed(window)
  BY <1>1, <1>2, EndCoversAll DEF CoverInv, Kept
<1>4. /\ \A w : Listed(w)' = Listed(w)
      /\ \A i : Settled(i)' <=> Settled(i)
  BY <1>1 DEF Listed, Settled, Current, Active
<1>5. CASE NextPass
  <2>1. window' = Again(window) /\ pc' = "save"
    BY <1>5 DEF NextPass, Again
  <2>2. Covers(Again(window))
    BY <1>1, <1>2, <1>3, AgainCovers
  <2>3. \A w \in Kept' : Covers(w)
    BY <1>1, <1>2, <2>1, <2>2 DEF CoverInv, Kept
  <2>4. /\ window'.run = window.run /\ window'.skip = 0 /\ window'.pass # 1
        /\ Listed(window') = Listed(window)
    <3>1. window.pass + 1 # 1 \/ window.pass = 0
      BY <1>2 DEF Window
    <3>2. window.pass # 0
      BY <1>5, <1>2 DEF EndFirstPass, EndLaterPass, Window
    <3>3. QED
      BY <1>2, <2>1, <3>1, <3>2 DEF Again, Window, Listed
  <2>5. HolderInv'
    <3>1. ASSUME NEW w \in Reading', w.run \in quiet'
          PROVE  /\ w = window' /\ w.skip = 0 /\ w.pass # 1
                 /\ pass'.expected = Cardinality(Listed(w)')
      BY <1>1, <1>2, <1>4, <2>4, <3>1 DEF HolderInv, Reading
    <3>2. QED
      BY <1>1, <1>2, <2>1, <3>1 DEF HolderInv, Judged, NoCheck, EmptyPage
  <2>6. QED
    BY <1>1, <2>3, <2>5, CalmStep DEF QuietRest
<1>6. CASE \E complete \in BOOLEAN : Judge(complete)
  <2>1. /\ window' = window /\ Kept' = Kept /\ Reading' = {window}
        /\ pc' = (IF window.mode = "full" THEN "confirm" ELSE "finish")
    BY <1>1, <1>2, <1>6 DEF Judge, Kept, Reading, dbVars
  <2>2. ASSUME window.run \in quiet, window.mode = "delta"
        PROVE  req'.complete
    <3>1. CASE EndFirstPass
      <4>1. Verify
        BY <2>2 DEF Verify
      <4>2. ProvenAtOnce /\ Judge(ProvenAtOnce)
        BY <3>1, <4>1, <1>6, <2>1, <2>2 DEF EndFirstPass, NextPass
      <4>3. QED
        BY <1>2, <4>2 DEF Judge, TypeOK
    <3>2. CASE EndLaterPass
      <4>1. /\ pass.seen = Listed(window) /\ ~pass.dup
            /\ pass.expected = Cardinality(Listed(window))
        <5>1. window \in Reading /\ window.pass # 1
          BY <1>2, <3>2 DEF Reading, EndLaterPass, Window
        <5>2. QED
          BY <1>1, <1>2, <1>3, <2>2, <5>1 DEF HolderInv
      <4>2. Cardinality(Listed(window)) \in Nat
        BY CountType DEF Listed
      <4>3. ProvenAgain
        BY <4>1, <4>2 DEF ProvenAgain
      <4>4. Judge(ProvenAgain)
        BY <3>2, <4>3 DEF EndLaterPass
      <4>5. QED
        BY <1>2, <4>3, <4>4 DEF Judge, TypeOK
    <3>3. QED
      BY <3>1, <3>2
  <2>3. window.run \in quiet =>
          /\ pass.expected = Cardinality(Listed(window))
          /\ \A i \in Listed(window) : Settled(i)
    BY <1>1, <1>2, <1>3 DEF HolderInv, Reading, Covers
  <2>4. window.mode \in {"full", "delta"}
    BY <1>2 DEF Window
  <2>5. HolderInv'
    BY <1>1, <1>2, <1>4, <2>1, <2>2, <2>3, <2>4 DEF HolderInv, Judged, NoCheck, EmptyPage
  <2>6. QED
    BY <1>1, <1>2, <2>1, <2>5, CalmStep DEF QuietRest, CoverInv
<1>7. NextPass \/ \E complete \in BOOLEAN : Judge(complete)
  <2>1. ProvenAtOnce \in BOOLEAN /\ ProvenAgain \in BOOLEAN
    BY <1>2 DEF ProvenAtOnce, ProvenAgain, Distinct, TypeOK
  <2>2. QED
    BY <2>1 DEF EndFirstPass, EndLaterPass
<1>8. QED
  BY <1>5, <1>6, <1>7

(* What a quiet window has not stamped Centric may not have: it is looked  *)
(* up.                                                                     *)
LEMMA ConfirmUnseenQuiet ==
  ASSUME QuietWindowsInv, ConfirmUnseen, UNCHANGED deposedVars
  PROVE  QuietRest'
<1>1. /\ UNCHANGED <<centric, rev, srv, bronze, pass, quiet, window, pending, dwindow, req>>
      /\ pc = "confirm"
  BY DEF ConfirmUnseen, centricVars, dbVars, histVars, deposedVars
<1>2. /\ TypeOK /\ VersionsInv /\ StampsInv /\ CoverInv /\ HolderInv /\ check = NoCheck
      /\ window \in Window /\ window # None
  BY <1>1, WindowsAre DEF QuietWindowsInv, QuietRest, MissingIsGone, TakeOverTypeOK, TypeOK
<1>3. /\ pc' \in {"lookup", "finish"}
      /\ check'.missing = {} /\ check'.found = EmptyPage /\ DOMAIN check'.found = {}
      /\ pc' = "finish" => check'.todo = {}
  BY <1>2 DEF ConfirmUnseen, NoCheck, EmptyPage
<1>4. Kept' = Kept /\ Reading' = {window}
  BY <1>1, <1>2 DEF Kept, Reading
<1>5. \A w : Listed(w)' = Listed(w) /\ Covered(w)' = Covered(w)
  BY <1>1 DEF Listed, Covered, Before, Rank
<1>6. \A i : Settled(i) => Settled(i)'
  BY <1>1, <1>3 DEF Settled, Current, Active
<1>7. VersionsInv' /\ StampsInv'
  BY <1>1, <1>2, <1>3 DEF VersionsInv, StampsInv
<1>8. CoverInv'
  BY <1>1, <1>2, <1>4, <1>5, <1>6 DEF CoverInv, Covers
<1>9. HolderInv'
  <2>1. window.run \in quiet =>
          /\ window.mode = "full" /\ pass.expected = Cardinality(Listed(window))
          /\ \A i \in Listed(window) : Settled(i)
    BY <1>1, <1>2 DEF HolderInv, Reading, Judged
  <2>2. ASSUME window.run \in quiet, req.any, NEW i \in Ids, centric[i] = None, Active(bronze[i])
        PROVE  i \in check'.todo
    <3>1. bronze[i].seen # window.run /\ DOMAIN bronze = Ids
      BY <1>2, <2>2 DEF StampsInv, Active, TypeOK
    <3>2. i \in UnseenIds(bronze, window.run)
      BY <2>2, <3>1 DEF UnseenIds
    <3>3. QED
      BY <1>2, <2>2, <3>2 DEF ConfirmUnseen, NoCheck
  <2>3. QED
    BY <1>1, <1>3, <1>4, <1>5, <1>6, <2>1, <2>2 DEF HolderInv
<1>10. QED
  BY <1>7, <1>8, <1>9 DEF QuietRest

LEMMA LookupQuiet ==
  ASSUME QuietWindowsInv, Lookup, UNCHANGED deposedVars
  PROVE  QuietRest'
<1>1. /\ UNCHANGED <<centric, rev, srv, bronze, pass, quiet, window, pending, dwindow, req>>
      /\ pc = "lookup"
  BY DEF Lookup, centricVars, dbVars, histVars, deposedVars
<1>2. /\ TypeOK /\ VersionsInv /\ StampsInv /\ CoverInv /\ HolderInv
      /\ window \in Window /\ window # None
  BY <1>1, WindowsAre DEF QuietWindowsInv, QuietRest, TakeOverTypeOK, TypeOK
<1>3. PICK batch \in SUBSET check.todo :
        LET found == {i \in batch : centric[i] # None}
        IN  /\ check' = [todo    |-> check.todo \ batch,
                         found   |-> Merge([i \in found |-> centric[i]], check.found),
                         missing |-> check.missing \cup (batch \ found)]
            /\ pc' = IF batch = check.todo THEN "finish" ELSE "lookup"
  BY DEF Lookup
<1> DEFINE found == {i \in batch : centric[i] # None}
<1>4. /\ check'.todo = check.todo \ batch
      /\ check'.missing = check.missing \cup (batch \ found)
      /\ check'.found = Merge([i \in found |-> centric[i]], check.found)
      /\ pc' \in {"lookup", "finish"} /\ (pc' = "finish" => batch = check.todo)
  BY <1>3
<1>5. /\ found \subseteq Ids /\ DOMAIN check.found \subseteq Ids /\ check.todo \subseteq Ids
      /\ \A i \in found : centric[i] # None
  BY <1>2 DEF TypeOK, IsPage
<1>6. /\ DOMAIN check'.found = found \cup DOMAIN check.found
      /\ \A i \in DOMAIN check'.found :
           \/ i \in found /\ check'.found[i] = centric[i]
           \/ i \in DOMAIN check.found /\ check'.found[i] = check.found[i]
  BY <1>4 DEF Merge
<1>7. \A i \in check'.missing : i \in check.missing \/ centric[i] = None
  BY <1>4
<1> HIDE DEF found
<1>8. Kept' = Kept /\ Reading' = {window}
  BY <1>1, <1>2 DEF Kept, Reading
<1>9. \A w : Listed(w)' = Listed(w) /\ Covered(w)' = Covered(w) /\ Covered(w) \subseteq Listed(w)
  BY <1>1 DEF Listed, Covered, Before, Rank
<1>10. \A i : centric[i] # None /\ Settled(i) => Settled(i)'
  BY <1>1, <1>6, <1>7 DEF Settled, Current, Active
<1>11. \A w : \A i \in Listed(w) : centric[i] # None
  BY DEF Listed
<1>12. VersionsInv' /\ StampsInv'
  <2>1. \A i \in DOMAIN check'.found : Known(check'.found[i], centric[i], rev, srv)
    BY <1>2, <1>5, <1>6 DEF VersionsInv
  <2>2. QED
    BY <1>1, <1>2, <2>1 DEF VersionsInv, StampsInv
<1>13. CoverInv'
  BY <1>1, <1>2, <1>8, <1>9, <1>10, <1>11 DEF CoverInv, Covers
<1>14. HolderInv'
  <2>1. window.run \in quiet =>
          /\ window.mode = "full" /\ pass.expected = Cardinality(Listed(window))
          /\ \A i \in Listed(window) : Settled(i)
          /\ \A i \in DOMAIN check.found : centric[i] # None
          /\ req.any => \A i \in Ids : centric[i] = None /\ Active(bronze[i])
                                        => i \in check.todo \cup check.missing
    BY <1>1, <1>2 DEF HolderInv, Reading, Judged
  <2>2. window.run \in quiet => \A i \in DOMAIN check'.found : centric[i] # None
    BY <1>5, <1>6, <2>1
  <2>3. window.run \in quiet /\ req.any =>
          \A i \in Ids : centric[i] = None /\ Active(bronze[i])
                           => i \in check'.todo \cup check'.missing
    BY <1>4, <2>1 DEF found
  <2>4. QED
    BY <1>1, <1>4, <1>8, <1>9, <1>10, <1>11, <2>1, <2>2, <2>3 DEF HolderInv, Active
<1>15. QED
  BY <1>12, <1>13, <1>14 DEF QuietRest

LEMMA FinishQuiet ==
  ASSUME QuietWindowsInv, Finish, UNCHANGED deposedVars
  PROVE  QuietRest'
<1>1. /\ UNCHANGED <<centric, rev, srv, dwindow>> /\ quiet' = quiet \ {window.run}
      /\ window' = None /\ pending' = None /\ check' = NoCheck
  BY DEF Finish, centricVars, deposedVars
<1>2. TypeOK /\ VersionsInv /\ StampsInv /\ CoverInv
  BY DEF QuietWindowsInv, QuietRest, TakeOverTypeOK
<1>3. VersionsInv' /\ StampsInv'
  <2>1. \A i \in Ids : bronze'[i] # None => Known(bronze'[i], centric[i], rev, srv)
    BY <1>2, RowFinished
  <2>2. \A i \in Ids : bronze'[i] # None /\ bronze'[i].seen \in quiet' =>
          bronze[i] # None /\ bronze'[i].seen = bronze[i].seen
    BY <1>1, <1>2, RowFinished
  <2>3. QED
    BY <1>1, <1>2, <2>1, <2>2 DEF VersionsInv, StampsInv, NoCheck, EmptyPage
<1>4. CoverInv'
  <2>1. SUFFICES ASSUME dwindow # None, NEW w, w = dwindow
                 PROVE  Covers(w)'
    BY <1>1 DEF CoverInv, Kept
  <2>2. Covers(w)
    BY <1>2, <2>1 DEF CoverInv, Kept
  <2>3. Covered(w)' = Covered(w) /\ Covered(w) \subseteq Listed(w)
    BY <1>1 DEF Listed, Covered, Before, Rank
  <2>4. ASSUME NEW i \in Listed(w), Settled(i)
        PROVE  Settled(i)'
    <3>1. i \in Ids /\ centric[i] # None
      BY <2>4 DEF Listed
    <3>2. Current(i)'
      BY <1>2, <2>4, <3>1, RowFinished
    <3>3. QED
      BY <1>1, <3>2 DEF Settled, NoCheck, EmptyPage
  <2>5. QED
    BY <1>1, <2>2, <2>3, <2>4 DEF Covers
<1>5. QED
  BY <1>1, <1>3, <1>4, IdleHolder DEF QuietRest

(* A page that does not reach the end of the list is full.                 *)
LEMMA PageFills ==
  ASSUME NEW c, NEW S, NEW bound \in Nat, Ordered(c, S, bound), NEW n \in Nat, NEW k \in Nat,
         NEW i \in S, Cardinality(Below(c, i, S)) >= n + k - 1
  PROVE  Cardinality(Ranked(c, S, n, k)) >= k
<1> DEFINE P == Ranked(c, S, n, k)
           g == [m \in n .. (n + k - 1) |-> CHOOSE j \in S : Cardinality(Below(c, j, S)) = m]
<1>1. Cardinality(Below(c, i, S)) \in Nat
  BY BelowIsFinite
<1>2. ASSUME NEW m \in n .. (n + k - 1)
      PROVE  g[m] \in P /\ Cardinality(Below(c, g[m], S)) = m
  <2>1. m \in Nat /\ Cardinality(Below(c, i, S)) >= m
    BY <1>1, <1>2
  <2>2. \E j \in S : Cardinality(Below(c, j, S)) = m
    BY <2>1, NoRankIsMissing
  <2>3. g[m] \in S /\ Cardinality(Below(c, g[m], S)) = m
    BY <2>2
  <2>4. QED
    BY <1>2, <2>3 DEF Ranked
<1>3. IsFiniteSet(n .. (n + k - 1)) /\ Cardinality(n .. (n + k - 1)) = k
  <2>1. n \in Int /\ n + k - 1 \in Int
    OBVIOUS
  <2>2. QED
    BY <2>1, FS_Interval
<1>4. IsFiniteSet(P) /\ Cardinality(P) \in Nat
  BY PageFits
<1>5. g \in Injection(n .. (n + k - 1), P)
  <2>1. DOMAIN g = n .. (n + k - 1)
    OBVIOUS
  <2>2. g = [m \in n .. (n + k - 1) |-> g[m]]
    OBVIOUS
  <2> HIDE DEF g, P
  <2>3. QED
    BY <1>2, <2>2 DEF Injection, IsInjective
<1> HIDE DEF g, P
<1>6. k <= Cardinality(P)
  BY <1>3, <1>4, <1>5, FS_Injection
<1>7. QED
  BY <1>4, <1>6 DEF P

(* A page is what comes next in the list: nothing before it, and no gap    *)
(* after it.                                                               *)
LEMMA PageMoves ==
  ASSUME TypeOK, VersionsInv, ReadPage, NEW next, next = window'
  PROVE  /\ next.run = window.run /\ next.pass = window.pass /\ next.mode = window.mode
         /\ Listed(next) = Listed(window) /\ next \in Window
         /\ DOMAIN Page(window) \cap Before(window) = {}
         /\ Before(next) = Before(window) \cup DOMAIN Page(window)
<1>1. window \in Window
  BY WindowsAre DEF ReadPage, TypeOK
<1> DEFINE n == Cardinality(DOMAIN Page(window))
           L == Listed(window)
<1>2. window.skip \in Nat /\ Limit \in Nat \ {0} /\ rev \in Nat /\ Ordered(centric, L, rev)
  BY <1>1, LimitAssumption, ListedOrdered DEF Window
<1>3. DOMAIN Page(window) = Ranked(centric, L, window.skip, Limit)
  BY DEF Page, Ranked, Rank, Below
<1>4. n \in Nat /\ n <= Limit
  BY <1>2, <1>3, PageFits
<1>5. /\ next = [window EXCEPT !.skip = @ + n, !.fetched = @ + n]
      /\ window.skip + n \in Nat /\ window.fetched + n \in Nat
  BY <1>1, <1>4 DEF ReadPage, Window
<1>6. /\ next.skip = window.skip + n /\ next.pass = window.pass /\ next.mode = window.mode
      /\ next.run = window.run /\ next.floor = window.floor /\ next \in Window
  BY <1>1, <1>4, <1>5 DEF Window
<1>7. Listed(next) = L
  BY <1>6 DEF Listed
<1>8. \A i \in L : Rank(i, L) \in Nat
  BY ListedOrdered
<1>9. \A i \in DOMAIN Page(window) : i \in L /\ Rank(i, L) >= window.skip
  BY <1>2 DEF Page
<1>10. ASSUME NEW i \in DOMAIN Page(window)
       PROVE  Rank(i, L) < window.skip + n
  <2>1. Rank(i, L) \in Nat /\ i \in L /\ Rank(i, L) >= window.skip
    BY <1>8, <1>9, <1>10
  <2>2. SUFFICES ASSUME Rank(i, L) >= window.skip + n
                 PROVE  FALSE
    BY <1>2, <1>4, <2>1
  <2>3. n + 1 \in Nat /\ n + 1 <= Limit
    <3>1. Rank(i, L) <= window.skip + Limit - 1
      BY <1>10 DEF Page
    <3>2. QED
      BY <1>2, <1>4, <2>1, <2>2, <3>1
  <2> DEFINE T == Ranked(centric, L, window.skip, n + 1)
  <2>4. T \in SUBSET DOMAIN Page(window)
    <3>1. window.skip .. (window.skip + (n + 1) - 1) \subseteq window.skip .. (window.skip + Limit - 1)
      BY <1>2, <2>3
    <3> HIDE DEF n
    <3>2. QED
      BY <1>3, <3>1 DEF Ranked
  <2>5. Cardinality(T) >= n + 1
    <3>1. Cardinality(Below(centric, i, L)) >= window.skip + (n + 1) - 1
      BY <1>2, <1>4, <2>1, <2>2, ListedOrdered
    <3> HIDE DEF n, L
    <3>2. QED
      BY <1>2, <2>1, <2>3, <3>1, PageFills
  <2>6. IsFiniteSet(DOMAIN Page(window))
    BY <1>2, <1>3, PageFits
  <2> HIDE DEF T
  <2>7. Cardinality(T) <= n /\ Cardinality(T) \in Nat
    BY <2>4, <2>6, FS_Subset, FS_CardinalityType
  <2>8. QED
    BY <1>4, <2>5, <2>7
<1>11. ASSUME NEW i \in L, Rank(i, L) < window.skip + n, Rank(i, L) >= window.skip
       PROVE  i \in DOMAIN Page(window)
  <2>1. Rank(i, L) \in window.skip .. (window.skip + Limit - 1)
    BY <1>2, <1>4, <1>8, <1>11
  <2>2. QED
    BY <2>1 DEF Page
<1>12. DOMAIN Page(window) \cap Before(window) = {}
  BY <1>2, <1>8, <1>9 DEF Before
<1>13. Before(next) = Before(window) \cup DOMAIN Page(window)
  <2> HIDE DEF n
  <2>1. QED
    BY <1>2, <1>4, <1>6, <1>7, <1>8, <1>9, <1>10, <1>11 DEF Before
<1>14. QED
  BY <1>6, <1>7, <1>12, <1>13

LEMMA ReadPageQuiet ==
  ASSUME QuietWindowsInv, ReadPage, UNCHANGED deposedVars
  PROVE  QuietRest'
<1>1. /\ TypeOK /\ VersionsInv /\ StampsInv /\ CoverInv /\ HolderInv /\ check = NoCheck
      /\ MissingIsGone /\ window \in Window /\ window # None /\ pc = "read"
  BY WindowsAre DEF QuietWindowsInv, QuietRest, MissingIsGone, TakeOverTypeOK, TypeOK, ReadPage
<1>2. PICK next : next = window'
  OBVIOUS
<1>3. /\ UNCHANGED <<centric, rev, srv, check, quiet, dwindow>> /\ pending' = next
      /\ pc' \in {"read", "reject"} /\ pass'.expected = pass.expected
      /\ pass'.seen = pass.seen \cup DOMAIN Page(window)
      /\ pass'.dup = (pass.dup \/ DOMAIN Page(window) \cap pass.seen # {})
  BY <1>1, <1>2 DEF ReadPage, TypeOK, NoPass, centricVars, histVars, deposedVars
<1>4. /\ next.run = window.run /\ next.pass = window.pass /\ next.mode = window.mode
      /\ Listed(next) = Listed(window) /\ next \in Window /\ next # None
      /\ DOMAIN Page(window) \cap Before(window) = {}
      /\ Before(next) = Before(window) \cup DOMAIN Page(window)
  BY <1>1, <1>2, PageMoves, WindowNotNone
<1>5. \A w : /\ Listed(w)' = Listed(w) /\ Before(w)' = Before(w)
             /\ Covered(w)' = Covered(w) /\ Covered(w) \subseteq Listed(w)
  BY <1>3 DEF Listed, Covered, Before, Rank
<1>6. VersionsInv' /\ StampsInv'
  <2>1. \A i \in DOMAIN Page(window) : i \in Ids /\ centric[i] # None
    BY <1>1, PageType DEF Listed, IsPage
  <2>2. \A i \in Ids : i \notin DOMAIN Page(window) => bronze'[i] = bronze[i]
    BY <1>1, PageStores
  <2>3. QED
    BY <1>1, <1>3, <2>1, <2>2, PageStores DEF StampsInv
<1>7. /\ \A i \in Ids : Settled(i) => Settled(i)'
      /\ \A i \in DOMAIN Page(window) : Settled(i)'
  BY <1>1, <1>3, PageStores DEF Settled, Stored, NoCheck, EmptyPage
<1>8. CoverInv'
  <2>1. Covers(next)'
    <3>1. Covers(window)
      BY <1>1 DEF CoverInv, Kept
    <3>2. Covered(next) \subseteq Covered(window) \cup DOMAIN Page(window)
      BY <1>4 DEF Covered
    <3>3. Covered(window) \subseteq Ids
      BY <1>5 DEF Listed
    <3>4. QED
      BY <1>3, <1>4, <1>5, <1>7, <3>1, <3>2, <3>3 DEF Covers
  <2>2. ASSUME NEW w, w = dwindow, w # None
        PROVE  Covers(w)'
    <3>1. Covers(w)
      BY <1>1, <2>2 DEF CoverInv, Kept
    <3>2. Covered(w) \subseteq Ids
      BY <1>5 DEF Listed
    <3>3. QED
      BY <1>3, <1>5, <1>7, <3>1, <3>2 DEF Covers
  <2>3. QED
    BY <1>2, <1>3, <2>1, <2>2 DEF CoverInv, Kept
<1>9. HolderInv'
  <2>1. Reading' = {next}
    BY <1>2, <1>4 DEF Reading
  <2>2. window.run \in quiet =>
          /\ pass.expected = Cardinality(Listed(window))
          /\ window.pass # 1 => pass.seen = Before(window) /\ ~pass.dup
    BY <1>1 DEF HolderInv, Reading
  <2>3. window.run \in quiet /\ window.pass # 1 => pass'.seen = Before(next) /\ ~pass'.dup
    BY <1>3, <1>4, <2>2
  <2>4. check' = NoCheck
    BY <1>1, <1>3
  <2>5. QED
    BY <1>3, <1>4, <1>5, <2>1, <2>2, <2>3, <2>4 DEF HolderInv, Judged, NoCheck, EmptyPage
<1>10. QED
  BY <1>6, <1>8, <1>9 DEF QuietRest

LEMMA QuietWindowsInit == TakeOverInit => QuietWindowsInv
<1> SUFFICES ASSUME TakeOverInit
             PROVE  QuietWindowsInv
  OBVIOUS
<1>1. Inv
  BY InvInit DEF TakeOverInit
<1>2. TakeOverTypeOK /\ MissingIsGone /\ VersionsInv
  BY <1>1, NothingInMemory DEF TakeOverInit, TakeOverTypeOK, Inv, Rest, NoPass
<1>3. quiet = {} /\ window = None
  BY DEF TakeOverInit, Init
<1>4. QED
  BY <1>2, <1>3
     DEF QuietWindowsInv, QuietRest, StampsInv, CoverInv, Covers, HolderInv, Reading

LEMMA QuietWindowsNext ==
  QuietWindowsInv /\ [TakeOverNext]_<<vars, deposedVars>> => QuietWindowsInv'
<1> SUFFICES ASSUME QuietWindowsInv, [TakeOverNext]_<<vars, deposedVars>>
             PROVE  QuietWindowsInv'
  OBVIOUS
<1>1. TakeOverTypeOK' /\ MissingIsGone'
  BY TakeOverTypeInductive, TakeOverMissingIsGone DEF QuietWindowsInv
<1>2. CASE Deposed
  BY <1>1, <1>2, DeposeQuiet, ArriveQuiet, AnswerQuiet, SaveWindowQuiet, DropWindowQuiet
     DEF Deposed, QuietWindowsInv
<1>3. CASE Holder /\ UNCHANGED deposedVars
  <2>1. CASE Process
    BY <1>1, <1>3, <2>1, CountQuiet, ReadPageQuiet, RepeatedPageQuiet, RejectQuiet,
       EndPassQuiet, SavePassQuiet, ConfirmUnseenQuiet, LookupQuiet, FinishQuiet
       DEF Process, QuietWindowsInv
  <2>2. CASE HolderStart \/ Stop \/ Centric \/ Tick \/ StepBack
    BY <1>1, <1>3, <2>2, HolderStartQuiet, StopQuiet, CentricQuiet, ClockQuiet
       DEF QuietWindowsInv
  <2>3. QED
    BY <1>3, <2>1, <2>2 DEF Holder
<1>4. CASE UNCHANGED <<vars, deposedVars>>
  <2>1. /\ UNCHANGED <<centric, rev, srv, bronze, check, quiet, window, pending, dwindow, procVars>>
    BY <1>4 DEF vars, centricVars, dbVars, procVars, histVars, deposedVars
  <2>2. Kept' = Kept /\ HolderInv /\ CoverInv
    BY <2>1 DEF Kept, QuietWindowsInv, QuietRest
  <2>3. HolderInv'
    BY <2>1, <2>2, HolderStays
  <2>4. QED
    BY <1>1, <2>1, <2>2, <2>3, CalmStep DEF QuietWindowsInv, QuietRest, CoverInv
<1>5. QED
  BY <1>2, <1>3, <1>4 DEF TakeOverNext

(* A quiet window mirrors Centric when it is finished even while a deposed *)
(* run saves or drops windows under it: what such a run puts back covers   *)
(* no more than it did, and the pages read again are counted again.        *)
THEOREM HoldersQuietWindowsMirror == TakeOverSpec => QuietWindowMirrors
<1>1. QuietWindowsInv => [Finish /\ window.run \in quiet => Mirrors]_vars
  <2> SUFFICES ASSUME QuietWindowsInv, Finish, window.run \in quiet
               PROVE  Mirrors
    OBVIOUS
  <2>1. TypeOK /\ VersionsInv /\ HolderInv /\ window \in Reading /\ pc = "finish"
    BY WindowsAre DEF QuietWindowsInv, QuietRest, TakeOverTypeOK, Finish
  <2>2. ASSUME NEW i \in Listed(window)
        PROVE  Current(i)'
    <3>1. i \in Ids /\ centric[i] # None /\ Settled(i)
      BY <2>1, <2>2 DEF Listed, HolderInv, Judged
    <3>2. QED
      BY <2>1, <3>1, RowFinished
  <2>3. ASSUME window.mode = "full", req.allow, req.any, NEW i \in Ids, centric[i] = None
        PROVE  ~Active(bronze'[i])
    <3>1. /\ Active(bronze[i]) => i \in check.missing
          /\ i \notin DOMAIN check.found
      BY <2>1, <2>3 DEF HolderInv
    <3>2. QED
      BY <2>1, <2>3, <3>1, RowFinished
  <2>4. window.mode = "delta" => cursor' = window.start
    BY <2>1 DEF HolderInv, Finish, NextCursor
  <2>5. QED
    BY <2>2, <2>3, <2>4 DEF Mirrors
<1>2. QED
  BY <1>1, QuietWindowsInit, QuietWindowsNext, PTL DEF TakeOverSpec, QuietWindowMirrors

-----------------------------------------------------------------------------
(* First passes.  A deposed run can put another window under the holder's, *)
(* and the holder can read on a window of which a deposed run saved the    *)
(* position.  A window the holder has opened itself is another matter: its *)
(* run is no other window's, and what bears it was read by this holder.    *)

(* What has not changed since the window was opened, and that it is stored *)
(* of a set of records.                                                    *)
Lasting(i, w) == centric[i].mod < ChangedSince(w)

Mirrored(w, S) == \A i \in S : Lasting(i, w) => Settled(i)

Timely(w) == w.start <= srv + Lag /\ (w.floor # None => w.floor <= srv)

(* A window the holder has opened itself bears a run that no other window  *)
(* bears: what bears it was read as it was, and if none of it was new it   *)
(* is some of what was counted.                                            *)
ReadAsItWas(w) ==
  \A i \in SeenIds(bronze, w.run) : centric[i] # None /\ Lasting(i, w) => Current(i)

CountedOnce(w) ==
  \E S \in SUBSET Ids :
    /\ Cardinality(S) = pass.expected
    /\ SeenIds(bronze, w.run) \subseteq S
    /\ \A i \in Listed(w) \ S : ~Lasting(i, w)

OwnInv ==
  \A w \in Reading :
    /\ pc = "save" => w.pass # 1
    /\ pc \in {"count", "read"} /\ w.pass = 1 /\ ~req.resumed =>
         /\ ReadAsItWas(w)
         /\ pc = "count" => SeenIds(bronze, w.run) = {}
         /\ pc = "read" /\ ~pass.conc => CountedOnce(w)

(* What is judged complete on the first pass, by its count, has been read. *)
FirstVerdict ==
  \A w \in Reading :
    pc \in Judged /\ req.complete /\ w.pass = 1 /\ ~FirstFetch => Mirrored(w, Listed(w))

FirstsRest == ClockInv /\ (\A w \in Kept : Timely(w)) /\ OwnInv /\ FirstVerdict

FirstsInv == QuietWindowsInv /\ FirstsRest

LEMMA KeptType ==
  ASSUME TakeOverTypeOK
  PROVE  Kept \subseteq Window /\ \A w \in Kept : w.run \in RunIds
BY DEF Kept, TakeOverTypeOK, TypeOK, Window

(* What is stored stays so.                                                *)
Steady ==
  /\ centric' = centric /\ rev' = rev
  /\ \A i \in Ids : centric[i] # None /\ Settled(i) => Settled(i)'

LEMMA SteadyWindow ==
  ASSUME Steady, NEW w
  PROVE  /\ Listed(w)' = Listed(w) /\ Before(w)' = Before(w) /\ Covered(w)' = Covered(w)
         /\ Before(w) \subseteq Listed(w) /\ Covered(w) \subseteq Listed(w) /\ Listed(w) \subseteq Ids
         /\ ChangedSince(w)' = ChangedSince(w) /\ \A i : Lasting(i, w)' <=> Lasting(i, w)
         /\ \A S : S \subseteq Listed(w) /\ Mirrored(w, S) => Mirrored(w, S)'
<1>1. /\ Listed(w)' = Listed(w) /\ Before(w)' = Before(w) /\ Covered(w)' = Covered(w)
      /\ Before(w) \subseteq Listed(w) /\ Covered(w) \subseteq Listed(w) /\ Listed(w) \subseteq Ids
  BY DEF Steady, Listed, Before, Covered, Rank
<1>2. ChangedSince(w)' = ChangedSince(w) /\ \A i : Lasting(i, w)' <=> Lasting(i, w)
  BY DEF Steady, Lasting, ChangedSince
<1>3. \A i \in Listed(w) : Settled(i) => Settled(i)'
  BY DEF Steady, Listed
<1>4. QED
  BY <1>1, <1>2, <1>3 DEF Mirrored

(* Whatever is kept after a step was kept before it, or is the next pass   *)
(* of such a window, a window just opened, or one page further.            *)
LEMMA KeptWindows ==
  ASSUME QuietWindowsInv, [TakeOverNext]_<<vars, deposedVars>>, ~Centric, NEW w \in Kept'
  PROVE  \/ w \in Kept
         \/ \E u \in Kept : DOMAIN Page(u) = {} /\ w = Again(u)
         \/ \E run \in RunIds, full, restart \in BOOLEAN : w = Opened(run, full, restart)
         \/ ReadPage /\ w = window'
<1>1. window # None \/ pc = "idle"
  BY DEF QuietWindowsInv, TakeOverTypeOK, TypeOK
<1>2. CASE Deposed
  <2>1. CASE Depose
    BY <1>1, <2>1 DEF Depose, Kept, dbVars
  <2>2. CASE \E full, restart \in BOOLEAN : Arrive(full, restart)
    BY <2>2 DEF Arrive, UnusedBy, Kept, dbVars, procVars
  <2>3. CASE SaveWindow \/ DropWindow \/ Depart
    BY <2>3 DEF SaveWindow, DropWindow, Depart, Kept, procVars, vars, dbVars
  <2>4. CASE Answer
    BY <2>4 DEF Answer, Kept, procVars, vars, dbVars, QuietWindowsInv, TakeOverTypeOK
  <2>5. QED
    BY <1>2, <2>1, <2>2, <2>3, <2>4 DEF Deposed
<1>3. CASE HolderStart /\ UNCHANGED deposedVars
  BY <1>3 DEF HolderStart, UnusedBy, Open, Kept, deposedVars
<1>4. CASE ReadPage /\ UNCHANGED deposedVars
  BY <1>4 DEF ReadPage, Kept, deposedVars
<1>5. CASE (EndFirstPass \/ EndLaterPass) /\ UNCHANGED deposedVars
  <2>1. /\ pending' = pending /\ dwindow' = dwindow /\ DOMAIN Page(window) = {}
        /\ window' \in {window, Again(window)} /\ pc # "idle"
    BY <1>5 DEF EndFirstPass, EndLaterPass, AtEnd, Judge, NextPass, Again, dbVars, deposedVars
  <2>2. QED
    BY <1>1, <2>1 DEF Kept
<1>6. CASE /\ Count \/ RepeatedPage \/ SavePass \/ ConfirmUnseen \/ Lookup \/ Tick \/ StepBack
              \/ Reject \/ Finish \/ Stop
           /\ UNCHANGED deposedVars
  BY <1>6 DEF Count, RepeatedPage, SavePass, ConfirmUnseen, Lookup, Tick, StepBack, Reject,
     Finish, Stop, Kept, dbVars, procVars, deposedVars
<1>7. CASE UNCHANGED <<vars, deposedVars>>
  BY <1>7 DEF vars, dbVars, procVars, deposedVars, Kept
<1>8. QED
  BY <1>2, <1>3, <1>4, <1>5, <1>6, <1>7 DEF TakeOverNext, Holder, Process

LEMMA StepsAreSteady ==
  ASSUME QuietWindowsInv, [TakeOverNext]_<<vars, deposedVars>>, ~Centric
  PROVE  Steady
<1>1. TypeOK /\ VersionsInv /\ MissingIsGone
  BY DEF QuietWindowsInv, QuietRest, TakeOverTypeOK
<1>2. CASE UNCHANGED <<centric, rev, bronze>> /\ (check' = check \/ check' = NoCheck)
  BY <1>2 DEF Steady, Settled, Current, Active, NoCheck, EmptyPage
<1>3. CASE ReadPage
  BY <1>1, <1>3, PageStores DEF ReadPage, MissingIsGone, centricVars, Steady, Settled, NoCheck, EmptyPage
<1>4. CASE Finish
  BY <1>1, <1>4, RowFinished DEF Finish, centricVars, Steady, Settled, NoCheck, EmptyPage
<1>5. CASE ConfirmUnseen \/ Lookup
  <2>1. UNCHANGED <<centric, rev, bronze>>
    BY <1>5 DEF ConfirmUnseen, Lookup, centricVars, dbVars
  <2>2. /\ \A i \in check'.missing : i \in check.missing \/ centric[i] = None
        /\ \A i \in DOMAIN check'.found : check'.found[i] = centric[i] \/
             (i \in DOMAIN check.found /\ check'.found[i] = check.found[i])
    <3>1. CASE ConfirmUnseen
      BY <1>1, <3>1 DEF ConfirmUnseen, MissingIsGone, NoCheck, EmptyPage
    <3>2. CASE Lookup
      BY <3>2 DEF Lookup, Merge
    <3>3. QED
      BY <1>5, <3>1, <3>2
  <2>3. QED
    BY <2>1, <2>2 DEF Steady, Settled, Current, Active
<1>6. CASE Aside \/ Depose \/ HolderStart
  <2>1. UNCHANGED <<centric, rev, bronze>> /\ (check' = check \/ check' = NoCheck)
    BY <1>6, AsideFrame DEF Depose, HolderStart, Open, centricVars, dbVars, procVars
  <2>2. QED
    BY <1>2, <2>1
<1>7. CASE \/ Count \/ RepeatedPage \/ SavePass \/ EndFirstPass \/ EndLaterPass
           \/ Reject \/ Stop \/ Tick \/ StepBack \/ UNCHANGED <<vars, deposedVars>>
  <2>1. UNCHANGED <<centric, rev, bronze>> /\ (check' = check \/ check' = NoCheck)
    BY <1>7 DEF Count, RepeatedPage, SavePass, EndFirstPass, EndLaterPass, Judge, NextPass,
       Reject, Stop, Tick, StepBack, vars, centricVars, dbVars, procVars
  <2>2. QED
    BY <1>2, <2>1
<1>8. QED
  BY <1>3, <1>4, <1>5, <1>6, <1>7 DEF TakeOverNext, Deposed, Aside, Holder, Process

LEMMA WindowsStayTimely ==
  ASSUME FirstsInv, [TakeOverNext]_<<vars, deposedVars>>, ~Centric
  PROVE  \A w \in Kept' : Timely(w)'
<1>1. /\ TakeOverTypeOK /\ TypeOK /\ ClockInv /\ QuietWindowsInv
      /\ srv \in Int /\ srv' \in {srv, srv + 1}
      /\ \A w \in Kept : Timely(w)
  <2>1. srv' \in {srv, srv + 1}
    BY DEF TakeOverNext, Deposed, Depose, Arrive, Answer, SaveWindow, DropWindow, Depart, Holder,
           HolderStart, Open, Process, Count, ReadPage, RepeatedPage, Reject, EndFirstPass,
           EndLaterPass, Judge, NextPass, SavePass, ConfirmUnseen, Lookup, Finish, Stop, Tick,
           StepBack, vars, centricVars
  <2>2. QED
    BY <2>1 DEF FirstsInv, FirstsRest, QuietWindowsInv, TakeOverTypeOK, TypeOK
<1>2. Kept \subseteq Window /\ Kept' \subseteq Window
  <2>1. TakeOverTypeOK'
    BY <1>1, TakeOverTypeInductive
  <2>2. QED
    BY <1>1, <2>1, KeptType DEF Kept, TakeOverTypeOK, TypeOK
<1>3. ASSUME NEW w, Timely(w), w \in Window
      PROVE  Timely(w)'
  BY <1>1, <1>3, ClockAssumption DEF Timely, Window
<1>4. ASSUME NEW u \in Kept, NEW w \in Window, w.start = u.start, w.floor = u.floor
      PROVE  Timely(w)'
  <2>1. Timely(w)
    BY <1>1, <1>4 DEF Timely
  <2>2. QED
    BY <1>3, <2>1
<1>5. ASSUME NEW w \in Kept'
      PROVE  Timely(w)'
  <2>1. CASE w \in Kept
    BY <1>2, <1>4, <2>1
  <2>2. CASE \E u \in Kept : DOMAIN Page(u) = {} /\ w = Again(u)
    <3>1. PICK u \in Kept : w = Again(u)
      BY <2>2
    <3>2. w.start = u.start /\ w.floor = u.floor
      BY <1>2, <3>1 DEF Again, Window
    <3>3. QED
      BY <1>2, <1>4, <1>5, <3>2
  <2>3. CASE \E run \in RunIds, full, restart \in BOOLEAN : w = Opened(run, full, restart)
    <3>1. PICK run \in RunIds, full \in BOOLEAN, restart \in BOOLEAN : w = Opened(run, full, restart)
      BY <2>3
    <3>2. CASE Resumes(full, restart)
      <4>1. pending \in Kept /\ w = Resumed(pending)
        BY <3>1, <3>2 DEF Resumes, Opened, Kept
      <4>2. w.start = pending.start /\ w.floor = pending.floor
        BY <1>2, <4>1 DEF Resumed, Window
      <4>3. QED
        BY <1>2, <1>4, <1>5, <4>1, <4>2
    <3>3. CASE ~Resumes(full, restart)
      <4>1. w.start = now /\ (w.floor # None => cursor # None /\ w.floor = cursor - Overlap)
        BY <3>1, <3>3 DEF Opened, NewWindow
      <4>2. Timely(w)
        BY <1>1, <4>1, ClockAssumption DEF Timely, ClockInv, TypeOK
      <4>3. QED
        BY <1>2, <1>3, <1>5, <4>2
    <3>4. QED
      BY <3>2, <3>3
  <2>4. CASE ReadPage /\ w = window'
    <3>1. window \in Kept
      BY <1>1, <2>4 DEF ReadPage, Kept, TypeOK
    <3>2. w.start = window.start /\ w.floor = window.floor
      BY <1>2, <2>4, <3>1 DEF ReadPage, Window
    <3>3. QED
      BY <1>2, <1>4, <1>5, <3>1, <3>2
  <2>5. QED
    BY <1>1, <1>5, <2>1, <2>2, <2>3, <2>4, KeptWindows
<1>6. QED
  BY <1>5

(* What the holder has judged and counted stays as it was while it does    *)
(* nothing, and it has judged nothing before it has read.                  *)
LEMMA OwnStays ==
  ASSUME OwnInv, FirstVerdict, UNCHANGED <<centric, bronze, cursor, procVars>>
  PROVE  OwnInv' /\ FirstVerdict'
<1>1. UNCHANGED <<pc, window, req, pass, check>> /\ Reading' = Reading
  BY DEF procVars, Reading
<1>2. \A w : /\ Listed(w)' = Listed(w) /\ SeenIds(bronze, w.run)' = SeenIds(bronze, w.run)
             /\ \A i : Lasting(i, w)' <=> Lasting(i, w)
  BY DEF Listed, SeenIds, Lasting, ChangedSince
<1>3. \A i : (Current(i)' <=> Current(i)) /\ (Settled(i)' <=> Settled(i))
  BY <1>1 DEF Current, Active, Settled
<1>4. \A w : /\ ReadAsItWas(w)' <=> ReadAsItWas(w)
             /\ Mirrored(w, Listed(w))' <=> Mirrored(w, Listed(w))
  BY <1>2, <1>3 DEF ReadAsItWas, Mirrored
<1>5. \A w : CountedOnce(w)' <=> CountedOnce(w)
  BY <1>1, <1>2 DEF CountedOnce
<1>6. FirstFetch' <=> FirstFetch
  BY DEF FirstFetch
<1>7. OwnInv'
  BY <1>1, <1>2, <1>4, <1>5 DEF OwnInv
<1>8. FirstVerdict'
  BY <1>1, <1>4, <1>6 DEF FirstVerdict
<1>9. QED
  BY <1>7, <1>8

LEMMA IdleOwn ==
  ASSUME window' = None
  PROVE  OwnInv' /\ FirstVerdict'
BY DEF OwnInv, FirstVerdict, Reading

(* A window opened anew bears a run no row bears.                          *)
LEMMA HolderStartOwn ==
  ASSUME FirstsInv, HolderStart
  PROVE  OwnInv' /\ FirstVerdict'
<1>1. PICK full \in BOOLEAN, restart \in BOOLEAN, allow \in BOOLEAN, run \in UnusedBy(dwindow) :
        Open(run, full, restart, allow)
  BY DEF HolderStart
<1>2. /\ UNCHANGED <<centric, bronze>> /\ pc' = "count"
      /\ window' = Opened(run, full, restart)
      /\ req'.resumed = Resumes(full, restart)
  BY <1>1 DEF Open, centricVars, NoReq
<1>3. FirstVerdict'
  BY <1>2 DEF FirstVerdict, Judged
<1>4. OwnInv'
  <2>1. SUFFICES ASSUME NEW w, w = window', ~Resumes(full, restart)
                 PROVE  ReadAsItWas(w)' /\ SeenIds(bronze, w.run)' = {}
    BY <1>2 DEF OwnInv, Reading
  <2>2. w.run = run
    BY <1>2, <2>1 DEF Opened, NewWindow
  <2>3. \A i \in Ids : bronze[i] # None => bronze[i].seen # run
    BY NewRunIsNew
  <2>4. TypeOK
    BY DEF FirstsInv, QuietWindowsInv, TakeOverTypeOK
  <2>5. SeenIds(bronze, run) = {}
    BY <2>3, <2>4, SeenAre
  <2>6. SeenIds(bronze, w.run)' = {}
    BY <1>2, <2>2, <2>5 DEF SeenIds
  <2>7. QED
    BY <2>6 DEF ReadAsItWas
<1>5. QED
  BY <1>3, <1>4

LEMMA CountOwn ==
  ASSUME FirstsInv, Count
  PROVE  OwnInv' /\ FirstVerdict'
<1>1. /\ UNCHANGED <<centric, bronze, window, req>>
      /\ pc = "count" /\ pc' = IF window.pass = 1 THEN "read" ELSE "save"
      /\ pass' = [NoPass EXCEPT !.expected = Cardinality(Listed(window))]
  BY DEF Count, centricVars, dbVars
<1>2. TypeOK /\ Reading' = {window} /\ Reading = {window}
  BY <1>1, WindowsAre DEF FirstsInv, QuietWindowsInv, TakeOverTypeOK, TypeOK, Reading
<1>3. FirstVerdict'
  BY <1>1 DEF FirstVerdict, Judged
<1>4. /\ Listed(window)' = Listed(window) /\ Listed(window) \subseteq Ids
      /\ SeenIds(bronze, window.run)' = SeenIds(bronze, window.run)
      /\ \A i : Lasting(i, window)' <=> Lasting(i, window)
  BY <1>1 DEF Listed, SeenIds, Lasting, ChangedSince
<1>5. ASSUME window.pass = 1, ~req.resumed
      PROVE  ReadAsItWas(window)' /\ CountedOnce(window)'
  <2>1. SeenIds(bronze, window.run)' = {}
    BY <1>1, <1>2, <1>4, <1>5 DEF FirstsInv, FirstsRest, OwnInv
  <2>2. pass'.expected = Cardinality(Listed(window))
    BY <1>1 DEF NoPass
  <2>3. CountedOnce(window)'
    BY <1>4, <2>1, <2>2 DEF CountedOnce
  <2>4. QED
    BY <2>1, <2>3 DEF ReadAsItWas
<1>6. OwnInv'
  BY <1>1, <1>2, <1>5 DEF OwnInv
<1>7. QED
  BY <1>3, <1>6

(* A page without a changed record is some of what was counted.            *)
LEMMA ReadPageOwn ==
  ASSUME FirstsInv, ReadPage
  PROVE  OwnInv' /\ FirstVerdict'
<1>1. /\ TypeOK /\ VersionsInv /\ MissingIsGone /\ window \in Window /\ window # None
      /\ pc = "read" /\ Reading = {window} /\ OwnInv
  BY WindowsAre, WindowNotNone
     DEF FirstsInv, FirstsRest, QuietWindowsInv, QuietRest, TakeOverTypeOK, ReadPage, Reading
<1>2. PICK u, w : u = window /\ w = window'
  OBVIOUS
<1> DEFINE page == DOMAIN Page(u)
<1>3. /\ w.run = u.run /\ w.pass = u.pass /\ Listed(w) = Listed(u)
      /\ w.start = u.start /\ UNCHANGED centric
      /\ pc' \in {"read", "reject"} /\ req'.resumed = req.resumed
      /\ pass'.expected = pass.expected
      /\ pass'.conc = (pass.conc \/ Concurrent(Page(u), ChangedSince(u)) # {})
  BY <1>1, <1>2, PageMoves DEF ReadPage, Window, TypeOK, NoPass, centricVars
<1>4. /\ \A i \in page : Stored(i, u.run)'
      /\ \A i \in Ids : i \notin page => bronze'[i] = bronze[i]
      /\ \A i \in Ids : Current(i) => Current(i)'
      /\ page \subseteq Listed(u) /\ page \subseteq Ids
      /\ \A i \in page : Page(u)[i] = centric[i] /\ centric[i] # None
  BY <1>1, <1>2, PageStores, PageType DEF Listed
<1>5. SeenIds(bronze, u.run)' \subseteq SeenIds(bronze, u.run) \cup page /\ SeenIds(bronze, u.run) \subseteq Ids
  <2>1. DOMAIN bronze' = Ids /\ DOMAIN bronze = Ids
    BY <1>1, ReadPageType DEF TypeOK
  <2> HIDE DEF page
  <2>2. QED
    BY <1>4, <2>1 DEF SeenIds
<1>6. /\ \A i : Lasting(i, w)' <=> Lasting(i, u)
      /\ Listed(w)' = Listed(u)
  BY <1>3 DEF Lasting, ChangedSince, Listed
<1> HIDE DEF page
<1>7. FirstVerdict'
  BY <1>3 DEF FirstVerdict, Judged
<1>8. ASSUME ReadAsItWas(u)
      PROVE  ReadAsItWas(w)'
  <2>1. SUFFICES ASSUME NEW i \in SeenIds(bronze, u.run)', centric[i] # None, Lasting(i, u)
                 PROVE  Current(i)'
    BY <1>3, <1>6 DEF ReadAsItWas
  <2>2. CASE i \in page
    BY <1>4, <2>2 DEF Stored
  <2>3. CASE i \in SeenIds(bronze, u.run)
    BY <1>4, <1>5, <1>8, <2>1, <2>3 DEF ReadAsItWas
  <2>4. QED
    BY <1>5, <2>1, <2>2, <2>3
<1>9. ASSUME ~pass'.conc, CountedOnce(u)
      PROVE  CountedOnce(w)'
  <2>1. PICK S \in SUBSET Ids :
          /\ Cardinality(S) = pass.expected
          /\ SeenIds(bronze, u.run) \subseteq S
          /\ \A i \in Listed(u) \ S : ~Lasting(i, u)
    BY <1>9 DEF CountedOnce
  <2>2. ASSUME NEW i \in page
        PROVE  i \in S
    <3>1. Concurrent(Page(u), ChangedSince(u)) = {}
      BY <1>3, <1>9
    <3>2. ~ (centric[i].mod >= ChangedSince(u)) /\ i \in Listed(u)
      BY <1>4, <2>2, <3>1 DEF Concurrent, page
    <3>3. centric[i].mod \in Int /\ ChangedSince(u) \in Int
      BY <1>1, <1>2, <1>4, <2>2, VersionTypes, ClockAssumption DEF ChangedSince, Window
    <3>4. Lasting(i, u)
      BY <3>2, <3>3 DEF Lasting
    <3>5. QED
      BY <2>1, <3>2, <3>4
  <2>3. SeenIds(bronze, w.run)' \subseteq S
    BY <1>3, <1>5, <2>1, <2>2
  <2>4. QED
    BY <1>3, <1>6, <2>1, <2>3 DEF CountedOnce
<1>10. OwnInv'
  <2>1. SUFFICES ASSUME pc' = "read", w.pass = 1, ~req'.resumed
                 PROVE  ReadAsItWas(w)' /\ (~pass'.conc => CountedOnce(w)')
    BY <1>2, <1>3 DEF OwnInv, Reading
  <2>2. ReadAsItWas(u) /\ (~pass.conc => CountedOnce(u))
    BY <1>1, <1>2, <1>3, <2>1 DEF OwnInv
  <2>3. QED
    BY <1>3, <1>8, <1>9, <2>2
<1>11. QED
  BY <1>7, <1>10

(* At the end of a first pass of its own that has met no change a holder   *)
(* has all it counted.                                                     *)
LEMMA FirstEndHasAll ==
  ASSUME FirstsInv, AtEnd, window.pass = 1, Distinct, ~Changed
  PROVE  Mirrored(window, Listed(window))
<1>1. /\ TypeOK /\ VersionsInv /\ window \in Window /\ window \in Reading
      /\ pc = "read" /\ check = NoCheck /\ OwnInv
  BY WindowsAre
     DEF FirstsInv, FirstsRest, QuietWindowsInv, QuietRest, TakeOverTypeOK, AtEnd, Reading,
         MissingIsGone
<1> DEFINE seen == SeenIds(bronze, window.run)
<1>2. PICK S \in SUBSET Ids :
        /\ Cardinality(S) = pass.expected
        /\ seen \subseteq S
        /\ \A i \in Listed(window) \ S : ~Lasting(i, window)
  BY <1>1 DEF OwnInv, Changed, CountedOnce
<1>3. IsFiniteSet(S) /\ Cardinality(seen) >= Cardinality(S)
  BY <1>2, IdsAreNumbers, FS_Subset DEF Distinct
<1>4. seen = S
  <2>1. seen \in SUBSET S
    BY <1>2
  <2>2. /\ IsFiniteSet(seen) /\ Cardinality(seen) \in Nat /\ Cardinality(S) \in Nat
        /\ seen # S => Cardinality(seen) < Cardinality(S)
    BY <1>3, <2>1, FS_Subset, FS_CardinalityType
  <2>3. QED
    BY <1>3, <2>2
<1>5. ASSUME NEW i \in Listed(window), Lasting(i, window)
      PROVE  Settled(i)
  <2>1. i \in seen /\ centric[i] # None
    BY <1>2, <1>4, <1>5 DEF Listed
  <2>2. Current(i)
    BY <1>1, <1>5, <2>1 DEF OwnInv, Changed, ReadAsItWas
  <2>3. QED
    BY <1>1, <2>2 DEF Settled, NoCheck, EmptyPage
<1>6. QED
  BY <1>5 DEF Mirrored

LEMMA EndPassOwn ==
  ASSUME FirstsInv, EndFirstPass \/ EndLaterPass
  PROVE  OwnInv' /\ FirstVerdict'
<1>1. /\ UNCHANGED <<centric, bronze, check, cursor>> /\ AtEnd
      /\ TypeOK /\ window \in Window /\ window # None
  BY WindowsAre, WindowNotNone
     DEF FirstsInv, QuietWindowsInv, TakeOverTypeOK, Reading,
         EndFirstPass, EndLaterPass, Judge, NextPass, AtEnd, centricVars, dbVars
<1>2. CASE NextPass
  <2>1. window' = Again(window) /\ pc' = "save"
    BY <1>2 DEF NextPass, Again
  <2>2. window'.pass # 1
    BY <1>1, <2>1 DEF Again, Window, EndFirstPass, EndLaterPass
  <2>3. QED
    BY <2>1, <2>2 DEF OwnInv, FirstVerdict, Judged, Reading
<1>3. ASSUME NEW complete \in BOOLEAN, Judge(complete),
             complete /\ window.pass = 1 /\ ~FirstFetch => Distinct /\ ~Changed
      PROVE  OwnInv' /\ FirstVerdict'
  <2>1. /\ window' = window /\ pc' \notin {"save", "count", "read"}
        /\ req'.complete = complete
    BY <1>1, <1>3 DEF Judge, TypeOK
  <2>2. Mirrored(window, Listed(window)) => Mirrored(window, Listed(window))'
    BY <1>1, <2>1 DEF Mirrored, Listed, Lasting, ChangedSince, Settled, Current, Active
  <2>3. complete /\ window.pass = 1 /\ ~FirstFetch => Mirrored(window, Listed(window))
    BY <1>1, <1>3, FirstEndHasAll
  <2>4. FirstVerdict'
    BY <1>1, <2>1, <2>2, <2>3 DEF FirstVerdict, Reading, FirstFetch
  <2>5. QED
    BY <2>1, <2>4 DEF OwnInv
<1>4. CASE EndFirstPass
  <2>1. ProvenAtOnce /\ ~FirstFetch => Distinct /\ ~Changed
    BY DEF ProvenAtOnce, Verify
  <2>2. ProvenAtOnce \in BOOLEAN
    BY DEF ProvenAtOnce, Distinct
  <2>3. QED
    BY <1>2, <1>3, <1>4, <2>1, <2>2 DEF EndFirstPass
<1>5. CASE EndLaterPass
  <2>1. window.pass # 1 /\ ProvenAgain \in BOOLEAN
    BY <1>1, <1>5 DEF EndLaterPass, Window, ProvenAgain, TypeOK
  <2>2. QED
    BY <1>2, <1>3, <1>5, <2>1 DEF EndLaterPass
<1>6. QED
  BY <1>4, <1>5

LEMMA SavePassOwn ==
  ASSUME FirstsInv, SavePass \/ RepeatedPage
  PROVE  OwnInv' /\ FirstVerdict'
<1>1. CASE SavePass
  <2>1. pc = "save" /\ pc' = "read" /\ window' = window
    BY <1>1 DEF SavePass
  <2>2. \A w \in Reading : w.pass # 1
    BY <2>1 DEF FirstsInv, FirstsRest, OwnInv
  <2>3. QED
    BY <2>1, <2>2 DEF OwnInv, FirstVerdict, Reading, Judged
<1>2. CASE RepeatedPage
  BY <1>2 DEF RepeatedPage, OwnInv, FirstVerdict, Judged
<1>3. QED
  BY <1>1, <1>2

LEMMA LookupOwn ==
  ASSUME FirstsInv, ConfirmUnseen \/ Lookup, Steady
  PROVE  OwnInv' /\ FirstVerdict'
<1>1. /\ UNCHANGED <<cursor, window, req>> /\ pc \in Judged /\ pc' \in Judged
  BY DEF ConfirmUnseen, Lookup, dbVars, Judged
<1>2. OwnInv'
  BY <1>1 DEF OwnInv, Judged
<1>3. FirstVerdict'
  <2>1. SUFFICES ASSUME NEW w, w = window, w # None, req.complete, w.pass = 1, ~FirstFetch
                 PROVE  Mirrored(w, Listed(w))'
    BY <1>1 DEF FirstVerdict, Reading, FirstFetch
  <2>2. Mirrored(w, Listed(w))
    BY <1>1, <2>1 DEF FirstsInv, FirstsRest, FirstVerdict, Reading
  <2>3. QED
    BY <2>2, SteadyWindow DEF Mirrored
<1>4. QED
  BY <1>2, <1>3

(* Neither clock runs ahead of the other by more than it may.              *)
LEMMA FirstsClock ==
  ASSUME FirstsInv, [TakeOverNext]_<<vars, deposedVars>>, ~Centric
  PROVE  ClockInv'
<1>1. /\ TypeOK /\ ClockInv /\ \A w \in Kept : Timely(w)
      /\ now \in Int /\ srv \in Int /\ Lag \in Int /\ (cursor # None => cursor \in Int)
  BY ClockAssumption
     DEF FirstsInv, FirstsRest, QuietWindowsInv, TakeOverTypeOK, TypeOK
<1>2. CASE Tick \/ StepBack
  <2>1. /\ (srv' = srv + 1 /\ now' = now + 1) \/ (srv' = srv /\ now' = now - 1)
        /\ cursor' = cursor
    BY <1>2 DEF Tick, StepBack, centricVars, dbVars
  <2>2. QED
    BY <1>1, <2>1 DEF ClockInv
<1>3. CASE Finish
  <2>1. window \in Kept /\ cursor' \in {window.start, cursor} /\ UNCHANGED <<now, srv>>
    BY <1>1, <1>3, WindowsAre DEF Finish, NextCursor, centricVars, Kept, TypeOK
  <2>2. QED
    BY <1>1, <2>1 DEF ClockInv, Timely
<1>4. CASE UNCHANGED <<now, srv, cursor>>
  BY <1>1, <1>4 DEF ClockInv
<1>5. UNCHANGED <<now, srv, cursor>> \/ Tick \/ StepBack \/ Finish
  BY DEF TakeOverNext, Deposed, Depose, Arrive, Answer, SaveWindow, DropWindow, Depart, Holder,
         HolderStart, Open, Process, Count, ReadPage, RepeatedPage, Reject, EndFirstPass,
         EndLaterPass, Judge, NextPass, SavePass, ConfirmUnseen, Lookup, Stop,
         vars, centricVars, dbVars
<1>6. QED
  BY <1>2, <1>3, <1>4, <1>5

LEMMA FirstsKept ==
  ASSUME FirstsInv, [TakeOverNext]_<<vars, deposedVars>>, ~Centric
  PROVE  FirstsRest'
<1>1. Steady /\ OwnInv /\ FirstVerdict /\ QuietWindowsInv
  BY StepsAreSteady DEF FirstsInv, FirstsRest
<1>2. OwnInv' /\ FirstVerdict'
  <2>1. CASE Aside \/ Tick \/ StepBack \/ UNCHANGED <<vars, deposedVars>>
    <3>1. UNCHANGED <<centric, bronze, cursor, procVars>>
      BY <2>1, AsideFrame DEF Tick, StepBack, vars, centricVars, dbVars
    <3>2. QED
      BY <1>1, <3>1, OwnStays
  <2>2. CASE Depose \/ Stop \/ Reject \/ Finish
    BY <2>2, IdleOwn DEF Depose, Stop, Reject, Finish
  <2>3. CASE HolderStart \/ Count \/ ReadPage \/ SavePass \/ RepeatedPage
    BY <2>3, HolderStartOwn, CountOwn, ReadPageOwn, SavePassOwn
  <2>4. CASE EndFirstPass \/ EndLaterPass \/ ConfirmUnseen \/ Lookup
    BY <1>1, <2>4, EndPassOwn, LookupOwn
  <2>5. QED
    BY <2>1, <2>2, <2>3, <2>4 DEF TakeOverNext, Deposed, Aside, Holder, Process
<1>3. QED
  BY <1>2, WindowsStayTimely, FirstsClock DEF FirstsRest

(* What has changed is not lasting, and what lasts is stored as it was.    *)
LEMMA ChangedLasting ==
  ASSUME FirstsInv, NEW i \in Ids, Create(i) \/ Edit(i) \/ Delete(i), NEW w \in Kept
  PROVE  /\ \A j \in Listed(w)' : Lasting(j, w)' => j \in Listed(w) /\ Lasting(j, w)
         /\ \A j \in Ids : centric'[j] # None /\ Lasting(j, w)' =>
              /\ centric[j] # None /\ Lasting(j, w)
              /\ (Current(j)' <=> Current(j)) /\ (Settled(j)' <=> Settled(j))
         /\ Mirrored(w, Listed(w)) => Mirrored(w, Listed(w))'
         /\ Timely(w)'
<1>1. TypeOK /\ w \in Window /\ Timely(w)
  BY KeptType DEF FirstsInv, FirstsRest, QuietWindowsInv, TakeOverTypeOK
<1>2. /\ UNCHANGED <<srv, bronze, check>>
      /\ \A j \in Ids : j # i => centric'[j] = centric[j]
      /\ centric'[i] # None => centric'[i].mod = srv
  BY <1>1, ChangedCentric
<1>3. centric'[i] # None => ~Lasting(i, w)'
  <2>1. srv \in Int /\ w.start \in Int /\ w.start - Overlap <= srv
    BY <1>1, ClockAssumption DEF Timely, TypeOK, Window
  <2>2. QED
    BY <1>2, <2>1, ClockAssumption DEF Lasting, ChangedSince
<1>4. ASSUME NEW j \in Ids, centric'[j] # None, Lasting(j, w)'
      PROVE  /\ j # i /\ centric'[j] = centric[j] /\ Lasting(j, w)
             /\ (Current(j)' <=> Current(j)) /\ (Settled(j)' <=> Settled(j))
  <2>1. j # i /\ centric'[j] = centric[j]
    BY <1>2, <1>3, <1>4
  <2>2. Lasting(j, w)
    BY <1>4, <2>1 DEF Lasting, ChangedSince
  <2>3. (Current(j)' <=> Current(j)) /\ (Settled(j)' <=> Settled(j))
    BY <1>2, <2>1 DEF Current, Active, Settled
  <2>4. QED
    BY <2>1, <2>2, <2>3
<1>5. \A j \in Listed(w)' : j \in Ids /\ centric'[j] # None
  BY DEF Listed
<1>6. \A j \in Listed(w)' : Lasting(j, w)' => j \in Listed(w) /\ Lasting(j, w)
  BY <1>4, <1>5 DEF Listed
<1>7. Mirrored(w, Listed(w)) => Mirrored(w, Listed(w))'
  <2>1. Mirrored(w, Listed(w)) => \A j \in Listed(w)' : Lasting(j, w)' => Settled(j)'
    BY <1>4, <1>5, <1>6 DEF Mirrored
  <2>2. QED
    BY <2>1 DEF Mirrored
<1>8. QED
  BY <1>1, <1>2, <1>4, <1>6, <1>7 DEF Timely

LEMMA CentricFirsts ==
  ASSUME FirstsInv, Centric, UNCHANGED deposedVars
  PROVE  FirstsRest'
<1>1. PICK i \in Ids : Create(i) \/ Edit(i) \/ Delete(i)
  BY DEF Centric
<1>2. TypeOK /\ ClockInv /\ OwnInv /\ FirstVerdict
  BY DEF FirstsInv, FirstsRest, QuietWindowsInv, TakeOverTypeOK
<1>3. UNCHANGED <<srv, now, bronze, cursor, pending, pc, window, req, pass, check, dwindow>>
  BY <1>1, <1>2, ChangedCentric DEF deposedVars
<1>4. Kept' = Kept /\ Reading' = Reading /\ Reading \subseteq Kept
  BY <1>3 DEF Kept, Reading
<1>5. \A w \in Kept' : Timely(w)'
  BY <1>1, <1>4, ChangedLasting
<1>6. ASSUME NEW w \in Reading
      PROVE  /\ SeenIds(bronze, w.run)' = SeenIds(bronze, w.run)
             /\ ReadAsItWas(w) => ReadAsItWas(w)'
             /\ CountedOnce(w) => CountedOnce(w)'
             /\ Mirrored(w, Listed(w)) => Mirrored(w, Listed(w))'
  <2>1. SeenIds(bronze, w.run)' = SeenIds(bronze, w.run) /\ SeenIds(bronze, w.run) \subseteq Ids
    BY <1>2, <1>3, SeenAre DEF SeenIds
  <2>2. /\ \A j \in Listed(w)' : Lasting(j, w)' => j \in Listed(w) /\ Lasting(j, w)
        /\ \A j \in Ids : centric'[j] # None /\ Lasting(j, w)' =>
             centric[j] # None /\ Lasting(j, w) /\ (Current(j)' <=> Current(j))
        /\ Mirrored(w, Listed(w)) => Mirrored(w, Listed(w))'
    BY <1>1, <1>4, ChangedLasting
  <2>3. ReadAsItWas(w) => ReadAsItWas(w)'
    BY <2>1, <2>2 DEF ReadAsItWas
  <2>4. CountedOnce(w) => CountedOnce(w)'
    BY <1>3, <2>1, <2>2 DEF CountedOnce
  <2>5. QED
    BY <2>1, <2>2, <2>3, <2>4
<1>7. OwnInv' /\ FirstVerdict'
  BY <1>2, <1>3, <1>4, <1>6 DEF OwnInv, FirstVerdict, FirstFetch
<1>8. ClockInv'
  BY <1>2, <1>3 DEF ClockInv
<1>9. QED
  BY <1>5, <1>7, <1>8 DEF FirstsRest

(* A step of Centric leaves the deposed run alone.                         *)
LEMMA CentricAlone ==
  ASSUME TypeOK, [TakeOverNext]_<<vars, deposedVars>>, Centric
  PROVE  UNCHANGED deposedVars
<1>1. rev' = rev + 1 /\ rev \in Nat
  BY ChangedCentric DEF Centric, TypeOK
<1>2. Deposed \/ UNCHANGED <<vars, deposedVars>> => rev' = rev
  BY DEF Deposed, Depose, Arrive, Answer, SaveWindow, DropWindow, Depart, vars, centricVars
<1>3. QED
  BY <1>1, <1>2 DEF TakeOverNext

LEMMA FirstsNext ==
  FirstsInv /\ [TakeOverNext]_<<vars, deposedVars>> => FirstsInv'
<1> SUFFICES ASSUME FirstsInv, [TakeOverNext]_<<vars, deposedVars>>
             PROVE  FirstsInv'
  OBVIOUS
<1>1. QuietWindowsInv' /\ TypeOK
  BY QuietWindowsNext DEF FirstsInv, QuietWindowsInv, TakeOverTypeOK
<1>2. CASE ~Centric
  BY <1>1, <1>2, FirstsKept DEF FirstsInv
<1>3. CASE Centric
  BY <1>1, <1>3, CentricAlone, CentricFirsts DEF FirstsInv
<1>4. QED
  BY <1>2, <1>3

LEMMA FirstsInit == TakeOverInit => FirstsInv
<1> SUFFICES ASSUME TakeOverInit
             PROVE  FirstsInv
  OBVIOUS
<1>1. QuietWindowsInv /\ ClockInv
  BY QuietWindowsInit, InvInit DEF TakeOverInit, Inv, Rest
<1>2. Kept = {} /\ Reading = {}
  BY DEF TakeOverInit, Init, Kept, Reading
<1>3. QED
  BY <1>1, <1>2 DEF FirstsInv, FirstsRest, OwnInv, FirstVerdict

(* Judged on its first pass, by its count, a holder's window that is not   *)
(* the first fetch is complete whatever a deposed run saves or drops under *)
(* it and however many of its records change: a window the holder resumed  *)
(* is not judged by its count, and one it opened itself is its own.        *)
THEOREM HoldersFirstPassesAreComplete ==
  TakeOverSpec =>
    [](pc = "finish" /\ window.pass = 1 /\ ~FirstFetch => ProvenIsComplete)
<1>1. FirstsInv => (pc = "finish" /\ window.pass = 1 /\ ~FirstFetch => ProvenIsComplete)
  <2> SUFFICES ASSUME FirstsInv, pc = "finish", window.pass = 1, ~FirstFetch, req.complete,
                      NEW i \in Listed(window), centric[i].mod < ChangedSince(window)
               PROVE  Current(i)
    BY DEF ProvenIsComplete
  <2>1. window \in Reading
    BY WindowsAre DEF FirstsInv, QuietWindowsInv, TakeOverTypeOK
  <2>2. Mirrored(window, Listed(window))
    BY <2>1 DEF FirstsInv, FirstsRest, FirstVerdict, Judged
  <2>3. QED
    BY <2>2 DEF Mirrored, Lasting, Settled
<1>2. QED
  BY <1>1, FirstsInit, FirstsNext, PTL DEF TakeOverSpec

-----------------------------------------------------------------------------
(* Windows whose records change.  The deposed run's window is not the one  *)
(* that shifts counts for, so that the changes are counted by run: of each *)
(* window that is kept somewhere, how many of the records it lists were    *)
(* edited or deleted since it was opened.                                  *)

VARIABLE moves

Moved(r) == \E w \in Kept : w.run = r /\ \E i \in Listed(w) : centric'[i] # centric[i]

MovesNext ==
  moves' = [r \in RunIds |->
              IF Moved(r) THEN moves[r] + 1
              ELSE IF \E w \in Kept : w.run = r THEN moves[r] ELSE 0]

CountsMoves ==
  moves = [r \in RunIds |-> 0] /\ [][MovesNext]_<<vars, deposedVars, moves>>

(* FewShifts, for whichever window.                                        *)
Few(w) == moves[w.run] <= IF FirstFetch THEN 0 ELSE 1

FewMoves == \A w \in Reading : Few(w)

(* As long as no record leaves its place a window has what lies before its *)
(* position, and all of it in a later pass.  When one does, either it had  *)
(* all by then or the pass under way is not disturbed.                     *)
Claim(w) ==
  /\ moves[w.run] = 0 => Mirrored(w, Covered(w))
  /\ moves[w.run] <= 1 /\ w.pass # 1 => Mirrored(w, Listed(w)) \/ Mirrored(w, Before(w))

(* What is judged complete has been read.                                  *)
Believed(w) == moves[w.run] = 0 \/ (req.complete /\ Few(w))

VerdictInv ==
  \A w \in Reading : pc \in Judged /\ Believed(w) => Mirrored(w, Listed(w))

ClaimsRest ==
  /\ moves \in [RunIds -> Nat]
  /\ \A w \in Kept : Claim(w)
  /\ VerdictInv

ClaimsInv == FirstsInv /\ ClaimsRest

MovesStep == [TakeOverNext]_<<vars, deposedVars>> /\ [MovesNext]_<<vars, deposedVars, moves>>

LEMMA MovesCount ==
  ASSUME TakeOverTypeOK, moves \in [RunIds -> Nat], MovesStep
  PROVE  /\ moves' \in [RunIds -> Nat]
         /\ \A w \in Kept : moves'[w.run] = IF Moved(w.run) THEN moves[w.run] + 1 ELSE moves[w.run]
<1>1. CASE MovesNext
  <2>1. \A r \in RunIds : moves[r] + 1 \in Nat
    OBVIOUS
  <2>2. QED
    BY <1>1, <2>1, KeptType DEF MovesNext
<1>2. CASE UNCHANGED <<vars, deposedVars, moves>>
  <2>1. \A r : ~Moved(r)
    BY <1>2 DEF Moved, vars, centricVars
  <2>2. QED
    BY <1>2, <2>1
<1>3. QED
  BY <1>1, <1>2 DEF MovesStep

(* A window keeps its claim when what was stored stays so.                 *)
LEMMA SteadyClaim ==
  ASSUME Steady, NEW w, moves'[w.run] = moves[w.run], Claim(w)
  PROVE  Claim(w)'
BY SteadyWindow DEF Claim

(* The next pass of a window has a place of its own to start from.         *)
LEMMA AgainClaims ==
  ASSUME TypeOK, VersionsInv, NEW w \in Window, DOMAIN Page(w) = {}, Claim(w)
  PROVE  Claim(Again(w))
<1>1. /\ Again(w).run = w.run /\ Again(w).start = w.start /\ Again(w).floor = w.floor
      /\ Again(w).skip = 0 /\ Listed(Again(w)) = Listed(w)
      /\ \A i : Lasting(i, Again(w)) <=> Lasting(i, w)
  BY DEF Again, Window, Listed, Lasting, ChangedSince
<1>2. Covered(Again(w)) \subseteq Covered(w)
  BY <1>1, EndCoversAll DEF Covered, Before
<1>3. Before(Again(w)) = {}
  BY <1>1, ListedOrdered DEF Before
<1>4. QED
  BY <1>1, <1>2, <1>3 DEF Claim, Mirrored

(* A resumed window claims no more than it did, a new one nothing.         *)
LEMMA OpenedClaims ==
  ASSUME TypeOK, VersionsInv, pending # None => Claim(pending),
         NEW run \in RunIds, NEW full, NEW restart,
         NEW w, w = Opened(run, full, restart)
  PROVE  /\ Resumes(full, restart) => pending # None /\ w.run = pending.run /\ Claim(w)
         /\ ~Resumes(full, restart) => w.run = run /\ w.pass = 1 /\ Covered(w) = {}
<1>1. CASE Resumes(full, restart)
  <2>1. pending \in Window /\ pending # None /\ w = Resumed(pending)
    BY <1>1, WindowNotNone DEF Resumes, Opened, TypeOK
  <2>2. /\ w.run = pending.run /\ w.pass = pending.pass /\ w.floor = pending.floor
        /\ w.start = pending.start
        /\ w.pass = 1 => w.skip = pending.skip
        /\ w.pass # 1 => w.skip = 0
    BY <2>1 DEF Resumed, Window
  <2>3. Listed(w) = Listed(pending) /\ \A i : Lasting(i, w) <=> Lasting(i, pending)
    BY <2>2 DEF Listed, Lasting, ChangedSince
  <2>4. Covered(w) = Covered(pending)
    BY <2>2, <2>3 DEF Covered, Before
  <2>5. w.pass # 1 => Before(w) = {}
    BY <2>2, ListedOrdered DEF Before
  <2>6. QED
    BY <1>1, <2>1, <2>2, <2>3, <2>4, <2>5 DEF Claim, Mirrored
<1>2. CASE ~Resumes(full, restart)
  <2>1. w.run = run /\ w.pass = 1 /\ w.skip = 0
    BY <1>2 DEF Opened, NewWindow
  <2>2. Covered(w) = {}
    BY <2>1, ListedOrdered DEF Covered, Before
  <2>3. QED
    BY <1>2, <2>1, <2>2
<1>3. QED
  BY <1>1, <1>2

(* A page more of what the window lists is a page more of what is stored.  *)
LEMMA PageClaims ==
  ASSUME QuietWindowsInv, ReadPage, Steady, NEW u, u = window, Claim(u),
         moves'[u.run] = moves[u.run], NEW w, w = window'
  PROVE  Claim(w)'
<1>1. TypeOK /\ VersionsInv /\ MissingIsGone /\ u \in Window /\ check = NoCheck
  BY WindowsAre DEF QuietWindowsInv, QuietRest, TakeOverTypeOK, ReadPage, MissingIsGone
<1> DEFINE page == DOMAIN Page(u)
<1>2. /\ w.run = u.run /\ w.pass = u.pass /\ Listed(w) = Listed(u)
      /\ Before(w) = Before(u) \cup page
  BY <1>1, PageMoves
<1>3. /\ w.start = u.start /\ w.floor = u.floor
      /\ UNCHANGED <<srv, check>>
  BY <1>1 DEF ReadPage, Window, centricVars
<1>4. \A i : Lasting(i, w)' <=> Lasting(i, u)
  <2>1. \A i : Lasting(i, w) <=> Lasting(i, u)
    BY <1>3 DEF Lasting, ChangedSince
  <2>2. QED
    BY <2>1, SteadyWindow
<1>5. /\ \A i \in page : Settled(i)'
      /\ page \subseteq Listed(u)
  BY <1>1, <1>3, PageStores, PageType DEF Settled, Stored, NoCheck, EmptyPage
<1>6. \A i \in Listed(u) : Settled(i) => Settled(i)'
  BY DEF Steady, Listed
<1> HIDE DEF page
<1>7. ASSUME NEW S, S \subseteq Listed(u), Mirrored(u, S), NEW T, T \subseteq S \cup page
      PROVE  Mirrored(w, T)'
  <2>1. \A i \in T : Lasting(i, u) => Settled(i)'
    BY <1>5, <1>6, <1>7 DEF Mirrored
  <2>2. QED
    BY <1>4, <2>1 DEF Mirrored
<1>8. /\ Listed(w)' = Listed(u) /\ Before(w)' = Before(u) \cup page /\ Covered(w)' = Covered(w)
      /\ Covered(w) \subseteq Covered(u) \cup page
      /\ Covered(u) \subseteq Listed(u) /\ Before(u) \subseteq Listed(u)
  BY <1>2, SteadyWindow DEF Covered
<1>9. Mirrored(u, Covered(u)) => Mirrored(w, Covered(w))'
  <2>1. Mirrored(u, Covered(u)) => \A T : T \subseteq Covered(u) \cup page => Mirrored(w, T)'
    BY <1>7, <1>8
  <2>2. QED
    BY <1>8, <2>1 DEF Mirrored
<1>10. Mirrored(u, Before(u)) => Mirrored(w, Before(w))'
  <2>1. Mirrored(u, Before(u)) => \A T : T \subseteq Before(u) \cup page => Mirrored(w, T)'
    BY <1>7, <1>8
  <2>2. QED
    BY <1>8, <2>1 DEF Mirrored
<1>11. Mirrored(u, Listed(u)) => Mirrored(w, Listed(w))'
  <2>1. Mirrored(u, Listed(u)) => \A T : T \subseteq Listed(u) \cup page => Mirrored(w, T)'
    BY <1>7
  <2>2. QED
    BY <1>8, <2>1 DEF Mirrored
<1>12. QED
  BY <1>2, <1>9, <1>10, <1>11 DEF Claim

LEMMA WindowsKeepClaims ==
  ASSUME ClaimsInv, MovesStep, ~Centric
  PROVE  /\ moves' \in [RunIds -> Nat]
         /\ \A w \in Kept : moves'[w.run] = moves[w.run]
         /\ \A w \in Kept' : Claim(w)'
<1>1. /\ TakeOverTypeOK /\ TypeOK /\ VersionsInv /\ QuietWindowsInv
      /\ \A w \in Kept : Claim(w)
  BY DEF ClaimsInv, ClaimsRest, FirstsInv, QuietWindowsInv, QuietRest, TakeOverTypeOK
<1>2. Steady
  BY <1>1, StepsAreSteady DEF MovesStep
<1>3. /\ moves' \in [RunIds -> Nat]
      /\ \A w \in Kept : moves'[w.run] = moves[w.run]
  <2>1. \A r : ~Moved(r)
    BY <1>2 DEF Moved, Steady
  <2>2. QED
    BY <1>1, <2>1, MovesCount DEF ClaimsInv, ClaimsRest
<1>4. Kept \subseteq Window
  BY <1>1, KeptType
<1>5. ASSUME NEW u \in Kept, NEW w, w.run = u.run, Claim(w)
      PROVE  Claim(w)'
  BY <1>2, <1>3, <1>5, SteadyClaim
<1>6. ASSUME NEW w \in Kept'
      PROVE  Claim(w)'
  <2>1. CASE w \in Kept
    BY <1>1, <1>5, <2>1
  <2>2. CASE \E u \in Kept : DOMAIN Page(u) = {} /\ w = Again(u)
    <3>1. PICK u \in Kept : DOMAIN Page(u) = {} /\ w = Again(u)
      BY <2>2
    <3>2. Claim(w) /\ w.run = u.run
      BY <1>1, <1>4, <3>1, AgainClaims DEF Again, Window
    <3>3. QED
      BY <1>5, <3>2
  <2>3. CASE \E run \in RunIds, full, restart \in BOOLEAN : w = Opened(run, full, restart)
    <3>1. PICK run \in RunIds, full \in BOOLEAN, restart \in BOOLEAN : w = Opened(run, full, restart)
      BY <2>3
    <3>2. pending # None => Claim(pending)
      BY <1>1 DEF Kept
    <3>3. CASE Resumes(full, restart)
      <4>1. pending \in Kept /\ w.run = pending.run /\ Claim(w)
        BY <1>1, <3>1, <3>2, <3>3, OpenedClaims DEF Kept
      <4>2. QED
        BY <1>5, <4>1
    <3>4. CASE ~Resumes(full, restart)
      <4>1. w.pass = 1 /\ Covered(w) = {}
        BY <1>1, <3>1, <3>2, <3>4, OpenedClaims
      <4>2. Covered(w)' = {}
        BY <1>2, <4>1, SteadyWindow
      <4>3. QED
        BY <4>1, <4>2 DEF Claim, Mirrored
    <3>5. QED
      BY <3>3, <3>4
  <2>4. CASE ReadPage /\ w = window'
    <3>1. window \in Kept
      BY <1>1, <2>4 DEF ReadPage, Kept, TypeOK
    <3>2. QED
      BY <1>1, <1>2, <1>3, <2>4, <3>1, PageClaims
  <2>5. QED
    BY <1>1, <1>6, <2>1, <2>2, <2>3, <2>4, KeptWindows DEF MovesStep
<1>7. QED
  BY <1>3, <1>6

(* The end of a pass: a later one has all there is unless two records have *)
(* left their place.                                                       *)
LEMMA EndHasAll ==
  ASSUME ClaimsInv, AtEnd, moves[window.run] = 0 \/ (moves[window.run] <= 1 /\ window.pass # 1)
  PROVE  Mirrored(window, Listed(window))
<1>1. TypeOK /\ VersionsInv /\ window \in Window /\ Claim(window)
  BY WindowsAre
     DEF ClaimsInv, ClaimsRest, FirstsInv, QuietWindowsInv, QuietRest, TakeOverTypeOK, AtEnd,
         Kept, Reading
<1>2. Before(window) = Listed(window) /\ Covered(window) = Listed(window)
  BY <1>1, EndCoversAll DEF AtEnd
<1>3. QED
  BY <1>1, <1>2 DEF Claim

LEMMA EndPassVerdict ==
  ASSUME ClaimsInv, EndFirstPass \/ EndLaterPass, moves'[window.run] = moves[window.run]
  PROVE  VerdictInv'
<1>1. /\ UNCHANGED <<centric, bronze, check, cursor>> /\ AtEnd
      /\ TypeOK /\ window \in Window /\ window # None /\ moves[window.run] \in Nat
  BY WindowsAre, WindowNotNone
     DEF ClaimsInv, ClaimsRest, FirstsInv, QuietWindowsInv, TakeOverTypeOK, Reading, Window,
         EndFirstPass, EndLaterPass, Judge, NextPass, AtEnd, centricVars, dbVars
<1>2. CASE NextPass
  BY <1>2 DEF NextPass, VerdictInv, Judged
<1>3. ASSUME NEW complete \in BOOLEAN, Judge(complete),
             complete /\ Few(window) => Mirrored(window, Listed(window))
      PROVE  VerdictInv'
  <2>1. window' = window /\ req'.complete = complete
    BY <1>1, <1>3 DEF Judge, TypeOK
  <2>2. Mirrored(window, Listed(window)) => Mirrored(window, Listed(window))'
    BY <1>1, <2>1 DEF Mirrored, Listed, Lasting, ChangedSince, Settled, Current, Active
  <2>3. Believed(window)' => Mirrored(window, Listed(window))
    BY <1>1, <1>3, <2>1, EndHasAll DEF Believed, Few, FirstFetch
  <2>4. QED
    BY <2>1, <2>2, <2>3 DEF VerdictInv, Reading
<1>4. Few(window) => moves[window.run] = 0 \/ (moves[window.run] <= 1 /\ ~FirstFetch)
  BY <1>1 DEF Few
<1>5. CASE EndFirstPass
  <2>1. ProvenAtOnce /\ ~FirstFetch => Distinct /\ ~Changed
    BY DEF ProvenAtOnce, Verify
  <2>2. ProvenAtOnce /\ Few(window) => Mirrored(window, Listed(window))
    BY <1>1, <1>4, <1>5, <2>1, EndHasAll, FirstEndHasAll DEF EndFirstPass, ClaimsInv
  <2>3. ProvenAtOnce \in BOOLEAN
    BY DEF ProvenAtOnce, Distinct
  <2>4. QED
    BY <1>2, <1>3, <1>5, <2>2, <2>3 DEF EndFirstPass
<1>6. CASE EndLaterPass
  <2>1. window.pass # 1 /\ ProvenAgain \in BOOLEAN
    BY <1>1, <1>6 DEF EndLaterPass, Window, ProvenAgain, TypeOK
  <2>2. Few(window) => Mirrored(window, Listed(window))
    BY <1>1, <1>4, <2>1, EndHasAll
  <2>3. QED
    BY <1>2, <1>3, <1>6, <2>1, <2>2 DEF EndLaterPass
<1>7. QED
  BY <1>5, <1>6

(* A verdict stays when the window, Centric and what is stored do.         *)
LEMMA VerdictStays ==
  ASSUME VerdictInv, Steady, UNCHANGED <<cursor, window, req>>, pc' \in Judged => pc \in Judged,
         \A w \in Reading : moves'[w.run] = moves[w.run]
  PROVE  VerdictInv'
<1>1. SUFFICES ASSUME NEW w \in Reading, pc \in Judged, Believed(w)'
               PROVE  Mirrored(w, Listed(w))'
  BY DEF VerdictInv, Reading
<1>2. Believed(w)
  BY <1>1 DEF Believed, Few, FirstFetch
<1>3. Mirrored(w, Listed(w))
  BY <1>1, <1>2 DEF VerdictInv
<1>4. QED
  BY <1>3, SteadyWindow DEF Mirrored

LEMMA ClaimsKept ==
  ASSUME ClaimsInv, MovesStep, ~Centric
  PROVE  ClaimsRest'
<1>1. /\ moves' \in [RunIds -> Nat]
      /\ \A w \in Reading : moves'[w.run] = moves[w.run]
      /\ \A w \in Kept' : Claim(w)'
  BY WindowsKeepClaims DEF Reading, Kept
<1>2. Steady /\ VerdictInv
  BY StepsAreSteady DEF ClaimsInv, ClaimsRest, FirstsInv, MovesStep
<1>3. VerdictInv'
  <2>1. CASE Aside \/ Tick \/ StepBack \/ UNCHANGED <<vars, deposedVars>>
    <3>1. UNCHANGED <<cursor, window, req, pc>>
      BY <2>1, AsideFrame DEF Tick, StepBack, vars, dbVars, procVars
    <3>2. QED
      BY <1>1, <1>2, <3>1, VerdictStays
  <2>2. CASE ConfirmUnseen \/ Lookup
    <3>1. UNCHANGED <<cursor, window, req>> /\ pc \in Judged
      BY <2>2 DEF ConfirmUnseen, Lookup, dbVars, Judged
    <3>2. QED
      BY <1>1, <1>2, <3>1, VerdictStays
  <2>3. CASE EndFirstPass \/ EndLaterPass
    <3>1. window \in Reading
      BY <2>3, WindowsAre
         DEF ClaimsInv, FirstsInv, QuietWindowsInv, TakeOverTypeOK, EndFirstPass, EndLaterPass, AtEnd
    <3>2. QED
      BY <1>1, <2>3, <3>1, EndPassVerdict
  <2>4. CASE \/ Depose \/ Stop \/ Reject \/ Finish \/ HolderStart \/ Count \/ ReadPage
             \/ SavePass \/ RepeatedPage
    BY <2>4 DEF Depose, Stop, Reject, Finish, HolderStart, Open, Count, ReadPage, SavePass,
       RepeatedPage, VerdictInv, Judged
  <2>5. QED
    BY <2>1, <2>2, <2>3, <2>4 DEF MovesStep, TakeOverNext, Deposed, Aside, Holder, Process
<1>4. QED
  BY <1>1, <1>3 DEF ClaimsRest

(* What is kept keeps its place unless a record that is listed has left    *)
(* its own.                                                                *)
LEMMA ChangedClaims ==
  ASSUME ClaimsInv, MovesStep, NEW i \in Ids, Create(i) \/ Edit(i) \/ Delete(i), NEW w \in Kept
  PROVE  moves'[w.run] \in {moves[w.run], moves[w.run] + 1} /\ Claim(w)'
<1>1. /\ TakeOverTypeOK /\ TypeOK /\ VersionsInv /\ w \in Window /\ w.run \in RunIds
      /\ Claim(w) /\ moves[w.run] \in Nat /\ FirstsInv
  BY KeptType DEF ClaimsInv, ClaimsRest, FirstsInv, QuietWindowsInv, QuietRest, TakeOverTypeOK
<1>2. moves'[w.run] = IF Moved(w.run) THEN moves[w.run] + 1 ELSE moves[w.run]
  BY <1>1, MovesCount DEF ClaimsInv, ClaimsRest
<1>3. centric'[i] # None => centric'[i].rev = rev + 1
  BY <1>1, ChangedCentric
<1>4. /\ \A j \in Listed(w)' : Lasting(j, w)' => j \in Listed(w) /\ Lasting(j, w)
      /\ \A j \in Listed(w)' : Lasting(j, w)' => (Settled(j)' <=> Settled(j))
      /\ Mirrored(w, Listed(w)) => Mirrored(w, Listed(w))'
  <2>1. \A j \in Listed(w)' : j \in Ids /\ centric'[j] # None
    BY DEF Listed
  <2>2. QED
    BY <1>1, <2>1, ChangedLasting
<1>5. ASSUME NEW S, Mirrored(w, S), NEW T, T \subseteq Listed(w)',
             \A j \in T : Lasting(j, w)' => j \in S
      PROVE  \A j \in T : Lasting(j, w)' => Settled(j)'
  BY <1>4, <1>5 DEF Mirrored
<1>6. i \in Listed(w) => moves'[w.run] = moves[w.run] + 1
  <2>1. ASSUME i \in Listed(w)
        PROVE  centric'[i] # centric[i]
    <3>1. centric[i] # None /\ centric[i].rev \in Nat /\ centric[i].rev <= rev /\ rev \in Nat
      BY <1>1, <2>1, VersionTypes DEF Listed, VersionsInv, Known, TypeOK
    <3>2. CASE centric'[i] = None
      BY <3>1, <3>2
    <3>3. CASE centric'[i] # None
      BY <1>3, <3>1, <3>3
    <3>4. QED
      BY <3>2, <3>3
  <2>2. QED
    BY <1>2, <2>1 DEF Moved
<1>7. ASSUME i \notin Listed(w)
       PROVE  /\ Before(w)' \subseteq Listed(w)'
              /\ \A j \in Before(w)' : Lasting(j, w)' => j \in Before(w)
              /\ Covered(w)' \subseteq Listed(w)'
              /\ \A j \in Covered(w)' : Lasting(j, w)' => j \in Covered(w)
  <2>1. \A j \in Listed(w) : Rank(j, Listed(w))' = Rank(j, Listed(w))
    BY <1>1, <1>7, LastListed
  <2>2. Before(w)' \subseteq Listed(w)' /\ Covered(w)' \subseteq Listed(w)'
    BY DEF Before, Covered
  <2>3. \A j \in Before(w)' : Lasting(j, w)' => j \in Before(w)
    BY <1>4, <2>1, <2>2 DEF Before
  <2>4. QED
    BY <1>4, <2>2, <2>3 DEF Covered
<1>8. moves'[w.run] = 0 => Mirrored(w, Covered(w))'
  <2>1. SUFFICES ASSUME moves'[w.run] = 0
                 PROVE  Mirrored(w, Covered(w))'
    OBVIOUS
  <2>2. i \notin Listed(w) /\ moves[w.run] = 0
    BY <1>1, <1>2, <1>6, <2>1
  <2>3. Mirrored(w, Covered(w))
    BY <1>1, <2>2 DEF Claim
  <2>4. \A j \in Covered(w)' : Lasting(j, w)' => Settled(j)'
    BY <1>5, <1>7, <2>2, <2>3
  <2>5. QED
    BY <2>4 DEF Mirrored
<1>9. moves'[w.run] <= 1 /\ w.pass # 1 =>
         Mirrored(w, Listed(w))' \/ Mirrored(w, Before(w))'
  <2>1. SUFFICES ASSUME moves'[w.run] <= 1, w.pass # 1
                 PROVE  Mirrored(w, Listed(w))' \/ Mirrored(w, Before(w))'
    OBVIOUS
  <2>2. CASE i \in Listed(w)
    <3>1. moves[w.run] = 0
      BY <1>1, <1>6, <2>1, <2>2
    <3>2. Mirrored(w, Listed(w))
      BY <1>1, <2>1, <3>1 DEF Claim, Covered
    <3>3. QED
      BY <1>4, <3>2
  <2>3. CASE i \notin Listed(w)
    <3>1. Mirrored(w, Listed(w)) \/ Mirrored(w, Before(w))
      BY <1>1, <1>2, <2>1 DEF Claim
    <3>2. Mirrored(w, Before(w)) => \A j \in Before(w)' : Lasting(j, w)' => Settled(j)'
      BY <1>5, <1>7, <2>3
    <3>3. Mirrored(w, Before(w)) => Mirrored(w, Before(w))'
      BY <3>2 DEF Mirrored
    <3>4. QED
      BY <1>4, <3>1, <3>3
  <2>4. QED
    BY <2>2, <2>3
<1>10. QED
  BY <1>1, <1>2, <1>8, <1>9 DEF Claim

LEMMA CentricClaims ==
  ASSUME ClaimsInv, MovesStep, Centric
  PROVE  ClaimsRest'
<1>1. PICK i \in Ids : Create(i) \/ Edit(i) \/ Delete(i)
  BY DEF Centric
<1>2. TakeOverTypeOK /\ TypeOK /\ VerdictInv /\ FirstsInv
  BY DEF ClaimsInv, ClaimsRest, FirstsInv, QuietWindowsInv, TakeOverTypeOK
<1>3. UNCHANGED <<cursor, pending, pc, window, req, dwindow>>
  BY <1>1, <1>2, ChangedCentric, CentricAlone DEF deposedVars, MovesStep
<1>4. Kept' = Kept /\ Reading' = Reading /\ Reading \subseteq Kept
  BY <1>3 DEF Kept, Reading
<1>5. moves' \in [RunIds -> Nat]
  BY <1>2, MovesCount DEF ClaimsInv, ClaimsRest
<1>6. \A w \in Kept' : Claim(w)'
  BY <1>1, <1>4, ChangedClaims
<1>7. ASSUME NEW w \in Reading
      PROVE  /\ Believed(w)' => Believed(w)
             /\ Mirrored(w, Listed(w)) => Mirrored(w, Listed(w))'
  <2>1. moves[w.run] \in Nat /\ moves'[w.run] \in {moves[w.run], moves[w.run] + 1}
    BY <1>1, <1>2, <1>4, KeptType, ChangedClaims DEF ClaimsInv, ClaimsRest
  <2>2. QED
    BY <1>1, <1>2, <1>3, <1>4, <2>1, ChangedLasting DEF Believed, Few, FirstFetch
<1>8. VerdictInv'
  BY <1>2, <1>3, <1>4, <1>7 DEF VerdictInv
<1>9. QED
  BY <1>5, <1>6, <1>8 DEF ClaimsRest

LEMMA ClaimsNext ==
  ClaimsInv /\ [TakeOverNext]_<<vars, deposedVars>> /\ [MovesNext]_<<vars, deposedVars, moves>>
    => ClaimsInv'
<1> SUFFICES ASSUME ClaimsInv, MovesStep
             PROVE  ClaimsInv'
  BY DEF MovesStep
<1>1. FirstsInv'
  BY FirstsNext DEF ClaimsInv, MovesStep
<1>2. ClaimsRest'
  BY ClaimsKept, CentricClaims
<1>3. QED
  BY <1>1, <1>2 DEF ClaimsInv

LEMMA ClaimsInit == TakeOverInit /\ moves = [r \in RunIds |-> 0] => ClaimsInv
<1> SUFFICES ASSUME TakeOverInit, moves = [r \in RunIds |-> 0]
             PROVE  ClaimsInv
  OBVIOUS
<1>1. FirstsInv
  BY FirstsInit
<1>2. Kept = {} /\ Reading = {}
  BY DEF TakeOverInit, Init, Kept, Reading
<1>3. QED
  BY <1>1, <1>2 DEF ClaimsInv, ClaimsRest, VerdictInv

(* Also a holder whose window a deposed run puts back, drops or replaces   *)
(* under it has, when it judges the window complete, every record that has *)
(* not changed since the window was opened, as long as none of the records *)
(* the first fetch lists and at most one of those any other window lists   *)
(* left its place since then.                                              *)
THEOREM HoldersProvenWindowsAreComplete ==
  TakeOverSpec /\ CountsMoves => [](FewMoves => ProvenIsComplete)
<1>1. ClaimsInv => (FewMoves => ProvenIsComplete)
  <2> SUFFICES ASSUME ClaimsInv, FewMoves, pc = "finish", req.complete,
                      NEW i \in Listed(window), centric[i].mod < ChangedSince(window)
               PROVE  Current(i)
    BY DEF ProvenIsComplete
  <2>1. window \in Reading
    BY WindowsAre DEF ClaimsInv, FirstsInv, QuietWindowsInv, TakeOverTypeOK
  <2>2. Mirrored(window, Listed(window))
    BY <2>1 DEF ClaimsInv, ClaimsRest, VerdictInv, Believed, Judged, FewMoves
  <2>3. QED
    BY <2>2 DEF Mirrored, Lasting, Settled
<1>2. QED
  BY <1>1, ClaimsInit, ClaimsNext, PTL DEF TakeOverSpec, CountsMoves

-----------------------------------------------------------------------------
(* Cursors.  A window does not read what changed before its floor, and its *)
(* floor is the cursor's of when it was opened, which may be another's.    *)

FloorSound(w) ==
  w.floor # None =>
    \A i \in Ids : centric[i] # None /\ centric[i].mod < w.floor => Settled(i)

CursorSettled ==
  cursor # None =>
    \A i \in Ids : centric[i] # None /\ centric[i].mod < cursor - Overlap => Settled(i)

CursorsInv == CursorSettled /\ \A w \in Kept : FloorSound(w)

(* A floor and a cursor that stand are as sound as they were.              *)
LEMMA SteadyFloor ==
  ASSUME Steady, NEW w, FloorSound(w)
  PROVE  FloorSound(w)'
BY DEF Steady, FloorSound

LEMMA SteadyCursor ==
  ASSUME Steady, cursor' = cursor, CursorSettled
  PROVE  CursorSettled'
BY DEF Steady, CursorSettled

LEMMA FloorsKept ==
  ASSUME FirstsInv, CursorsInv, [TakeOverNext]_<<vars, deposedVars>>, ~Centric
  PROVE  \A w \in Kept' : FloorSound(w)'
<1>1. TypeOK /\ QuietWindowsInv /\ Kept \subseteq Window /\ Steady
  BY KeptType, StepsAreSteady DEF FirstsInv, QuietWindowsInv, TakeOverTypeOK
<1>2. ASSUME NEW u \in Kept, NEW w, w.floor = u.floor
      PROVE  FloorSound(w)'
  <2>1. FloorSound(w)
    BY <1>2 DEF CursorsInv, FloorSound
  <2>2. QED
    BY <1>1, <2>1, SteadyFloor
<1>3. SUFFICES ASSUME NEW w \in Kept'
               PROVE  FloorSound(w)'
  OBVIOUS
<1>4. CASE w \in Kept
  BY <1>2, <1>4
<1>5. CASE \E u \in Kept : DOMAIN Page(u) = {} /\ w = Again(u)
  BY <1>1, <1>2, <1>5 DEF Again, Window
<1>6. CASE \E run \in RunIds, full, restart \in BOOLEAN : w = Opened(run, full, restart)
  <2>1. PICK run \in RunIds, full \in BOOLEAN, restart \in BOOLEAN : w = Opened(run, full, restart)
    BY <1>6
  <2>2. CASE Resumes(full, restart)
    <3>1. pending \in Kept /\ w = Resumed(pending)
      BY <2>1, <2>2 DEF Resumes, Opened, Kept
    <3>2. w.floor = pending.floor
      BY <1>1, <3>1 DEF Resumed, Window
    <3>3. QED
      BY <1>2, <3>1, <3>2
  <2>3. CASE ~Resumes(full, restart)
    <3>1. w.floor # None => cursor # None /\ w.floor = cursor - Overlap
      BY <2>1, <2>3 DEF Opened, NewWindow
    <3>2. FloorSound(w)
      BY <3>1 DEF FloorSound, CursorsInv, CursorSettled
    <3>3. QED
      BY <1>1, <3>2, SteadyFloor
  <2>4. QED
    BY <2>2, <2>3
<1>7. CASE ReadPage /\ w = window'
  <2>1. window \in Kept
    BY <1>1, <1>7 DEF ReadPage, Kept, TypeOK
  <2>2. w.floor = window.floor
    BY <1>1, <1>7, <2>1 DEF ReadPage, Window
  <2>3. QED
    BY <1>2, <2>1, <2>2
<1>8. QED
  BY <1>1, <1>3, <1>4, <1>5, <1>6, <1>7, KeptWindows

(* The cursor moves to the start of a window that has been read.           *)
LEMMA FinishCursor ==
  ASSUME ClaimsInv, CursorsInv, FewMoves, Finish, UNCHANGED deposedVars, ~Centric
  PROVE  CursorSettled'
<1>1. /\ TypeOK /\ VersionsInv /\ window \in Reading /\ window \in Kept /\ window \in Window
      /\ moves[window.run] \in Nat /\ VerdictInv
  BY WindowsAre, KeptType
     DEF ClaimsInv, ClaimsRest, FirstsInv, QuietWindowsInv, QuietRest, TakeOverTypeOK, Finish, Kept, Reading
<1>2. Steady
  BY StepsAreSteady DEF ClaimsInv, FirstsInv, TakeOverNext, Holder, Process
<1>3. centric' = centric /\ cursor' \in {window.start, cursor} /\ pc \in Judged
  BY DEF Finish, NextCursor, centricVars, Judged
<1>4. CASE cursor' = cursor
  BY <1>2, <1>4, SteadyCursor DEF CursorsInv
<1>5. CASE cursor' # cursor
  <2>1. req.complete \/ FirstFetch
    BY <1>5 DEF Finish, NextCursor
  <2>2. Few(window) /\ (FirstFetch => moves[window.run] = 0)
    BY <1>1 DEF FewMoves, Few
  <2>3. Mirrored(window, Listed(window))
    BY <1>1, <1>3, <2>1, <2>2 DEF VerdictInv, Believed
  <2>4. ASSUME NEW i \in Ids, centric[i] # None, centric[i].mod < window.start - Overlap
        PROVE  Settled(i)
    <3>1. CASE i \in Listed(window)
      BY <2>3, <2>4, <3>1 DEF Mirrored, Lasting, ChangedSince
    <3>2. CASE i \notin Listed(window)
      <4>1. window.floor # None /\ ~ (centric[i].mod >= window.floor)
        BY <2>4, <3>2 DEF Listed
      <4>2. centric[i].mod < window.floor
        BY <1>1, <2>4, <4>1, VersionTypes DEF Window
      <4>3. QED
        BY <1>1, <2>4, <4>1, <4>2 DEF CursorsInv, FloorSound
    <3>3. QED
      BY <3>1, <3>2
  <2>5. QED
    BY <1>2, <1>3, <1>5, <2>4 DEF CursorSettled, Steady
<1>6. QED
  BY <1>4, <1>5

(* What changes now changes after every floor and cursor.                  *)
LEMMA CentricCursors ==
  ASSUME FirstsInv, CursorsInv, [TakeOverNext]_<<vars, deposedVars>>, Centric
  PROVE  CursorsInv'
<1>1. PICK i \in Ids : Create(i) \/ Edit(i) \/ Delete(i)
  BY DEF Centric
<1>2. /\ TypeOK /\ ClockInv /\ Kept \subseteq Window /\ (\A w \in Kept : Timely(w))
      /\ srv \in Int /\ (cursor # None => cursor \in Int)
  BY KeptType DEF FirstsInv, FirstsRest, QuietWindowsInv, TakeOverTypeOK, TypeOK
<1>3. /\ UNCHANGED <<cursor, bronze, check, window, pending, dwindow>>
      /\ \A j \in Ids : j # i => centric'[j] = centric[j]
      /\ centric'[i] # None => centric'[i].mod = srv
  BY <1>1, <1>2, ChangedCentric, CentricAlone DEF deposedVars
<1>4. Kept' = Kept
  BY <1>3 DEF Kept
<1>5. \A j \in Ids : j # i => (Settled(j)' <=> Settled(j))
  BY <1>3 DEF Settled, Current, Active
<1>6. CursorSettled'
  <2>1. cursor # None => ~ (srv < cursor - Overlap)
    BY <1>2, ClockAssumption DEF ClockInv
  <2>2. QED
    BY <1>3, <1>5, <2>1 DEF CursorsInv, CursorSettled
<1>7. ASSUME NEW w \in Kept
      PROVE  FloorSound(w)'
  <2>1. w.floor # None => ~ (srv < w.floor)
    BY <1>2, <1>7 DEF Timely, Window
  <2>2. QED
    BY <1>3, <1>5, <1>7, <2>1 DEF CursorsInv, FloorSound
<1>8. QED
  BY <1>4, <1>6, <1>7 DEF CursorsInv

LEMMA CursorsNext ==
  ClaimsInv /\ CursorsInv /\ FewMoves /\ [TakeOverNext]_<<vars, deposedVars>> => CursorsInv'
<1> SUFFICES ASSUME ClaimsInv, CursorsInv, FewMoves, [TakeOverNext]_<<vars, deposedVars>>
             PROVE  CursorsInv'
  OBVIOUS
<1>1. FirstsInv /\ QuietWindowsInv
  BY DEF ClaimsInv, FirstsInv
<1>2. CASE Centric
  BY <1>1, <1>2, CentricCursors
<1>3. CASE ~Centric
  <2>1. CursorSettled'
    <3>1. CASE Finish /\ UNCHANGED deposedVars
      BY <1>3, <3>1, FinishCursor
    <3>2. CASE cursor' = cursor
      BY <1>1, <1>3, <3>2, StepsAreSteady, SteadyCursor DEF CursorsInv
    <3>3. cursor' = cursor \/ (Finish /\ UNCHANGED deposedVars)
      BY <1>3 DEF TakeOverNext, Deposed, Depose, Arrive, Answer, SaveWindow, DropWindow, Depart, Holder,
         HolderStart, Open, Process, Count, ReadPage, RepeatedPage, Reject, EndFirstPass,
         EndLaterPass, Judge, NextPass, SavePass, ConfirmUnseen, Lookup, Stop, Tick, StepBack,
         vars, centricVars, dbVars
    <3>4. QED
      BY <3>1, <3>2, <3>3
  <2>2. QED
    BY <1>1, <1>3, <2>1, FloorsKept DEF CursorsInv
<1>4. QED
  BY <1>2, <1>3

(* The cursor stays behind what is stored under a take-over too: a window  *)
(* that a deposed run saves under the holder has the floor of a cursor     *)
(* that was sound, and the holder moves the cursor to the start of the     *)
(* window it has read itself.                                              *)
THEOREM HoldersCursorsAreSound == TakeOverSpec /\ CountsMoves /\ []FewMoves => []CursorSound
<1>1. TakeOverInit => CursorsInv
  <2> SUFFICES ASSUME TakeOverInit
               PROVE  CursorsInv
    OBVIOUS
  <2>1. CursorSound /\ Kept = {} /\ check = NoCheck
    BY InitCursorSound DEF TakeOverInit, Init, Kept
  <2>2. QED
    BY <2>1 DEF CursorsInv, CursorSettled, CursorSound, Settled, NoCheck, EmptyPage
<1>2. CursorsInv => CursorSound
  BY DEF CursorsInv, CursorSettled, CursorSound, Settled
<1>3. QED
  BY <1>1, <1>2, ClaimsInit, ClaimsNext, CursorsNext, PTL DEF TakeOverSpec, CountsMoves
=============================================================================
