--------------------------- MODULE FetchEndpoint ---------------------------
(***************************************************************************)
(* The fetch of one endpoint (src/centric_api/fetch.py, _fetch_endpoint):  *)
(* a run opens or resumes a window, reads its pages while Centric changes  *)
(* under it, judges whether the window is complete, looks up the stored    *)
(* records a full window did not return, and moves the cursor.  Runs stop  *)
(* at any point (signal, crash, HTTP error) and later runs resume.         *)
(*                                                                         *)
(* One writer at a time: the lock is the subject of RunLock.tla.  An       *)
(* action is one HTTP request with what the code does with its answer up   *)
(* to the next request, or one transaction of its own.  An HTTP request    *)
(* and the transaction that stores its page are one action: nothing but    *)
(* Centric moves in between, and the transaction does not look at Centric. *)
(***************************************************************************)
EXTENDS Bronze

CONSTANTS
  Ids,            \* record ids of the endpoint, 1..N
  RunIds,         \* run ids (a uuid in the code): one no row and no window bears is new
  Limit,          \* records per page
  LookupBatch,    \* VERIFY_BATCH_SIZE
  MaxPasses,      \* MAX_DELTA_PASSES
  RunawayFactor,  \* the 3 and
  RunawayPages,   \* the 100 of the runaway limit
  Overlap,        \* overlap_minutes, in ticks
  Lag,            \* how far Centric's clock runs behind this host's, at most Overlap
  Starts,         \* "synced" from a fetched endpoint, "empty" from an empty database
  MaxTime, MaxRev, MaxStops, MaxStepBacks,  \* bounds of the runs
  MaxShifts, MaxFirstShifts                 \* the latter while the cursor is NULL

ASSUME IdsAssumption     == IsFiniteSet(Ids) /\ Ids = 1 .. Cardinality(Ids)
ASSUME RunIdsAssumption  == RunIds \subseteq Nat
ASSUME LimitAssumption   == Limit \in Nat \ {0} /\ LookupBatch \in Nat \ {0}
ASSUME PassesAssumption  == MaxPasses \in Nat /\ MaxPasses >= 2
ASSUME RunawayAssumption == RunawayFactor \in Nat /\ RunawayPages \in Nat
ASSUME ClockAssumption   == Overlap \in Nat /\ Lag \in 0..Overlap
ASSUME BoundsAssumption  ==
  {MaxTime, MaxRev, MaxStops, MaxStepBacks, MaxShifts, MaxFirstShifts} \subseteq Nat

Window == [run : RunIds, mode : {"full", "delta"}, start : Int,
           floor : Int \cup {None}, pass : Nat, skip : Nat, fetched : Nat]

ASSUME NoneAssumption == None \notin Int \cup RowOf(RunIds) \cup Version \cup Window

VARIABLES
  \* Centric
  centric,   \* the version of each record it lists, None where it has no such record
  rev,       \* number of the last change made to it
  srv,       \* its clock
  \* this host and its database
  now,       \* the clock
  bronze,    \* bronze_records
  cursor,    \* last_success_started_at
  pending,   \* the unfinished window: the pending_ columns of meta_endpoint_state
  \* the running process
  pc,
  window,    \* the _Window being read
  req,       \* what the run was asked and what it has come to
  pass,      \* the _PassResult so far, and the ids and page behind it
  check,     \* the lookup of the records a full window did not return
  \* history
  gone,      \* records Centric has been without at some time since the run began
  shifts,    \* records the window lists that were edited or deleted while it is open
  quiet,     \* the runs whose window was opened after the last change made to Centric
  stops, stepBacks

centricVars == <<centric, rev, srv>>
dbVars      == <<bronze, cursor, pending>>
procVars    == <<pc, window, req, pass, check>>
histVars    == <<gone, shifts, quiet, stops, stepBacks>>
vars == <<centricVars, now, dbVars, procVars, histVars>>

-----------------------------------------------------------------------------
(* Windows *)

(* Records at or after this time changed while the window was being read.  *)
ChangedSince(w) == w.start - Overlap

Listed(w) == {i \in Ids : /\ centric[i] # None
                          /\ w.floor = None \/ centric[i].mod >= w.floor}

(* Centric lists a window by _modified_at, the records changed at one time *)
(* in the order of their changes.                                          *)
Rank(i, S) == Cardinality({j \in S : centric[j].rev < centric[i].rev})

Page(w) ==
  LET listed == Listed(w)
      S == {i \in listed : Rank(i, listed) \in w.skip .. (w.skip + Limit - 1)}
  IN  [i \in S |-> centric[i]]

(* The same ids in the same order.                                         *)
SameIds(p, q) ==
  /\ DOMAIN p = DOMAIN q
  /\ \A i, j \in DOMAIN p : p[i].rev < p[j].rev <=> q[i].rev < q[j].rev

NoPass == [expected |-> 0, seen |-> {}, prev |-> EmptyPage,
           late |-> FALSE, dup |-> FALSE, conc |-> FALSE]
NoReq == [allow |-> FALSE, resumed |-> FALSE, any |-> FALSE, complete |-> FALSE]
NoCheck == [todo |-> {}, found |-> EmptyPage, missing |-> {}]

FirstFetch == cursor = None
Verify == window.mode = "delta" \/ FirstFetch

-----------------------------------------------------------------------------
(* Init.  An empty database, or one a quiet fetch filled at time Start0,   *)
(* as it is some time later: Centric's records carry any times in order up *)
(* to its clock, and the ones a later delta window covers may be new.      *)

Start0 == 2
Times0 == 0 .. (Start0 - Lag)

InitCentric(S, mods) ==
  /\ \A i \in S, j \in Ids \ S : i < j
  /\ \A i, j \in S : i < j => mods[i] <= mods[j]
  /\ \A i \in Ids \ S : mods[i] = 0
  /\ centric = [i \in Ids |-> IF i \in S THEN [mod |-> mods[i], rev |-> i] ELSE None]

InitEmpty ==
  /\ "empty" \in Starts
  /\ cursor = None
  /\ bronze = [i \in Ids |-> None]

InitSynced ==
  /\ "synced" \in Starts
  /\ cursor = Start0
  /\ \E i \in Ids : centric[i] # None
  /\ \E run \in RunIds, behind \in BOOLEAN :
    /\ \A r \in RunIds : run <= r
    /\ bronze = [i \in Ids |->
         IF centric[i] = None \/ (behind /\ centric[i].mod >= Start0 - Overlap)
         THEN None ELSE NewRow(centric[i], run)]

Init ==
  /\ now = Start0 /\ srv = Start0 - Lag
  /\ \E S \in SUBSET Ids, mods \in [Ids -> Times0] : InitCentric(S, mods)
  /\ rev = Cardinality(Ids)
  /\ InitEmpty \/ InitSynced
  /\ pending = None
  /\ pc = "idle" /\ window = None
  /\ req = NoReq /\ pass = NoPass /\ check = NoCheck
  /\ gone = {} /\ shifts = 0 /\ quiet = {} /\ stops = 0 /\ stepBacks = 0

-----------------------------------------------------------------------------
(* Centric and the clocks.  MaxRev bounds the changes, MaxShifts and       *)
(* MaxFirstShifts those of them that move the later records of an open     *)
(* window up by one.                                                       *)

Shift(i) ==
  LET moves == pending # None /\ i \in Listed(pending)
  IN  /\ moves => shifts < IF FirstFetch THEN MaxFirstShifts ELSE MaxShifts
      /\ shifts' = IF moves THEN shifts + 1 ELSE shifts

Create(i) ==
  /\ centric[i] = None
  /\ rev < MaxRev
  /\ rev' = rev + 1
  /\ centric' = [centric EXCEPT ![i] = [mod |-> srv, rev |-> rev + 1]]
  /\ quiet' = {}
  /\ UNCHANGED <<srv, now, dbVars, procVars, gone, shifts, stops, stepBacks>>

Edit(i) ==
  /\ centric[i] # None
  /\ rev < MaxRev
  /\ Shift(i)
  /\ rev' = rev + 1
  /\ centric' = [centric EXCEPT ![i] = [mod |-> srv, rev |-> rev + 1]]
  /\ quiet' = {}
  /\ UNCHANGED <<srv, now, dbVars, procVars, gone, stops, stepBacks>>

Delete(i) ==
  /\ centric[i] # None
  /\ rev < MaxRev
  /\ Shift(i)
  /\ rev' = rev + 1
  /\ centric' = [centric EXCEPT ![i] = None]
  /\ gone' = IF pc = "idle" THEN gone ELSE gone \cup {i}
  /\ quiet' = {}
  /\ UNCHANGED <<srv, now, dbVars, procVars, stops, stepBacks>>

Tick ==
  /\ now < MaxTime
  /\ now' = now + 1 /\ srv' = srv + 1
  /\ UNCHANGED <<centric, rev, dbVars, procVars, histVars>>

(* The system clock of this host is set back.                              *)
StepBack ==
  /\ stepBacks < MaxStepBacks
  /\ now > 0
  /\ now' = now - 1
  /\ stepBacks' = stepBacks + 1
  /\ UNCHANGED <<centricVars, dbVars, procVars, gone, shifts, quiet, stops>>

-----------------------------------------------------------------------------
(* Opening the window *)

Used == {bronze[i].seen : i \in {j \in Ids : bronze[j] # None}}
        \cup {pending.run : p \in {pending} \ {None}}

Unused == {r \in RunIds \ Used : \A q \in RunIds \ Used : r <= q}

NewWindow(run, full) ==
  LET delta == ~full /\ cursor # None /\ cursor <= now
  IN  [run |-> run, mode |-> IF delta THEN "delta" ELSE "full", start |-> now,
       floor |-> IF delta THEN cursor - Overlap ELSE None,
       pass |-> 1, skip |-> 0, fetched |-> 0]

(* A verification pass restarts from the top.                              *)
Resumed(w) == IF w.pass = 1 THEN w ELSE [w EXCEPT !.skip = 0, !.fetched = 0]

Resumes(full, restart) ==
  /\ pending # None /\ ~restart
  /\ pending.mode = "full" \/ ~full

Opened(run, full, restart) ==
  IF Resumes(full, restart) THEN Resumed(pending) ELSE NewWindow(run, full)

(* A run reads the endpoint's state, opens its window and saves it.        *)
Open(run, full, restart, allow) ==
  /\ pc = "idle"
  /\ allow => full
  /\ window' = Opened(run, full, restart)
  /\ pending' = window'
  /\ req' = [NoReq EXCEPT !.allow = allow, !.resumed = Resumes(full, restart)]
  /\ shifts' = IF Resumes(full, restart) THEN shifts ELSE 0
  /\ gone' = {i \in Ids : centric[i] = None}
  /\ pc' = "count"
  /\ UNCHANGED <<centricVars, now, bronze, cursor, pass, check, stops, stepBacks>>

Start(full, restart, allow) ==
  \E run \in Unused :
    /\ Open(run, full, restart, allow)
    /\ quiet' = IF Resumes(full, restart) THEN quiet ELSE {run}

Count ==
  /\ pc = "count"
  /\ pass' = [NoPass EXCEPT !.expected = Cardinality(Listed(window))]
  /\ pc' = IF window.pass = 1 THEN "read" ELSE "save"
  /\ UNCHANGED <<centricVars, now, dbVars, window, req, check, histVars>>

-----------------------------------------------------------------------------
(* Reading the window *)

RunawayLimit == RunawayFactor * pass.expected + RunawayPages * Limit

(* The page just read comes again: skip is not honoured.                   *)
Repeated == LET page == Page(window)
            IN  DOMAIN page # {} /\ SameIds(page, pass.prev)

(* A page is stored in one transaction with the position behind it.        *)
ReadPage ==
  LET page == Page(window)
      ids  == DOMAIN page
      next == [window EXCEPT !.skip    = @ + Cardinality(ids),
                             !.fetched = @ + Cardinality(ids)]
  IN  /\ pc = "read"
      /\ ids # {}
      /\ ~Repeated
      /\ bronze' = ApplyPage(bronze, page, window.run)
      /\ window' = next
      /\ pending' = next
      /\ pass' = [pass EXCEPT
           !.seen = @ \cup ids,
           !.prev = page,
           !.dup  = @ \/ ids \cap pass.seen # {},
           !.conc = @ \/ Concurrent(page, ChangedSince(window)) # {},
           !.late = @ \/ /\ window.pass > 1
                         /\ LateFinds(bronze, page, window.run, window.start) # {}]
      /\ req' = [req EXCEPT !.any = TRUE]
      /\ pc' = IF next.fetched > RunawayLimit THEN "reject" ELSE "read"
      /\ UNCHANGED <<centricVars, now, cursor, check, histVars>>

RepeatedPage ==
  /\ pc = "read"
  /\ Repeated
  /\ pc' = "reject"
  /\ UNCHANGED <<centricVars, now, dbVars, window, req, pass, check, histVars>>

(* An IntegrityError drops the window: the next run opens a new one.       *)
Reject ==
  /\ pc = "reject"
  /\ pending' = None
  /\ pc' = "idle"
  /\ window' = None /\ req' = NoReq /\ pass' = NoPass /\ check' = NoCheck
  /\ gone' = {} /\ shifts' = 0 /\ quiet' = quiet \ {window.run}
  /\ UNCHANGED <<centricVars, now, bronze, cursor, stops, stepBacks>>

AtEnd == pc = "read" /\ DOMAIN Page(window) = {}

(* Mutant of Judge: an unproven incremental window is left as it is.       *)
JudgeAndLeave(complete) ==
  /\ req' = [req EXCEPT !.complete = complete]
  /\ pc' = IF window.mode = "full" THEN "confirm"
           ELSE IF complete THEN "finish" ELSE "idle"
  /\ UNCHANGED <<centricVars, now, dbVars, window, pass, check, histVars>>

Judge(complete) ==
  /\ req' = [req EXCEPT !.complete = complete]
  /\ pc' = IF window.mode = "full" THEN "confirm" ELSE "finish"
  /\ UNCHANGED <<centricVars, now, dbVars, window, pass, check, histVars>>

NextPass ==
  /\ window' = [window EXCEPT !.pass = @ + 1, !.skip = 0, !.fetched = 0]
  /\ pc' = "save"
  /\ UNCHANGED <<centricVars, now, dbVars, req, pass, check, histVars>>

(* Every record of pass 1 was distinct and at least the count was fetched. *)
Distinct ==
  LET unique == Cardinality(SeenIds(bronze, window.run))
  IN  unique = window.fetched /\ unique >= pass.expected

(* Mutant of Changed: a resumed window is judged like any other.           *)
ChangedHere == pass.conc

Changed == pass.conc \/ req.resumed

(* Its mutant is Distinct: a window that saw changes is judged by its      *)
(* count alone.                                                            *)
ProvenAtOnce == Distinct /\ (~Changed \/ (window.mode = "full" /\ Verify))

EndFirstPass ==
  /\ AtEnd
  /\ window.pass = 1
  /\ IF ProvenAtOnce \/ ~Verify THEN Judge(ProvenAtOnce) ELSE NextPass

ProvenAgain == ~pass.late \/ (~pass.dup /\ Cardinality(pass.seen) >= pass.expected)

EndLaterPass ==
  /\ AtEnd
  /\ window.pass > 1
  /\ IF ProvenAgain \/ window.pass >= MaxPasses THEN Judge(ProvenAgain) ELSE NextPass

(* The position of a later pass is saved before its first page.            *)
SavePass ==
  /\ pc = "save"
  /\ pending' = window
  /\ pass' = [NoPass EXCEPT !.expected = pass.expected]
  /\ pc' = "read"
  /\ UNCHANGED <<centricVars, now, bronze, cursor, window, req, check, histVars>>

-----------------------------------------------------------------------------
(* Finishing the window *)

(* Mutants of ConfirmUnseen: records the pages did not return are gone;    *)
(* nothing is looked up after an unproven reading.                         *)
ConfirmNothing ==
  LET unseen == UnseenIds(bronze, window.run)
  IN  /\ pc = "confirm"
      /\ check' = IF req.any THEN [check EXCEPT !.missing = unseen] ELSE check
      /\ pc' = "finish"
      /\ UNCHANGED <<centricVars, now, dbVars, window, req, pass, histVars>>

ConfirmProven ==
  LET unseen == UnseenIds(bronze, window.run)
  IN  /\ pc = "confirm"
      /\ IF unseen # {} /\ req.any /\ req.complete
         THEN /\ check' = [check EXCEPT !.todo = unseen]
              /\ pc' = "lookup"
         ELSE /\ pc' = "finish"
              /\ UNCHANGED check
      /\ UNCHANGED <<centricVars, now, dbVars, window, req, pass, histVars>>

ConfirmUnseen ==
  LET unseen == UnseenIds(bronze, window.run)
  IN  /\ pc = "confirm"
      /\ IF unseen # {} /\ req.any
         THEN /\ check' = [check EXCEPT !.todo = unseen]
              /\ pc' = "lookup"
         ELSE /\ pc' = "finish"
              /\ UNCHANGED check
      /\ UNCHANGED <<centricVars, now, dbVars, window, req, pass, histVars>>

(* One request by id, filters left out.  The ids of a batch are any.       *)
Lookup ==
  /\ pc = "lookup"
  /\ \E batch \in SUBSET check.todo :
       LET found == {i \in batch : centric[i] # None}
       IN  /\ \/ Cardinality(batch) = LookupBatch
              \/ batch = check.todo /\ Cardinality(batch) < LookupBatch
           /\ check' = [todo    |-> check.todo \ batch,
                        found   |-> Merge([i \in found |-> centric[i]], check.found),
                        missing |-> check.missing \cup (batch \ found)]
           /\ pc' = IF batch = check.todo THEN "finish" ELSE "lookup"
  /\ UNCHANGED <<centricVars, now, dbVars, window, req, pass, histVars>>

(* Mutant of NextCursor: the time the window was finished.                 *)
FinishTime == IF req.complete \/ FirstFetch THEN now ELSE cursor

(* The first fetch has no cursor to fall back to: it always moves it.      *)
NextCursor == IF req.complete \/ FirstFetch THEN window.start ELSE cursor

(* One transaction: what the lookup found, what it missed, the cursor.     *)
Finish ==
  LET stored == ApplyPage(bronze, check.found, window.run)
  IN  /\ pc = "finish"
      /\ bronze' = IF req.allow THEN MarkDeleted(stored, check.missing) ELSE stored
      /\ cursor' = NextCursor
      /\ pending' = None
      /\ pc' = "idle"
      /\ window' = None /\ req' = NoReq /\ pass' = NoPass /\ check' = NoCheck
      /\ gone' = {} /\ shifts' = 0 /\ quiet' = quiet \ {window.run}
      /\ UNCHANGED <<centricVars, now, stops, stepBacks>>

(* A signal, a crash, a failed login or a failed request: the transaction  *)
(* under way is rolled back and the pending window stays.                  *)
Stop ==
  /\ pc # "idle"
  /\ stops < MaxStops
  /\ stops' = stops + 1
  /\ pc' = "idle"
  /\ window' = None /\ req' = NoReq /\ pass' = NoPass /\ check' = NoCheck
  /\ gone' = {}
  /\ UNCHANGED <<centricVars, now, dbVars, shifts, quiet, stepBacks>>

-----------------------------------------------------------------------------
AnyStart == \E full, restart, allow \in BOOLEAN : Start(full, restart, allow)

Process == \/ Count \/ ReadPage \/ RepeatedPage \/ Reject
           \/ EndFirstPass \/ EndLaterPass \/ SavePass
           \/ ConfirmUnseen \/ Lookup \/ Finish

Centric == \E i \in Ids : Create(i) \/ Edit(i) \/ Delete(i)

Next == AnyStart \/ Process \/ Stop \/ Centric \/ Tick \/ StepBack

Spec == Init /\ [][Next]_vars

(* A scheduled command runs again and again and a run that is not stopped  *)
(* goes on.                                                                *)
FairSpec == Spec /\ WF_vars(AnyStart) /\ WF_vars(Process)

-----------------------------------------------------------------------------
(* Properties *)

TypeOK ==
  /\ centric \in [Ids -> Version \cup {None}]
  /\ rev \in Nat /\ srv \in Int /\ now \in Int
  /\ bronze \in [Ids -> Rows(RunIds)]
  /\ cursor \in Int \cup {None}
  /\ pending \in Window \cup {None}
  /\ pc \in {"idle", "count", "read", "reject", "save", "confirm", "lookup", "finish"}
  /\ window \in Window \cup {None}
  /\ window = None <=> pc = "idle"
  /\ req \in [allow : BOOLEAN, resumed : BOOLEAN, any : BOOLEAN, complete : BOOLEAN]
  /\ DOMAIN pass = DOMAIN NoPass
  /\ pass.expected \in Nat /\ pass.seen \subseteq Ids /\ IsPage(pass.prev, Ids)
  /\ {pass.late, pass.dup, pass.conc} \subseteq BOOLEAN
  /\ DOMAIN check = DOMAIN NoCheck
  /\ check.todo \subseteq Ids /\ check.missing \subseteq Ids /\ IsPage(check.found, Ids)
  /\ gone \subseteq Ids
  /\ quiet \subseteq RunIds
  /\ {shifts, stops, stepBacks} \subseteq Nat

Current(i) == /\ Active(bronze[i])
              /\ bronze[i].mod = centric[i].mod /\ bronze[i].rev = centric[i].rev

(* What the next incremental window will not read again, bronze already    *)
(* has: every record Centric last changed before the cursor less the       *)
(* overlap is stored as Centric has it.  It is what moving the cursor only *)
(* after a window proven complete is for (_read_window, _fetch_endpoint).  *)
CursorSound ==
  cursor # None =>
    \A i \in Ids : centric[i] # None /\ centric[i].mod < cursor - Overlap => Current(i)

(* A row is only flagged deleted in a run asked to, for a record Centric   *)
(* has been without at some time since that run began: never for one the   *)
(* pages merely skipped (_confirm_unseen, mark_deleted).                   *)
Flagged(i) == Active(bronze[i]) /\ ~Active(bronze'[i])
DeletesConfirmed == [][\A i \in Ids : Flagged(i) => req.allow /\ i \in gone]_vars

(* A window during which Centric did not change mirrors it when it is      *)
(* finished, however often the reading was stopped and resumed: the        *)
(* records it covers are stored as they are, a full run asked to flag      *)
(* deletions leaves no row active that Centric has not, and an incremental *)
(* window moves the cursor.                                                *)
Mirrors ==
  /\ \A i \in Listed(window) : Current(i)'
  /\ (window.mode = "full" /\ req.allow /\ req.any) =>
        \A i \in Ids : centric[i] = None => ~Active(bronze'[i])
  /\ window.mode = "delta" => cursor' = window.start
QuietWindowMirrors ==
  [][Finish /\ window.run \in quiet => Mirrors]_vars

(* Once Centric stops changing, scheduled runs store everything it has.    *)
AllCurrent == \A i \in Ids : centric[i] # None => Current(i)
EventuallyMirrored == <>[]AllCurrent

(* "A pass proves the window complete when it finds no record the earlier  *)
(* passes missed" (README.md): once a window is judged complete, bronze    *)
(* has every record of it that has not changed since it was opened.        *)
ProvenIsComplete ==
  pc = "finish" /\ req.complete =>
    \A i \in Listed(window) : centric[i].mod < ChangedSince(window) => Current(i)
=============================================================================
