--------------------------- MODULE FetchLogProofs ---------------------------
(***************************************************************************)
(* The fetch of an endpoint implements the log its readers assume, for     *)
(* every set of records, versions and runs: a step of a fetch is a         *)
(* transaction of ChangeLog.tla or leaves the rows and their stamps alone. *)
(***************************************************************************)
EXTENDS FetchLog, FetchEndpointProofs

(* The log's operators on rows are bronze's.                               *)
LEMMA SameOperators ==
  /\ Log!EmptyPage = EmptyPage
  /\ \A b, page, run : Log!ApplyPage(b, page, run) = ApplyPage(b, page, run)
  /\ \A b, ids : Log!MarkDeleted(b, ids) = MarkDeleted(b, ids)
BY DEF Log!EmptyPage, EmptyPage, Log!ApplyPage, ApplyPage, Log!Upsert, Upsert,
       Log!Replaces, Replaces, Log!NewRow, NewRow,
       Log!MarkDeleted, MarkDeleted, Log!Active, Active

(* A page is one of the log's when its versions are.                       *)
LEMMA PagesAre ==
  ASSUME Versions = Version, NEW p, IsPage(p, Ids)
  PROVE  p \in Log!Pages
<1>1. DOMAIN p \in SUBSET Ids /\ p \in [DOMAIN p -> Versions]
  BY DEF IsPage
<1>2. QED
  BY <1>1 DEF Log!Pages

(* Nothing found and nothing missed: the row and the stamp stay.           *)
LEMMA NothingFound ==
  ASSUME NEW b \in [Ids -> Rows(RunIds)], NEW seqs \in [Ids -> Nat], NEW run, NEW seq
  PROVE  /\ ApplyPage(b, EmptyPage, run) = b
         /\ Log!Stamps(b, seqs, EmptyPage, seq) = seqs
         /\ MarkDeleted(b, {}) = b
         /\ Log!StampDeleted(b, seqs, {}, seq) = seqs
BY DEF ApplyPage, EmptyPage, Log!Stamps, MarkDeleted, Log!StampDeleted

(* The lookup has each stored record the pages did not return in one of    *)
(* three places: still to look up, found or missed.                        *)
PlacesInv ==
  /\ check.todo \cap (DOMAIN check.found \cup check.missing) = {}
  /\ check.missing \cap DOMAIN check.found = {}

(* The stamps of a fetch have their type.                                  *)
SeqTypeOK == seqOf \in [Ids -> Nat] /\ changeSeq \in Nat

LEMMA LoggedIsNext == [LoggedNext]_<<vars, seqVars>> => [Next]_vars
BY DEF LoggedNext, LoggedReadPage, LoggedFinish, Aside, Next, Process

LEMMA PlacesKept ==
  TypeOK /\ MissingIsGone /\ PlacesInv /\ [Next]_vars => PlacesInv'
<1> SUFFICES ASSUME TypeOK, MissingIsGone, PlacesInv, [Next]_vars PROVE PlacesInv'
  OBVIOUS
<1> USE DEF PlacesInv
<1>1. CASE check' = NoCheck
  BY <1>1 DEF NoCheck, EmptyPage
<1>2. CASE check' = check
  BY <1>2
<1>3. CASE ConfirmUnseen
  <2>1. check' = NoCheck \/ check' = [NoCheck EXCEPT !.todo = UnseenIds(bronze, window.run)]
    BY <1>3 DEF ConfirmUnseen, MissingIsGone
  <2>2. QED
    BY <2>1 DEF NoCheck, EmptyPage
<1>4. CASE Lookup
  <2>1. PICK batch \in SUBSET check.todo :
          check' = [todo    |-> check.todo \ batch,
                    found   |-> Merge([i \in {j \in batch : centric[j] # None} |-> centric[i]],
                                      check.found),
                    missing |-> check.missing \cup
                                  (batch \ {j \in batch : centric[j] # None})]
    BY <1>4 DEF Lookup
  <2>2. DOMAIN check'.found = {j \in batch : centric[j] # None} \cup DOMAIN check.found
    BY <2>1 DEF Merge
  <2>3. /\ check'.todo = check.todo \ batch
        /\ check'.missing = check.missing \cup (batch \ {j \in batch : centric[j] # None})
    BY <2>1
  <2>4. QED
    BY <2>2, <2>3
<1>5. QED
  BY <1>1, <1>2, <1>3, <1>4 DEF Next, Process, AnyStart, Start, Open, Count, ReadPage,
     RepeatedPage, Reject, EndFirstPass, EndLaterPass, Judge, NextPass, SavePass, Finish, Stop,
     Centric, Create, Edit, Delete, Tick, StepBack, vars, procVars

LEMMA StampsAreNumbers ==
  ASSUME NEW rows, NEW seqs \in [Ids -> Nat], NEW seq \in Nat, NEW p, NEW ids
  PROVE  /\ Log!Stamps(rows, seqs, p, seq) \in [Ids -> Nat]
         /\ Log!StampDeleted(rows, seqs, ids, seq) \in [Ids -> Nat]
BY DEF Log!Stamps, Log!StampDeleted

LEMMA SeqType == SeqTypeOK /\ [LoggedNext]_<<vars, seqVars>> => SeqTypeOK'
<1> SUFFICES ASSUME SeqTypeOK, [LoggedNext]_<<vars, seqVars>> PROVE SeqTypeOK'
  OBVIOUS
<1>1. \A some : NextSeq(changeSeq, some) \in Nat
              /\ \A more : NextSeq(NextSeq(changeSeq, some), more) \in Nat
  BY DEF SeqTypeOK, NextSeq
<1>2. CASE LoggedReadPage
  BY <1>1, <1>2, StampsAreNumbers DEF LoggedReadPage, SeqTypeOK
<1>3. CASE LoggedFinish
  <2> DEFINE first  == NextSeq(changeSeq, check.found # EmptyPage)
             stamps == Log!Stamps(bronze, seqOf, check.found, first)
  <2>1. stamps \in [Ids -> Nat]
    BY <1>1, StampsAreNumbers DEF SeqTypeOK
  <2>2. QED
    BY <1>1, <1>3, <2>1, StampsAreNumbers DEF LoggedFinish, SeqTypeOK
<1>4. CASE UNCHANGED seqVars
  BY <1>4 DEF seqVars, SeqTypeOK
<1>5. QED
  BY <1>2, <1>3, <1>4 DEF LoggedNext

-----------------------------------------------------------------------------
(* The steps of the fetch are steps of the log.                            *)

(* The log has one endpoint here, and a step of it writes its rows.        *)
LEMMA OneEndpoint ==
  ASSUME NEW old, NEW new
  PROVE  /\ [e \in {Endpoint} |-> old][Endpoint] = old
         /\ [[e \in {Endpoint} |-> old] EXCEPT ![Endpoint] = new] = [e \in {Endpoint} |-> new]
OBVIOUS

LEMMA PageIsStored ==
  ASSUME Versions = Version, MaxSeq \in Nat, TypeOK, SeqTypeOK, LoggedReadPage
  PROVE  Log!StorePage(Endpoint)
<1> DEFINE page == Page(window)
           logged == [e \in {Endpoint} |-> bronze]
           seqs == [e \in {Endpoint} |-> seqOf]
<1>1. page \in Log!Pages \ {Log!EmptyPage}
  <2>1. DOMAIN page # {}
    BY DEF LoggedReadPage, ReadPage
  <2>2. page # Log!EmptyPage
    BY <2>1 DEF Log!EmptyPage
  <2>3. QED
    BY <2>2, PageType, PagesAre
<1>2. window.run \in RunIds
  BY NoneAssumption DEF LoggedReadPage, ReadPage, TypeOK, Window
<1>3. changeSeq < MaxSeq /\ changeSeq' = changeSeq + 1
  BY DEF LoggedReadPage, NextSeq, SeqTypeOK
<1>4. bronze' = Log!ApplyPage(bronze, page, window.run)
  BY SameOperators DEF LoggedReadPage, ReadPage
<1>5. seqOf' = Log!Stamps(bronze, seqOf, page, changeSeq + 1)
  BY DEF LoggedReadPage, NextSeq
<1>6. [e \in {Endpoint} |-> bronze'] =
        [logged EXCEPT ![Endpoint] = Log!ApplyPage(logged[Endpoint], page, window.run)]
  BY <1>4
<1>7. [e \in {Endpoint} |-> seqOf'] =
        [seqs EXCEPT ![Endpoint] =
           Log!Stamps(logged[Endpoint], seqs[Endpoint], page, changeSeq + 1)]
  BY <1>5
<1> HIDE DEF page
<1>8. QED
  BY <1>1, <1>2, <1>3, <1>6, <1>7 DEF Log!StorePage

LEMMA LookupIsStored ==
  ASSUME NEW found \in Log!Pages, NEW run \in RunIds,
         NEW missing \in (SUBSET (Ids \ DOMAIN found)) \ {{}},
         NEW first, first = IF found = Log!EmptyPage THEN changeSeq ELSE changeSeq + 1,
         NEW kept, kept = Log!ApplyPage(bronze, found, run),
         first < MaxSeq, changeSeq' = first + 1,
         bronze' = Log!MarkDeleted(kept, missing),
         seqOf' = Log!StampDeleted(kept, Log!Stamps(bronze, seqOf, found, first),
                                   missing, first + 1)
  PROVE  Log!StoreLookup(Endpoint)
<1>1. SUFFICES
        LET number == IF found = Log!EmptyPage THEN changeSeq ELSE changeSeq + 1
            stored == Log!ApplyPage([e \in {Endpoint} |-> bronze][Endpoint], found, run)
        IN  /\ number < MaxSeq
            /\ changeSeq' = number + 1
            /\ [e \in {Endpoint} |-> bronze]' =
                 [[e \in {Endpoint} |-> bronze] EXCEPT
                    ![Endpoint] = Log!MarkDeleted(stored, missing)]
            /\ [e \in {Endpoint} |-> seqOf]' =
                 [[e \in {Endpoint} |-> seqOf] EXCEPT
                    ![Endpoint] =
                      Log!StampDeleted(stored,
                        Log!Stamps([e \in {Endpoint} |-> bronze][Endpoint], @, found, number),
                        missing, number + 1)]
  BY DEF Log!StoreLookup
<1>2. [e \in {Endpoint} |-> bronze][Endpoint] = bronze
  BY OneEndpoint
<1>3. QED
  BY <1>2

LEMMA FinishIsLogged ==
  ASSUME Versions = Version, MaxSeq \in Nat, TypeOK, PlacesInv, SeqTypeOK, LoggedFinish
  PROVE  Log!Write \/ UNCHANGED Log!logVars
<1> DEFINE found  == check.found
           run    == window.run
           first  == NextSeq(changeSeq, found # EmptyPage)
           last   == NextSeq(first, Deletions # {})
           stored == ApplyPage(bronze, found, run)
           stamps == Log!Stamps(bronze, seqOf, found, first)
           logged == [e \in {Endpoint} |-> bronze]
           seqs   == [e \in {Endpoint} |-> seqOf]
<1>1. /\ found \in Log!Pages /\ run \in RunIds
      /\ DOMAIN found \subseteq Ids
      /\ Deletions \subseteq Ids \ DOMAIN found
      /\ bronze \in [Ids -> Rows(RunIds)] /\ seqOf \in [Ids -> Nat]
  <2>1. IsPage(found, Ids)
    BY DEF TypeOK
  <2>2. run \in RunIds
    BY NoneAssumption DEF LoggedFinish, Finish, TypeOK, Window
  <2>3. Deletions \subseteq Ids \ DOMAIN found
    BY DEF Deletions, TypeOK, PlacesInv
  <2>4. QED
    BY <2>1, <2>2, <2>3, PagesAre DEF TypeOK, SeqTypeOK, IsPage
<1>2. stored \in [Ids -> Rows(RunIds)] /\ stamps \in [Ids -> Nat]
  <2>1. IsPage(found, Ids)
    BY DEF TypeOK
  <2>2. stored \in [Ids -> Rows(RunIds)]
    BY <1>1, <2>1, ApplyPageType
  <2>3. first \in Nat
    BY DEF SeqTypeOK, NextSeq
  <2>4. stamps \in [Ids -> Nat]
    BY <1>1, <2>3, StampsAreNumbers
  <2>5. QED
    BY <2>2, <2>4
<1>3. /\ bronze' = MarkDeleted(stored, Deletions)
      /\ seqOf' = Log!StampDeleted(stored, stamps, Deletions, last)
      /\ changeSeq' = last /\ last <= MaxSeq
  <2>1. bronze' = IF req.allow THEN MarkDeleted(stored, check.missing) ELSE stored
    BY DEF LoggedFinish, Finish
  <2>2. MarkDeleted(stored, {}) = stored
    BY <1>2, NothingFound DEF SeqTypeOK
  <2>3. QED
    BY <2>1, <2>2 DEF LoggedFinish, Deletions
<1> HIDE DEF found, run
<1>4. CASE Deletions # {}
  <2>1. first = (IF found = Log!EmptyPage THEN changeSeq ELSE changeSeq + 1) /\ last = first + 1
    BY <1>4, SameOperators DEF NextSeq
  <2>2. stored = Log!ApplyPage(bronze, found, run)
    BY SameOperators
  <2>3. first < MaxSeq /\ changeSeq' = first + 1
    BY <1>3, <2>1 DEF SeqTypeOK, NextSeq
  <2>4. bronze' = Log!MarkDeleted(stored, Deletions)
    BY <1>3, SameOperators
  <2>5. seqOf' = Log!StampDeleted(stored, Log!Stamps(bronze, seqOf, found, first),
                                  Deletions, first + 1)
    BY <1>3, <2>1
  <2>6. Deletions \in (SUBSET (Ids \ DOMAIN found)) \ {{}}
    BY <1>1, <1>4
  <2>7. Log!StoreLookup(Endpoint)
    BY <1>1, <2>1, <2>2, <2>3, <2>4, <2>5, <2>6, LookupIsStored
  <2>8. QED
    BY <2>7 DEF Log!Write
<1>5. CASE Deletions = {} /\ found # EmptyPage
  <2>1. first = changeSeq + 1 /\ last = changeSeq + 1
    BY <1>5 DEF NextSeq
  <2>2. bronze' = Log!ApplyPage(bronze, found, run)
    BY <1>2, <1>3, <1>5, NothingFound, SameOperators DEF SeqTypeOK
  <2>3. seqOf' = Log!Stamps(bronze, seqOf, found, changeSeq + 1)
    <3>1. Log!StampDeleted(stored, stamps, {}, last) = stamps
      BY <1>2, NothingFound
    <3>2. QED
      BY <1>3, <1>5, <2>1, <3>1
  <2>4. changeSeq < MaxSeq /\ changeSeq' = changeSeq + 1
    BY <1>3, <2>1 DEF SeqTypeOK
  <2>5. [e \in {Endpoint} |-> bronze'] =
          [logged EXCEPT ![Endpoint] = Log!ApplyPage(logged[Endpoint], found, run)]
    BY <2>2
  <2>6. [e \in {Endpoint} |-> seqOf'] =
          [seqs EXCEPT ![Endpoint] =
             Log!Stamps(logged[Endpoint], seqs[Endpoint], found, changeSeq + 1)]
    BY <2>3
  <2>7. Log!StorePage(Endpoint)
    BY <1>1, <1>5, <2>4, <2>5, <2>6, SameOperators DEF Log!StorePage
  <2>8. QED
    BY <2>7 DEF Log!Write
<1>6. CASE Deletions = {} /\ found = EmptyPage
  <2>1. first = changeSeq /\ last = changeSeq
    BY <1>6 DEF NextSeq
  <2>2. stored = bronze /\ stamps = seqOf
    BY <1>1, <1>6, NothingFound
  <2>3. MarkDeleted(stored, {}) = stored /\ Log!StampDeleted(stored, stamps, {}, last) = stamps
    BY <1>2, NothingFound
  <2>4. bronze' = bronze /\ seqOf' = seqOf /\ changeSeq' = changeSeq
    BY <1>3, <1>6, <2>1, <2>2, <2>3
  <2>5. QED
    BY <2>4 DEF Log!logVars
<1>7. QED
  BY <1>4, <1>5, <1>6

LEMMA AsideStoresNothing ==
  ASSUME Aside \/ UNCHANGED vars
  PROVE  bronze' = bronze
BY DEF Aside, AnyStart, Start, Open, Count, RepeatedPage, Reject, EndFirstPass, EndLaterPass,
       Judge, NextPass, SavePass, ConfirmUnseen, Lookup, Stop, Centric, Create, Edit, Delete,
       Tick, StepBack, vars, dbVars

LEMMA StepsWriteTheLog ==
  ASSUME Versions = Version, MaxSeq \in Nat
  PROVE  TypeOK /\ PlacesInv /\ SeqTypeOK /\ [LoggedNext]_<<vars, seqVars>>
           => [Log!Write]_(Log!logVars)
<1> SUFFICES ASSUME TypeOK, PlacesInv, SeqTypeOK, [LoggedNext]_<<vars, seqVars>>
             PROVE  Log!Write \/ UNCHANGED Log!logVars
  OBVIOUS
<1>1. CASE LoggedReadPage
  BY <1>1, PageIsStored DEF Log!Write
<1>2. CASE LoggedFinish
  BY <1>2, FinishIsLogged
<1>3. CASE (Aside \/ UNCHANGED vars) /\ UNCHANGED seqVars
  BY <1>3, AsideStoresNothing DEF seqVars, Log!logVars
<1>4. QED
  BY <1>1, <1>2, <1>3 DEF LoggedNext

(* Whatever Centric's records are, a fetch writes as the log says: page by *)
(* page, with every row that then shows something else, and no other,      *)
(* under a number above all others.                                        *)
THEOREM FetchesWriteTheLog ==
  ASSUME Versions = Version, MaxSeq \in Nat
  PROVE  LoggedSpec => WritesTheLog
<1>1. LoggedInit => /\ TypeOK /\ MissingIsGone /\ PlacesInv /\ SeqTypeOK
                    /\ Log!LogInit
  <2> SUFFICES ASSUME LoggedInit
               PROVE  TypeOK /\ MissingIsGone /\ PlacesInv /\ SeqTypeOK /\ Log!LogInit
    OBVIOUS
  <2>1. TypeOK
    BY InitType DEF LoggedInit
  <2>2. pc = "idle" /\ check = NoCheck
    BY DEF LoggedInit, Init
  <2>3. MissingIsGone /\ PlacesInv
    BY <2>2 DEF MissingIsGone, PlacesInv, NoCheck, EmptyPage
  <2>4. SeqTypeOK /\ Log!LogInit
    BY DEF LoggedInit, InitEmpty, SeqTypeOK, Log!LogInit
  <2>5. QED
    BY <2>1, <2>3, <2>4
<1>2. QED
  BY <1>1, LoggedIsNext, TypeInductive, MissingIsGoneInductive, PlacesKept, SeqType,
     StepsWriteTheLog, PTL DEF LoggedSpec, WritesTheLog
=============================================================================
