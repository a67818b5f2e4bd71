--------------------------- MODULE ChangeLogProofs ---------------------------
(***************************************************************************)
(* What a transaction may do to the rows of bronze and to their stamps,    *)
(* for any endpoints, records, versions and pages.  The readers of the     *)
(* log, the consumers and silver, are proved about from these lemmas.      *)
(***************************************************************************)
EXTENDS ChangeLog, TLAPS

(* No row bears a number that was not given out.                           *)
LogInv == LogTypeOK /\ \A e \in Endpoints, i \in Ids : seqOf[e][i] <= changeSeq

(* What one transaction may do to a row: leave what it shows and its       *)
(* stamp, or change what it shows and stamp it with a new number.          *)
Stays(e, i) == /\ Shown(bronze'[e][i]) = Shown(bronze[e][i])
               /\ seqOf'[e][i] = seqOf[e][i]
Moves(e, i) == /\ Shown(bronze'[e][i]) # Shown(bronze[e][i])
               /\ seqOf'[e][i] > changeSeq /\ seqOf'[e][i] <= changeSeq'

(* A row's payload comes from a page.                                      *)
Revs == {v.rev : v \in Versions}
Bears(row, old) == row # None => row.rev \in Revs \/ (old # None /\ row.rev = old.rev)

(* No row goes away or is replaced by an older version.                    *)
Keeps(e, i) == bronze[e][i] # None =>
                 bronze'[e][i] # None /\ bronze'[e][i].mod >= bronze[e][i].mod

LEMMA PagesHoldVersions ==
  ASSUME NEW page \in Pages
  PROVE  DOMAIN page \subseteq Ids /\ \A i \in DOMAIN page : page[i] \in Version
BY VersionsAssumption DEF Pages

LEMMA NoRowIsNone == \A row \in RowOf(RunIds) : row # None
BY NoneAssumption

LEMMA ShowsSomething ==
  ASSUME NEW row \in RowOf(RunIds)
  PROVE  Shown(row) # None
<1>1. [mod |-> row.mod, rev |-> row.rev, deleted |-> row.deleted]
         \in Exhibit
  BY DEF RowOf, Exhibit
<1>2. QED
  BY <1>1, NoRowIsNone, NoneAssumption DEF Shown

(* A record of a page never takes a row back, and changes what the row     *)
(* shows exactly when the code stamps it.                                  *)
LEMMA UpsertRow ==
  ASSUME NEW row \in Rows(RunIds), NEW v \in Version, NEW run \in RunIds
  PROVE  /\ Upsert(row, v, run) \in RowOf(RunIds)
         /\ Upsert(row, v, run) # None
         /\ row # None => Upsert(row, v, run).mod >= row.mod
         /\ Changes(row, v) <=> Shown(Upsert(row, v, run)) # Shown(row)
<1>1. v.mod \in Int /\ v.rev \in Nat
  BY DEF Version
<1>n. NewRow(v, run) \in RowOf(RunIds) /\ NewRow(v, run) # None
  <2>1. NewRow(v, run) \in RowOf(RunIds)
    BY <1>1 DEF NewRow, RowOf
  <2>2. QED
    BY <2>1, NoRowIsNone
<1>2. CASE row = None
  <2>1. Upsert(row, v, run) = NewRow(v, run) /\ Changes(row, v)
    BY <1>2 DEF Upsert, Changes
  <2>2. Shown(NewRow(v, run)) # None
    BY <1>n, ShowsSomething
  <2>3. QED
    BY <1>2, <1>n, <2>1, <2>2 DEF Shown
<1>3. CASE row # None /\ Replaces(v, row)
  <2>1. Upsert(row, v, run) = NewRow(v, run) /\ Changes(row, v)
    BY <1>3 DEF Upsert, Changes
  <2>2. Shown(NewRow(v, run)) # Shown(row)
    BY <1>3, <1>n DEF Shown, NewRow, Replaces
  <2>3. QED
    BY <1>3, <1>n, <2>1, <2>2 DEF NewRow, Replaces
<1>4. CASE row # None /\ ~Replaces(v, row)
  <2>1. row \in RowOf(RunIds)
    BY <1>4 DEF Rows
  <2> DEFINE new == [row EXCEPT !.deleted = FALSE, !.seen = run]
  <2>2. Upsert(row, v, run) = new /\ (Changes(row, v) <=> row.deleted)
    BY <1>4 DEF Upsert, Changes
  <2>3. new \in RowOf(RunIds) /\ new # None
    BY <2>1, NoRowIsNone DEF RowOf
  <2>4. /\ new.mod = row.mod /\ new.rev = row.rev /\ new.deleted = FALSE
        /\ row.deleted \in BOOLEAN /\ row.mod \in Int
    BY <2>1 DEF RowOf
  <2>5. /\ Shown(new) = [mod |-> row.mod, rev |-> row.rev, deleted |-> FALSE]
        /\ Shown(row) = [mod |-> row.mod, rev |-> row.rev, deleted |-> row.deleted]
    BY <1>4, <2>3, <2>4 DEF Shown
  <2>7. row.deleted <=> Shown(new) # Shown(row)
    <3>1. CASE row.deleted = TRUE
      <4>1. Shown(new).deleted = FALSE /\ Shown(row).deleted = TRUE
        BY <2>5, <3>1
      <4>2. QED
        BY <3>1, <4>1
    <3>2. CASE row.deleted = FALSE
      BY <2>5, <3>2
    <3>3. QED
      BY <2>4, <3>1, <3>2
  <2>6. QED
    BY <1>4, <2>2, <2>3, <2>4, <2>7
<1>5. QED
  BY <1>2, <1>3, <1>4

(* A deletion of an active row changes what it shows and nothing else.     *)
LEMMA DeletedRow ==
  ASSUME NEW row \in Rows(RunIds), Active(row)
  PROVE  /\ [row EXCEPT !.deleted = TRUE] \in RowOf(RunIds)
         /\ [row EXCEPT !.deleted = TRUE] # None
         /\ [row EXCEPT !.deleted = TRUE].mod = row.mod
         /\ row.mod \in Int
         /\ Shown([row EXCEPT !.deleted = TRUE]) # Shown(row)
<1>1. row \in RowOf(RunIds) /\ ~row.deleted
  BY DEF Rows, Active
<1>2. [row EXCEPT !.deleted = TRUE] \in RowOf(RunIds)
  BY <1>1 DEF RowOf
<1>3. QED
  BY <1>1, <1>2, NoneAssumption DEF RowOf, Shown

LEMMA PageIsLogged ==
  ASSUME LogInv, NEW e \in Endpoints, StorePage(e)
  PROVE  LogInv' /\ \A f \in Endpoints, i \in Ids : (Stays(f, i) \/ Moves(f, i)) /\ Keeps(f, i)
<1>1. PICK page \in Pages, run \in RunIds :
        /\ changeSeq' = changeSeq + 1
        /\ bronze' = [bronze EXCEPT ![e] = ApplyPage(@, page, run)]
        /\ seqOf' = [seqOf EXCEPT ![e] = Stamps(bronze[e], @, page, changeSeq + 1)]
  BY DEF StorePage
<1>2. DOMAIN page \subseteq Ids /\ \A i \in DOMAIN page : page[i] \in Version
  BY PagesHoldVersions
<1>3. /\ changeSeq \in Nat /\ bronze[e] \in [Ids -> Rows(RunIds)] /\ seqOf[e] \in [Ids -> Nat]
      /\ \A f \in Endpoints, i \in Ids :
           bronze[f][i] \in Rows(RunIds) /\ seqOf[f][i] \in Nat /\ seqOf[f][i] <= changeSeq
      /\ bronze \in [Endpoints -> [Ids -> Rows(RunIds)]] /\ seqOf \in [Endpoints -> [Ids -> Nat]]
  BY DEF LogInv, LogTypeOK
<1>4. \A i \in Ids :
        /\ i \in DOMAIN page =>
             /\ bronze'[e][i] = Upsert(bronze[e][i], page[i], run)
             /\ seqOf'[e][i] = IF Changes(bronze[e][i], page[i]) THEN changeSeq + 1 ELSE seqOf[e][i]
        /\ i \notin DOMAIN page => bronze'[e][i] = bronze[e][i] /\ seqOf'[e][i] = seqOf[e][i]
  BY <1>1, <1>3 DEF ApplyPage, Stamps
<1>5. \A f \in Endpoints \ {e}, i \in Ids :
        bronze'[f][i] = bronze[f][i] /\ seqOf'[f][i] = seqOf[f][i]
  BY <1>1, <1>3
<1>6. ASSUME NEW f \in Endpoints, NEW i \in Ids
      PROVE  /\ bronze'[f][i] \in Rows(RunIds) /\ seqOf'[f][i] \in Nat
             /\ seqOf'[f][i] <= changeSeq'
             /\ Stays(f, i) \/ Moves(f, i)
             /\ Keeps(f, i)
  <2>1. CASE f = e /\ i \in DOMAIN page
    <3>1. page[i] \in Version /\ bronze[e][i] \in Rows(RunIds)
      BY <1>2, <1>3, <2>1
    <3>2. /\ bronze'[e][i] \in RowOf(RunIds) /\ bronze'[e][i] # None
          /\ bronze[e][i] # None => bronze'[e][i].mod >= bronze[e][i].mod
          /\ Changes(bronze[e][i], page[i]) <=> Shown(bronze'[e][i]) # Shown(bronze[e][i])
      BY <1>4, <2>1, <3>1, UpsertRow
    <3>3. /\ seqOf'[e][i] = IF Shown(bronze'[e][i]) # Shown(bronze[e][i])
                            THEN changeSeq + 1 ELSE seqOf[e][i]
          /\ changeSeq' = changeSeq + 1
      BY <1>1, <1>4, <2>1, <3>2
    <3>4. Stays(e, i) \/ Moves(e, i)
      BY <1>3, <3>3 DEF Stays, Moves
    <3>5. QED
      BY <1>3, <2>1, <3>2, <3>3, <3>4 DEF Keeps, Rows
  <2>2. CASE ~(f = e /\ i \in DOMAIN page)
    <3>1. bronze'[f][i] = bronze[f][i] /\ seqOf'[f][i] = seqOf[f][i]
      BY <1>4, <1>5, <2>2
    <3>2. bronze[f][i] # None => bronze[f][i].mod \in Int
      BY <1>3 DEF Rows, RowOf
    <3>3. QED
      BY <1>1, <1>3, <3>1, <3>2 DEF Stays, Keeps
  <2>3. QED
    BY <2>1, <2>2
<1>7. bronze'[e] = ApplyPage(bronze[e], page, run) /\ DOMAIN bronze'[e] = Ids
  BY <1>1, <1>3 DEF ApplyPage
<1>8. seqOf'[e] = Stamps(bronze[e], seqOf[e], page, changeSeq + 1) /\ DOMAIN seqOf'[e] = Ids
  BY <1>1, <1>3 DEF Stamps
<1>9. bronze'[e] \in [Ids -> Rows(RunIds)]
  BY <1>6, <1>7 DEF ApplyPage
<1>10. seqOf'[e] \in [Ids -> Nat]
  BY <1>6, <1>8 DEF Stamps
<1>11. LogTypeOK'
  BY <1>1, <1>3, <1>7, <1>8, <1>9, <1>10 DEF LogTypeOK
<1>12. QED
  BY <1>6, <1>11 DEF LogInv

(* In the end of a full window no record is both found and missing.        *)
LEMMA LookupIsLogged ==
  ASSUME LogInv, NEW e \in Endpoints, StoreLookup(e)
  PROVE  LogInv' /\ \A f \in Endpoints, i \in Ids : (Stays(f, i) \/ Moves(f, i)) /\ Keeps(f, i)
<1> DEFINE Effect(found, run, missing) ==
             LET first  == IF found = EmptyPage THEN changeSeq ELSE changeSeq + 1
                 laid == ApplyPage(bronze[e], found, run)
             IN  /\ changeSeq' = first + 1
                 /\ bronze' = [bronze EXCEPT ![e] = MarkDeleted(laid, missing)]
                 /\ seqOf' = [seqOf EXCEPT ![e] =
                      StampDeleted(laid, Stamps(bronze[e], @, found, first), missing, first + 1)]
<1>0. PICK found \in Pages, run \in RunIds :
        \E missing \in (SUBSET (Ids \ DOMAIN found)) \ {{}} : Effect(found, run, missing)
  BY DEF StoreLookup
<1>1. PICK missing \in (SUBSET (Ids \ DOMAIN found)) \ {{}} : Effect(found, run, missing)
  BY <1>0
<1> DEFINE first  == IF found = EmptyPage THEN changeSeq ELSE changeSeq + 1
           laid == ApplyPage(bronze[e], found, run)
           stamps == Stamps(bronze[e], seqOf[e], found, first)
<1>2. /\ DOMAIN found \subseteq Ids /\ \A i \in DOMAIN found : found[i] \in Version
      /\ missing \subseteq Ids /\ \A i \in missing : i \notin DOMAIN found
  BY PagesHoldVersions
<1>3. /\ changeSeq \in Nat /\ bronze[e] \in [Ids -> Rows(RunIds)] /\ seqOf[e] \in [Ids -> Nat]
      /\ \A f \in Endpoints, i \in Ids :
           bronze[f][i] \in Rows(RunIds) /\ seqOf[f][i] \in Nat /\ seqOf[f][i] <= changeSeq
      /\ bronze \in [Endpoints -> [Ids -> Rows(RunIds)]] /\ seqOf \in [Endpoints -> [Ids -> Nat]]
  BY DEF LogInv, LogTypeOK
<1>4. first \in Nat /\ first >= changeSeq /\ \A i \in DOMAIN found : first > changeSeq
  BY <1>3 DEF EmptyPage
<1>5. /\ bronze'[e] = MarkDeleted(laid, missing)
      /\ seqOf'[e] = StampDeleted(laid, stamps, missing, first + 1)
      /\ DOMAIN bronze'[e] = Ids /\ DOMAIN seqOf'[e] = Ids
  BY <1>1, <1>3 DEF ApplyPage, MarkDeleted, Stamps, StampDeleted
<1>6. changeSeq' = first + 1
  BY <1>1
<1>7. \A f \in Endpoints \ {e}, i \in Ids :
        bronze'[f][i] = bronze[f][i] /\ seqOf'[f][i] = seqOf[f][i]
  BY <1>1, <1>3
<1>8. \A i \in Ids :
        /\ i \in DOMAIN found =>
             /\ laid[i] = Upsert(bronze[e][i], found[i], run)
             /\ stamps[i] = IF Changes(bronze[e][i], found[i]) THEN first ELSE seqOf[e][i]
        /\ i \notin DOMAIN found => laid[i] = bronze[e][i] /\ stamps[i] = seqOf[e][i]
  BY <1>3 DEF ApplyPage, Stamps
<1>9. \A i \in Ids :
        IF i \in missing /\ Active(laid[i])
        THEN bronze'[e][i] = [laid[i] EXCEPT !.deleted = TRUE] /\ seqOf'[e][i] = first + 1
        ELSE bronze'[e][i] = laid[i] /\ seqOf'[e][i] = stamps[i]
  BY <1>3, <1>5 DEF ApplyPage, MarkDeleted, Stamps, StampDeleted
<1> HIDE DEF first, laid, stamps
<1>10. ASSUME NEW f \in Endpoints, NEW i \in Ids
       PROVE  /\ bronze'[f][i] \in Rows(RunIds) /\ seqOf'[f][i] \in Nat
              /\ seqOf'[f][i] <= changeSeq'
              /\ Stays(f, i) \/ Moves(f, i)
              /\ Keeps(f, i)
  <2>1. CASE f = e /\ i \in DOMAIN found
    <3>1. found[i] \in Version /\ bronze[e][i] \in Rows(RunIds) /\ i \notin missing
      BY <1>2, <1>3, <2>1
    <3>2. bronze'[e][i] = Upsert(bronze[e][i], found[i], run) /\ seqOf'[e][i] = stamps[i]
      BY <1>8, <1>9, <2>1, <3>1
    <3>3. /\ bronze'[e][i] \in RowOf(RunIds) /\ bronze'[e][i] # None
          /\ bronze[e][i] # None => bronze'[e][i].mod >= bronze[e][i].mod
          /\ Changes(bronze[e][i], found[i]) <=> Shown(bronze'[e][i]) # Shown(bronze[e][i])
      BY <3>1, <3>2, UpsertRow
    <3>4. seqOf'[e][i] = IF Shown(bronze'[e][i]) # Shown(bronze[e][i]) THEN first ELSE seqOf[e][i]
      BY <1>8, <2>1, <3>2, <3>3
    <3>5. first > changeSeq
      BY <1>4, <2>1
    <3>6. Stays(e, i) \/ Moves(e, i)
      BY <1>3, <1>4, <1>6, <3>4, <3>5 DEF Stays, Moves
    <3>7. QED
      BY <1>3, <1>4, <1>6, <2>1, <3>3, <3>4, <3>6 DEF Keeps, Rows
  <2>2. CASE f = e /\ i \notin DOMAIN found /\ i \in missing /\ Active(bronze[e][i])
    <3>1. /\ bronze'[e][i] = [bronze[e][i] EXCEPT !.deleted = TRUE]
          /\ seqOf'[e][i] = first + 1
      BY <1>8, <1>9, <2>2
    <3>2. /\ bronze'[e][i] \in RowOf(RunIds) /\ bronze'[e][i] # None
          /\ bronze'[e][i].mod = bronze[e][i].mod /\ bronze[e][i].mod \in Int
          /\ Shown(bronze'[e][i]) # Shown(bronze[e][i])
      BY <1>3, <2>2, <3>1, DeletedRow
    <3>3. Moves(e, i)
      BY <1>3, <1>4, <1>6, <3>1, <3>2 DEF Moves
    <3>4. QED
      BY <1>4, <1>6, <2>2, <3>1, <3>2, <3>3 DEF Keeps, Rows
  <2>3. CASE f # e \/ (i \notin DOMAIN found /\ ~(i \in missing /\ Active(bronze[e][i])))
    <3>1. bronze'[f][i] = bronze[f][i] /\ seqOf'[f][i] = seqOf[f][i]
      <4>1. CASE f # e
        BY <1>7, <4>1
      <4>2. CASE f = e
        BY <1>8, <1>9, <2>3, <4>2
      <4>3. QED
        BY <4>1, <4>2
    <3>2. bronze[f][i] # None => bronze[f][i].mod \in Int
      BY <1>3 DEF Rows, RowOf
    <3>3. QED
      BY <1>3, <1>4, <1>6, <3>1, <3>2 DEF Stays, Keeps
  <2>4. QED
    BY <2>1, <2>2, <2>3
<1>11. bronze'[e] \in [Ids -> Rows(RunIds)]
  BY <1>5, <1>10 DEF MarkDeleted, laid, ApplyPage
<1>12. seqOf'[e] \in [Ids -> Nat]
  BY <1>5, <1>10 DEF StampDeleted, stamps, Stamps
<1>13. LogTypeOK'
  BY <1>1, <1>3, <1>4, <1>6, <1>11, <1>12 DEF LogTypeOK
<1>14. QED
  BY <1>10, <1>13 DEF LogInv

LEMMA WriteIsLogged ==
  ASSUME LogInv, Write
  PROVE  LogInv' /\ \A f \in Endpoints, i \in Ids : (Stays(f, i) \/ Moves(f, i)) /\ Keeps(f, i)
BY PageIsLogged, LookupIsLogged DEF Write

LEMMA PresentType ==
  ASSUME NEW r \in Rows(RunIds)
  PROVE  Present(r) \in Version \cup {None}
BY DEF Present, Active, Rows, RowOf, Version

(* A row that shows the same is present alike.                             *)
LEMMA ShownDecidesPresent ==
  ASSUME NEW r \in Rows(RunIds), NEW q \in Rows(RunIds), Shown(r) = Shown(q)
  PROVE  Present(r) = Present(q)
<1>1. CASE r = None \/ q = None
  <2>1. r = None /\ q = None
    BY <1>1, ShowsSomething DEF Shown, Rows
  <2>2. QED
    BY <2>1
<1>2. CASE r # None /\ q # None
  <2>1. r \in RowOf(RunIds) /\ q \in RowOf(RunIds)
    BY <1>2 DEF Rows
  <2>2. Shown(r).mod = Shown(q).mod /\ Shown(r).rev = Shown(q).rev
        /\ Shown(r).deleted = Shown(q).deleted
    OBVIOUS
  <2>3. r.mod = q.mod /\ r.rev = q.rev /\ r.deleted = q.deleted
    BY <1>2, <2>2 DEF Shown
  <2>4. QED
    BY <1>2, <2>3 DEF Present, Active
<1>3. QED
  BY <1>1, <1>2

LEMMA UpsertBears ==
  ASSUME NEW row \in Rows(RunIds), NEW v \in Versions, NEW run \in RunIds
  PROVE  Bears(Upsert(row, v, run), row)
<1>1. v.rev \in Revs /\ NewRow(v, run).rev = v.rev
  BY DEF Revs, NewRow
<1>2. CASE row = None \/ Replaces(v, row)
  <2>1. Upsert(row, v, run) = NewRow(v, run)
    BY <1>2 DEF Upsert
  <2>2. QED
    BY <1>1, <2>1 DEF Bears
<1>3. CASE row # None /\ ~Replaces(v, row)
  <2>1. Upsert(row, v, run).rev = row.rev
    BY <1>3 DEF Upsert, Rows, RowOf
  <2>2. QED
    BY <1>3, <2>1 DEF Bears
<1>4. QED
  BY <1>2, <1>3

LEMMA PageBears ==
  ASSUME NEW rows \in [Ids -> Rows(RunIds)], NEW page \in Pages, NEW run \in RunIds,
         NEW i \in Ids
  PROVE  Bears(ApplyPage(rows, page, run)[i], rows[i])
<1>1. CASE i \in DOMAIN page
  <2>1. page[i] \in Versions
    BY <1>1 DEF Pages
  <2>2. ApplyPage(rows, page, run)[i] = Upsert(rows[i], page[i], run)
    BY <1>1 DEF ApplyPage
  <2>3. QED
    BY <2>1, <2>2, UpsertBears
<1>2. CASE i \notin DOMAIN page
  <2>1. ApplyPage(rows, page, run)[i] = rows[i]
    BY <1>2 DEF ApplyPage
  <2>2. QED
    BY <2>1 DEF Bears
<1>3. QED
  BY <1>1, <1>2

LEMMA WritesBear ==
  ASSUME LogTypeOK, Write, NEW f \in Endpoints, NEW i \in Ids
  PROVE  Bears(bronze'[f][i], bronze[f][i])
<1> USE DEF LogTypeOK
<1>1. PICK e \in Endpoints : StorePage(e) \/ StoreLookup(e)
  BY DEF Write
<1>2. CASE f # e
  <2>1. bronze'[f] = bronze[f]
    BY <1>1, <1>2 DEF StorePage, StoreLookup
  <2>2. QED
    BY <2>1 DEF Bears
<1>3. CASE f = e /\ StorePage(e)
  <2>1. PICK page \in Pages, run \in RunIds : bronze'[e] = ApplyPage(bronze[e], page, run)
    BY <1>3 DEF StorePage
  <2>2. QED
    BY <1>3, <2>1, PageBears
<1>4. CASE f = e /\ StoreLookup(e)
  <2>1. PICK page \in Pages, run \in RunIds, missing \in SUBSET Ids :
          bronze'[e] = MarkDeleted(ApplyPage(bronze[e], page, run), missing)
    BY <1>4 DEF StoreLookup
  <2> DEFINE laid == ApplyPage(bronze[e], page, run)
  <2>2. Bears(laid[i], bronze[e][i])
    BY PageBears
  <2>3. i \in DOMAIN laid
    BY DEF ApplyPage
  <2>4. \/ bronze'[e][i] = laid[i]
        \/ laid[i] # None /\ bronze'[e][i] = [laid[i] EXCEPT !.deleted = TRUE]
    BY <2>1, <2>3 DEF MarkDeleted, Active
  <2> HIDE DEF laid
  <2>5. CASE bronze'[e][i] = laid[i]
    BY <1>4, <2>2, <2>5
  <2>6. CASE laid[i] # None /\ bronze'[e][i] = [laid[i] EXCEPT !.deleted = TRUE]
    <3>1. bronze'[e][i].rev = laid[i].rev
      BY <2>6
    <3>2. QED
      BY <1>4, <2>2, <2>6, <3>1 DEF Bears
  <2>7. QED
    BY <2>4, <2>5, <2>6
<1>5. QED
  BY <1>1, <1>2, <1>3, <1>4

-----------------------------------------------------------------------------
(* A log that begins empty and moves by transactions alone.                *)
LEMMA LogBegins == LogInit => LogInv
BY DEF LogInit, LogInv, LogTypeOK, Rows

LEMMA LogStays == LogInv /\ UNCHANGED logVars => LogInv'
BY DEF LogInv, LogTypeOK, logVars

=============================================================================
