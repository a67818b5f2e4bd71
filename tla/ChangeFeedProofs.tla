-------------------------- MODULE ChangeFeedProofs --------------------------
(***************************************************************************)
(* What the change sequence promises a consumer, for any endpoints,        *)
(* records, versions and pages: which changes it can miss, and when it     *)
(* misses none.                                                            *)
(***************************************************************************)
EXTENDS ChangeFeed, ChangeLogProofs

(* The order of Reader's documentation, and that of the changes command.   *)
Documented == <<"changes", "records", "seq">>
Commanded  == <<"changes", "seq", "records">>
ChangesFirst == Orders \subseteq {Documented, Commanded}

(* Every record the consumer is behind with is stamped after the number,   *)
(* or was overtaken.                                                       *)
Covered(e, seq) ==
  \A i \in Ids : Outdated(e, i) => seqOf[e][i] > seq \/ <<e, i>> \in overtaken

(* It was overtaken, whatever the number.                                  *)
Known(e) == \A i \in Ids : Outdated(e, i) => <<e, i>> \in overtaken

(* The endpoints that may be behind the copy in the later parts: those not *)
(* read again yet.                                                         *)
Unread == IF Part = "records" THEN left ELSE IF at = 2 THEN moved ELSE {}

(* Between rounds the stored number covers every endpoint.  Within one, an *)
(* endpoint whose changes were asked for and that had none, or that was    *)
(* read again, is known, until the last query has been made.               *)
FeedInv ==
  /\ LogInv
  /\ order \in {Documented, Commanded}
  /\ at \in 0..3
  /\ left \subseteq Endpoints /\ moved \subseteq Endpoints
  /\ best \in Nat /\ best <= changeSeq
  /\ stored \in Nat /\ stored <= changeSeq
  /\ copy \in [Endpoints -> [Ids -> Version \cup {None}]]
  /\ at = 0 => \A e \in Endpoints : Covered(e, stored)
  /\ at = 1 => /\ \A e \in left : Covered(e, stored)
               /\ \A e \in Endpoints \ (left \cup moved) : Known(e)
  /\ at = 2 \/ (at = 3 /\ left # {}) => \A e \in Endpoints \ Unread : Known(e)
  /\ at = 3 /\ left = {} => \A e \in Endpoints : Covered(e, best)

LEMMA OrderCases ==
  ASSUME FeedInv
  PROVE  /\ Len(order) = 3 /\ order[1] = "changes"
         /\ \/ order[2] = "records" /\ order[3] = "seq"
            \/ order[2] = "seq" /\ order[3] = "records"
BY DEF FeedInv, Documented, Commanded

LEMMA KnownIsCovered ==
  ASSUME NEW e, Known(e), NEW s
  PROVE  Covered(e, s)
BY DEF Known, Covered

(* A transaction stamps what it changes: the consumer is behind with it    *)
(* under a new number, or knows it as overtaken.                           *)
LEMMA WritesAreStamped ==
  ASSUME LogInv, Writing, NEW e \in Endpoints
  PROVE  /\ \A s \in Nat : s <= changeSeq /\ Covered(e, s) => Covered(e, s)'
         /\ Passed(e) /\ Known(e) => Known(e)'
<1>1. ASSUME NEW i \in Ids
      PROVE  \/ /\ Outdated(e, i)' <=> Outdated(e, i)
                /\ seqOf'[e][i] = seqOf[e][i]
                /\ <<e, i>> \in overtaken' <=> <<e, i>> \in overtaken
             \/ /\ seqOf'[e][i] \in Nat /\ seqOf'[e][i] > changeSeq
                /\ Passed(e) => <<e, i>> \in overtaken'
  <2> DEFINE stamped == {r \in Endpoints \X Ids : seqOf'[r[1]][r[2]] # seqOf[r[1]][r[2]]}
  <2>1. (Stays(e, i) \/ Moves(e, i)) /\ LogInv'
    BY WriteIsLogged DEF Writing
  <2>2. /\ bronze[e][i] \in Rows(RunIds) /\ bronze'[e][i] \in Rows(RunIds)
        /\ seqOf[e][i] \in Nat /\ seqOf'[e][i] \in Nat /\ changeSeq \in Nat
        /\ seqOf[e][i] <= changeSeq
    BY <2>1 DEF LogInv, LogTypeOK
  <2>3. overtaken' = (overtaken \ stamped) \cup {r \in stamped : Passed(r[1])} /\ UNCHANGED copy
    BY DEF Writing
  <2>4. <<e, i>> \in stamped <=> seqOf'[e][i] # seqOf[e][i]
    OBVIOUS
  <2> HIDE DEF stamped
  <2>5. CASE Stays(e, i)
    <3>1. Present(bronze'[e][i]) = Present(bronze[e][i]) /\ seqOf'[e][i] = seqOf[e][i]
      BY <2>2, <2>5, ShownDecidesPresent DEF Stays
    <3>2. QED
      BY <2>3, <2>4, <3>1 DEF Outdated
  <2>6. CASE Moves(e, i)
    <3>1. seqOf'[e][i] > changeSeq /\ <<e, i>> \in stamped
      BY <2>2, <2>4, <2>6 DEF Moves
    <3>2. Passed(e) => <<e, i>> \in overtaken'
      BY <2>3, <3>1
    <3>3. QED
      BY <2>2, <3>1, <3>2
  <2>7. QED
    BY <2>1, <2>5, <2>6
<1>2. changeSeq \in Nat
  BY DEF LogInv, LogTypeOK
<1>3. QED
  BY <1>1, <1>2 DEF Covered, Known

LEMMA WritingKeepsFeedInv ==
  ASSUME ChangesFirst, FeedInv, Writing
  PROVE  FeedInv'
<1>1. LogInv' /\ changeSeq' \in Nat /\ changeSeq' >= changeSeq
  <2>1. LogInv'
    BY WriteIsLogged DEF FeedInv, Writing
  <2>2. changeSeq \in Nat
    BY DEF FeedInv, LogInv, LogTypeOK
  <2>3. CASE \E e \in Endpoints : StorePage(e)
    BY <2>1, <2>2, <2>3 DEF StorePage, LogInv, LogTypeOK
  <2>4. CASE \E e \in Endpoints : StoreLookup(e)
    BY <2>1, <2>2, <2>4 DEF StoreLookup, LogInv, LogTypeOK
  <2>5. QED
    BY <2>1, <2>3, <2>4 DEF Writing, Write
<1>2. /\ UNCHANGED <<order, at, left, best, moved, copy, stored>>
      /\ changeSeq \in Nat /\ LogInv /\ Len(order) = 3
  BY OrderCases DEF Writing, FeedInv, LogInv, LogTypeOK
<1>3. ASSUME NEW e \in Endpoints
      PROVE  /\ Covered(e, stored) => Covered(e, stored)'
             /\ Covered(e, best) => Covered(e, best)'
             /\ Passed(e) /\ Known(e) => Known(e)'
  <2>1. \A s \in Nat : s <= changeSeq /\ Covered(e, s) => Covered(e, s)'
    BY <1>2, WritesAreStamped
  <2>2. \A s \in Nat : s <= changeSeq /\ Covered(e, s) =>
          \A i \in Ids : Outdated(e, i)' => seqOf'[e][i] > s \/ <<e, i>> \in overtaken'
    BY <2>1 DEF Covered
  <2>3. QED
    BY <1>2, <2>2, WritesAreStamped DEF Covered, FeedInv
<1>4. /\ at = 1 => \A e \in Endpoints \ left : Passed(e)
      /\ at = 2 => \A e \in Endpoints : Passed(e)
      /\ at = 3 /\ left # {} => \A e \in Endpoints : Passed(e)
  BY <1>2 DEF Passed
<1>5. (at = 0 => \A e \in Endpoints : Covered(e, stored))'
  BY <1>2, <1>3 DEF FeedInv
<1>6. (at = 1 => /\ \A e \in left : Covered(e, stored)
                /\ \A e \in Endpoints \ (left \cup moved) : Known(e))'
  BY <1>2, <1>3, <1>4 DEF FeedInv
<1>7. (at = 2 \/ (at = 3 /\ left # {}) => \A e \in Endpoints \ Unread : Known(e))'
  BY <1>2, <1>3, <1>4 DEF FeedInv, Unread, Part
<1>8. (at = 3 /\ left = {} => \A e \in Endpoints : Covered(e, best))'
  BY <1>2, <1>3 DEF FeedInv
<1>9. QED
  BY <1>1, <1>2, <1>5, <1>6, <1>7, <1>8 DEF FeedInv

LEMMA ConsumingKeepsFeedInv ==
  ASSUME ChangesFirst, FeedInv, Consume
  PROVE  FeedInv'
<1>1. LogInv' /\ UNCHANGED logVars
  <2>1. UNCHANGED logVars
    BY DEF Consume, Advance, NothingToRedo, Store, CountChanges, FindSeq, ReadRecords
  <2>2. QED
    BY <2>1 DEF FeedInv, LogInv, LogTypeOK, logVars
<1>2. /\ Len(order) = 3 /\ order[1] = "changes"
      /\ \/ order[2] = "records" /\ order[3] = "seq"
         \/ order[2] = "seq" /\ order[3] = "records"
  BY OrderCases
<1>3. /\ changeSeq \in Nat /\ \A e \in Endpoints, i \in Ids :
           seqOf[e][i] \in Nat /\ seqOf[e][i] <= changeSeq /\ bronze[e][i] \in Rows(RunIds)
  BY DEF FeedInv, LogInv, LogTypeOK
<1>4. CASE Advance
  <2>1. /\ left = {} /\ at < 3 /\ at' = at + 1 /\ left' = Queried(order[at + 1])
        /\ UNCHANGED <<bronze, seqOf, changeSeq, order, best, moved, copy, stored, overtaken>>
    BY <1>2, <1>4 DEF Advance, logVars
  <2>2. at \in 0..2 /\ at' \in 1..3
    BY <2>1 DEF FeedInv
  <2>3. left' \subseteq Endpoints
    BY <1>2, <2>1, <2>2 DEF Queried
  <2>4. \A e \in Endpoints : (Covered(e, stored)' <=> Covered(e, stored)) /\ (Known(e)' <=> Known(e))
                              /\ (Covered(e, best)' <=> Covered(e, best))
    BY <2>1 DEF Covered, Known, Outdated
  <2>5. at = 0 => left' = Endpoints
    BY <1>2, <2>1 DEF Queried
  <2>6. at > 0 => (Redo <=> moved # {})
    BY <1>2, <2>2 DEF Redo
  <2>7. at > 0 /\ order[at + 1] = "records" => left' = IF moved # {} THEN Endpoints ELSE {}
    BY <2>1, <2>6 DEF Queried
  <2>8. at = 1 => \A e \in Endpoints \ moved : Known(e)
    BY <2>1 DEF FeedInv
  <2>9. at = 2 => \A e \in Endpoints \ (IF order[2] = "records" THEN {} ELSE moved) : Known(e)
    BY <2>1 DEF FeedInv, Unread, Part
  <2>10. (at = 1 => /\ \A e \in left : Covered(e, stored)
                   /\ \A e \in Endpoints \ (left \cup moved) : Known(e))'
    BY <2>1, <2>2, <2>4, <2>5 DEF FeedInv
  <2>11. (at = 2 => \A e \in Endpoints \ Unread : Known(e))'
    BY <1>2, <2>1, <2>2, <2>4, <2>7, <2>8 DEF Unread, Part
  <2>12. (at = 3 /\ left # {} => \A e \in Endpoints \ Unread : Known(e))'
    BY <1>2, <2>1, <2>2, <2>4, <2>7, <2>9 DEF Unread, Part
  <2>13. at = 2 /\ left' = {} => \A e \in Endpoints : Known(e)
    BY <1>2, <2>7, <2>9
  <2>14. (at = 3 /\ left = {} => \A e \in Endpoints : Covered(e, best))'
    BY <2>1, <2>2, <2>4, <2>13, KnownIsCovered
  <2>15. QED
    BY <1>1, <2>1, <2>2, <2>3, <2>10, <2>11, <2>12, <2>14 DEF FeedInv
<1>5. CASE Store
  <2>1. /\ left = {} /\ at = 3 /\ at' = 0 /\ stored' = best /\ best' = 0 /\ moved' = {}
        /\ UNCHANGED <<bronze, seqOf, changeSeq, order, left, copy, overtaken>>
    BY <1>2, <1>5 DEF Store, logVars
  <2>2. \A e \in Endpoints : Covered(e, stored)'
    BY <2>1 DEF FeedInv, Covered, Outdated
  <2>3. QED
    BY <1>1, <1>3, <2>1, <2>2 DEF FeedInv
<1>6. CASE NothingToRedo
  <2>1. /\ left = {} /\ Idle /\ at' = 0
        /\ UNCHANGED <<bronze, seqOf, changeSeq, order, left, best, moved, copy, stored, overtaken>>
    BY <1>6 DEF NothingToRedo, logVars
  <2>2. moved = {} /\ at \in 1..2
    BY <1>2, <2>1 DEF Idle, Redo, FeedInv
  <2>3. at = 1
    BY <1>2, <2>1, <2>2 DEF Idle
  <2>4. \A e \in Endpoints : Known(e)
    BY <2>1, <2>2, <2>3 DEF FeedInv
  <2>5. \A e \in Endpoints : Covered(e, stored)'
    BY <2>1, <2>4 DEF Known, Covered, Outdated
  <2>6. QED
    BY <1>1, <1>3, <2>1, <2>5 DEF FeedInv
<1>7. ASSUME NEW e \in Endpoints, CountChanges(e) PROVE FeedInv'
  <2>1. /\ at = 1 /\ e \in left /\ left' = left \ {e}
        /\ moved' = IF \E i \in Ids : seqOf[e][i] > stored THEN moved \cup {e} ELSE moved
        /\ UNCHANGED <<bronze, seqOf, changeSeq, order, at, best, copy, stored, overtaken>>
    BY <1>2, <1>7 DEF CountChanges, Part, FeedInv, logVars
  <2>2. \A f \in Endpoints : (Covered(f, stored)' <=> Covered(f, stored)) /\ (Known(f)' <=> Known(f))
    BY <2>1 DEF Covered, Known, Outdated
  <2>3. e \notin moved' => Known(e)
    <3>1. SUFFICES ASSUME e \notin moved', NEW i \in Ids, Outdated(e, i)
                   PROVE  <<e, i>> \in overtaken
      BY DEF Known
    <3>2. ~(seqOf[e][i] > stored)
      BY <2>1, <3>1
    <3>3. Covered(e, stored)
      BY <2>1 DEF FeedInv
    <3>4. QED
      BY <3>1, <3>2, <3>3 DEF Covered
  <2>4. \A f \in Endpoints \ (left' \cup moved') : Known(f)'
    BY <2>1, <2>2, <2>3 DEF FeedInv
  <2>5. \A f \in left' : Covered(f, stored)'
    BY <2>1, <2>2 DEF FeedInv
  <2>6. QED
    BY <1>1, <2>1, <2>4, <2>5 DEF FeedInv
<1>8. ASSUME NEW e \in Endpoints, FindSeq(e) PROVE FeedInv'
  <2>1. /\ at \in 2..3 /\ order[at] = "seq" /\ left # {} /\ left' = left \ {e}
        /\ \E s \in LatestSeq(e) : best' = IF s > best THEN s ELSE best
        /\ UNCHANGED <<bronze, seqOf, changeSeq, order, at, moved, copy, stored, overtaken>>
    BY <1>2, <1>8 DEF FindSeq, Part, FeedInv, logVars
  <2>2. \A s \in LatestSeq(e) : s \in Nat /\ s <= changeSeq
    BY <1>3 DEF LatestSeq
  <2>3. best' \in Nat /\ best' <= changeSeq
    BY <2>1, <2>2 DEF FeedInv
  <2>4. Unread' = Unread /\ (at = 3 => Unread = {})
    BY <2>1 DEF Unread, Part
  <2>5. \A f \in Endpoints \ Unread : Known(f) /\ Known(f)'
    BY <2>1 DEF FeedInv, Known, Outdated
  <2>6. at = 3 => \A f \in Endpoints : Covered(f, best)'
    BY <2>4, <2>5 DEF Known, Covered
  <2>7. QED
    BY <1>1, <2>1, <2>3, <2>4, <2>5, <2>6 DEF FeedInv
<1>9. ASSUME NEW e \in Endpoints, ReadRecords(e) PROVE FeedInv'
  <2>1. /\ at \in 2..3 /\ order[at] = "records" /\ e \in left /\ left' = left \ {e}
        /\ copy' = [copy EXCEPT ![e] = [i \in Ids |-> Present(bronze[e][i])]]
        /\ overtaken' = overtaken \ ({e} \X Ids)
        /\ UNCHANGED <<bronze, seqOf, changeSeq, order, at, best, moved, stored>>
    BY <1>2, <1>9 DEF ReadRecords, Part, FeedInv, logVars
  <2>2. copy' \in [Endpoints -> [Ids -> Version \cup {None}]]
    BY <1>3, <2>1, PresentType DEF FeedInv
  <2>3. copy'[e] = [i \in Ids |-> Present(bronze[e][i])]
        /\ \A f \in Endpoints \ {e} : copy'[f] = copy[f]
    BY <2>1 DEF FeedInv
  <2>4. Known(e)'
    BY <2>1, <2>3 DEF Known, Outdated
  <2>5. \A f \in Endpoints \ left : Known(f)
    BY <2>1 DEF FeedInv, Unread, Part
  <2>6. \A f \in Endpoints \ (left \cup {e}) : Known(f)'
    BY <2>1, <2>3, <2>5 DEF Known, Outdated
  <2>7. \A f \in Endpoints \ left' : Known(f)'
    BY <2>1, <2>4, <2>6
  <2>8. Unread' = left'
    BY <2>1 DEF Unread, Part
  <2>9. left' = {} => \A f \in Endpoints : Covered(f, best)'
    BY <2>7 DEF Known, Covered
  <2>10. QED
    BY <1>1, <2>1, <2>2, <2>7, <2>8, <2>9 DEF FeedInv
<1>10. QED
  BY <1>4, <1>5, <1>6, <1>7, <1>8, <1>9 DEF Consume

LEMMA FeedInvHolds ==
  ASSUME ChangesFirst
  PROVE  Spec => []FeedInv
<1>1. Init => FeedInv
  <2>1. Present(None) = None
    BY DEF Present, Active
  <2>2. QED
    BY <2>1 DEF Init, ChangesFirst, LogInit, FeedInv, LogInv, LogTypeOK, Covered, Outdated, Rows
<1>2. FeedInv /\ [Next]_vars => FeedInv'
  <2>1. FeedInv /\ Next => FeedInv'
    BY WritingKeepsFeedInv, ConsumingKeepsFeedInv DEF Next
  <2>2. FeedInv /\ UNCHANGED vars => FeedInv'
    BY DEF FeedInv, LogInv, LogTypeOK, Covered, Known, Outdated, Unread, Part, vars, logVars, feedVars
  <2>3. QED
    BY <2>1, <2>2
<1>3. QED
  BY <1>1, <1>2, PTL DEF Spec

(* A consumer that asks for the changes and then, before or after it reads *)
(* the records, for the number, as the changes command and Reader's        *)
(* documentation have it, passes over no change but those committed behind *)
(* its back within a round.                                                *)
THEOREM MissedAreOvertaken ==
  ASSUME ChangesFirst
  PROVE  Spec => []MissesOnlyOvertaken
<1>1. FeedInv => MissesOnlyOvertaken
  BY DEF FeedInv, MissesOnlyOvertaken, Covered
<1>2. QED
  BY <1>1, FeedInvHolds, PTL

(* Nothing is committed while the consumer is at work, as when it runs     *)
(* after each fetch and none begins meanwhile (docs/deployment.md).        *)
QuietRound == at # 0 => UNCHANGED logVars
QuietRounds == [][QuietRound]_vars

NothingOvertaken == overtaken = {}

(* Then it misses no change at all, whatever the fetches between its       *)
(* rounds store.                                                           *)
THEOREM QuietRoundsMissNothing ==
  ASSUME ChangesFirst
  PROVE  Spec /\ QuietRounds => []NoMissedChange
<1>1. Init => NothingOvertaken
  BY DEF Init, NothingOvertaken
<1>2. NothingOvertaken /\ [Next]_vars /\ [QuietRound]_vars => NothingOvertaken'
  <2> SUFFICES ASSUME overtaken = {}, [Next]_vars, [QuietRound]_vars
               PROVE  overtaken' = {}
    BY DEF NothingOvertaken
  <2>1. CASE UNCHANGED vars
    BY <2>1 DEF vars, feedVars
  <2>2. CASE Consume
    BY <2>2 DEF Consume, Advance, NothingToRedo, Store, CountChanges, FindSeq, ReadRecords
  <2>3. CASE Writing
    <3>1. at # 0 => UNCHANGED seqOf
      BY DEF QuietRound, vars, logVars
    <3>2. at = 0 => \A e : ~Passed(e)
      BY DEF Passed
    <3>3. QED
      BY <2>3, <3>1, <3>2 DEF Writing
  <2>4. QED
    BY <2>1, <2>2, <2>3 DEF Next
<1>3. FeedInv /\ NothingOvertaken => NoMissedChange
  BY DEF NothingOvertaken, FeedInv, NoMissedChange, Covered
<1>4. QED
  BY <1>1, <1>2, <1>3, FeedInvHolds, PTL DEF Spec, QuietRounds

-----------------------------------------------------------------------------
(* What the log itself promises needs no assumption on its readers.        *)
LEMMA LogInvHolds == Spec => []LogInv
<1>1. Init => LogInv
  BY LogBegins DEF Init
<1>2. LogInv /\ [Next]_vars => LogInv'
  <2>1. [Next]_vars => Write \/ UNCHANGED logVars
    BY DEF vars, Next, Writing, Consume, Advance, NothingToRedo, Store, CountChanges, FindSeq, ReadRecords
  <2>2. QED
    BY <2>1, LogStays, WriteIsLogged
<1>3. QED
  BY <1>1, <1>2, PTL DEF Spec

LEMMA StepIsLogged ==
  ASSUME LogInv, [Next]_vars
  PROVE  \/ UNCHANGED logVars
         \/ \A f \in Endpoints, i \in Ids : (Stays(f, i) \/ Moves(f, i)) /\ Keeps(f, i)
<1>1. Write \/ UNCHANGED logVars
  BY DEF vars, Next, Writing, Consume, Advance, NothingToRedo, Store, CountChanges, FindSeq, ReadRecords
<1>2. QED
  BY <1>1, WriteIsLogged

(* No page, in whatever order, rolls a record back or loses a row.         *)
THEOREM RowsNeverRollBack == Spec => NeverRolledBack
<1>1. LogInv /\ [Next]_vars =>
        [\A e \in Endpoints : \A i \in Stored(e) :
           bronze'[e][i] # None /\ bronze'[e][i].mod >= bronze[e][i].mod]_logVars
  BY StepIsLogged DEF Keeps, Stored
<1>2. QED
  BY <1>1, LogInvHolds, PTL DEF Spec, NeverRolledBack

(* A row takes a new number, past every other, exactly when it changes.    *)
THEOREM EveryChangeIsStamped == Spec => ChangesAreStamped
<1> DEFINE Stamped ==
      \A e \in Endpoints, i \in Ids :
        /\ Shown(bronze'[e][i]) # Shown(bronze[e][i]) <=> seqOf'[e][i] # seqOf[e][i]
        /\ seqOf'[e][i] # seqOf[e][i] =>
             \A f \in Endpoints, j \in Ids : seqOf'[e][i] > seqOf[f][j]
<1>1. ASSUME LogInv, [Next]_vars PROVE [Stamped]_logVars
  <2>1. SUFFICES ASSUME ~UNCHANGED logVars PROVE Stamped
    OBVIOUS
  <2>2. SUFFICES ASSUME NEW e \in Endpoints, NEW i \in Ids
        PROVE /\ Shown(bronze'[e][i]) # Shown(bronze[e][i]) <=> seqOf'[e][i] # seqOf[e][i]
              /\ seqOf'[e][i] # seqOf[e][i] =>
                   \A f \in Endpoints, j \in Ids : seqOf'[e][i] > seqOf[f][j]
    OBVIOUS
  <2>3. Stays(e, i) \/ Moves(e, i)
    BY <1>1, <2>1, StepIsLogged
  <2>4. /\ changeSeq \in Nat /\ seqOf[e][i] \in Nat
        /\ \A f \in Endpoints, j \in Ids : seqOf[f][j] \in Nat /\ seqOf[f][j] <= changeSeq
    BY <1>1 DEF LogInv, LogTypeOK
  <2>5. LogInv'
    <3>1. Write \/ UNCHANGED logVars
      BY <1>1 DEF vars, Next, Writing, Consume, Advance, NothingToRedo, Store, CountChanges, FindSeq, ReadRecords
    <3>2. QED
      BY <1>1, <3>1, LogStays, WriteIsLogged
  <2>6. seqOf'[e][i] \in Nat
    BY <2>5 DEF LogInv, LogTypeOK
  <2>7. QED
    BY <2>3, <2>4, <2>6 DEF Stays, Moves
<1>2. QED
  BY <1>1, LogInvHolds, PTL DEF Spec, ChangesAreStamped

-----------------------------------------------------------------------------
LEMMA QueriedAreEndpoints ==
  ASSUME NEW part \in {"changes", "seq", "records"}
  PROVE  Queried(part) \subseteq Endpoints
BY DEF Queried

LEMMA ConsumeType ==
  ASSUME TypeOK, Consume
  PROVE  TypeOK'
<1> USE DEF TypeOK
<1>1. Len(order) \in Nat /\ \A k \in 1..Len(order) : order[k] \in {"changes", "seq", "records"}
  BY OrdersAssumption
<1>2. LogTypeOK'
  <2>1. UNCHANGED logVars
    BY DEF Consume, Advance, NothingToRedo, Store, CountChanges, FindSeq, ReadRecords
  <2>2. QED
    BY <2>1 DEF LogTypeOK, logVars
<1>3. CASE Advance
  <2>1. at + 1 \in 1..Len(order)
    BY <1>1, <1>3 DEF Advance
  <2>2. left' \subseteq Endpoints
    BY <1>1, <1>3, <2>1, QueriedAreEndpoints DEF Advance
  <2>3. QED
    BY <1>1, <1>2, <1>3, <2>1, <2>2 DEF Advance
<1>4. CASE Store
  BY <1>1, <1>2, <1>4 DEF Store
<1>5. CASE NothingToRedo
  BY <1>1, <1>2, <1>5 DEF NothingToRedo
<1>6. ASSUME NEW e \in Endpoints, CountChanges(e) PROVE TypeOK'
  BY <1>2, <1>6 DEF CountChanges
<1>7. ASSUME NEW e \in Endpoints, FindSeq(e) PROVE TypeOK'
  <2>1. LatestSeq(e) \subseteq Nat
    BY DEF LatestSeq, LogTypeOK
  <2>2. best' \in Nat
    BY <1>7, <2>1 DEF FindSeq
  <2>3. QED
    BY <1>2, <1>7, <2>2 DEF FindSeq
<1>8. ASSUME NEW e \in Endpoints, ReadRecords(e) PROVE TypeOK'
  <2>1. \A i \in Ids : Present(bronze[e][i]) \in Version \cup {None}
    BY PresentType DEF LogTypeOK
  <2>2. copy' \in [Endpoints -> [Ids -> Version \cup {None}]]
    BY <1>8, <2>1 DEF ReadRecords
  <2>3. QED
    BY <1>2, <1>8, <2>2 DEF ReadRecords
<1>9. QED
  BY <1>3, <1>4, <1>5, <1>6, <1>7, <1>8 DEF Consume

(* The log, the consumer's copy and its numbers keep their types, whatever *)
(* the order of the consumer's parts.                                      *)
THEOREM TypeCorrect == Spec => []TypeOK
<1>1. Init => TypeOK
  BY OrdersAssumption, LogBegins DEF Init, TypeOK, LogInv
<1>2. TypeOK /\ LogInv /\ [Next]_vars => TypeOK'
  <2>1. ASSUME TypeOK, LogInv, Writing PROVE TypeOK'
    BY <2>1, WriteIsLogged DEF Writing, TypeOK, LogInv
  <2>2. TypeOK /\ UNCHANGED vars => TypeOK'
    BY DEF TypeOK, LogTypeOK, vars, logVars, feedVars
  <2>3. QED
    BY <2>1, <2>2, ConsumeType DEF Next
<1>3. QED
  BY <1>1, <1>2, LogInvHolds, PTL DEF Spec
=============================================================================
