----------------------------- MODULE ChangeFeed -----------------------------
(***************************************************************************)
(* A consumer of the database (Reader in read.py, the changes command of   *)
(* cli.py) at work while a fetch writes: it asks what changed since the    *)
(* change sequence number it stored, reads the records again if anything   *)
(* did, and stores the latest number with what it read.                    *)
(*                                                                         *)
(* Every SELECT sees the last transaction committed before it, and no two  *)
(* SELECTs are of one transaction: the connection is in autocommit mode.   *)
(* A consumer does its three things in one of the Orders.                  *)
(***************************************************************************)
EXTENDS ChangeLog, Sequences

CONSTANT Orders

ASSUME OrdersAssumption == Orders \subseteq Seq({"changes", "seq", "records"})

VARIABLES
  order,   \* the order of its parts
  at,      \* the part of the round the consumer is on, 0 between rounds
  left,    \* endpoints it has still to query in this part
  best,    \* the highest number found so far (latest_change_seq)
  moved,   \* endpoints with records changed since the stored number
  copy,    \* the records it last read
  stored,  \* the number stored with them
  \* history
  overtaken  \* records stamped in a round behind the consumer's back: after it
             \* asked for the changes of their endpoint, not read since, and
             \* before it had the number

feedVars == <<order, at, left, best, moved, copy, stored, overtaken>>
vars == <<logVars, feedVars>>

Init ==
  /\ LogInit
  /\ order \in Orders
  /\ at = 0 /\ left = {} /\ best = 0 /\ moved = {}
  /\ copy = [e \in Endpoints |-> [i \in Ids |-> None]]
  /\ stored = 0 /\ overtaken = {}

Part == order[at]

(* A total of 0 means there is nothing to redo.                            *)
Redo == moved # {} \/ ~\E k \in 1..at : order[k] = "changes"

(* So the consumer ends the round before it reads any, unless it has been  *)
(* given the number with the total.                                        *)
Idle == /\ at < Len(order)
        /\ order[at + 1] = "records" /\ ~Redo
        /\ ~\E k \in 1..at : order[k] = "seq"

(* The endpoints a part queries; latest_change_seq begins by listing those *)
(* that have records.                                                      *)
Queried(part) == CASE part = "changes" -> Endpoints
                   [] part = "seq"     -> {e \in Endpoints : Stored(e) # {}}
                   [] part = "records" -> IF Redo THEN Endpoints ELSE {}

Advance ==
  /\ left = {}
  /\ at < Len(order)
  /\ ~Idle
  /\ at' = at + 1
  /\ left' = Queried(order[at + 1])
  /\ UNCHANGED <<logVars, order, best, moved, copy, stored, overtaken>>

(* One SELECT of Reader.changes: the records stamped after the number.     *)
CountChanges(e) ==
  /\ at > 0 /\ e \in left /\ Part = "changes"
  /\ left' = left \ {e}
  /\ moved' = IF \E i \in Ids : seqOf[e][i] > stored THEN moved \cup {e} ELSE moved
  /\ UNCHANGED <<logVars, order, at, best, copy, stored, overtaken>>

(* One SELECT of latest_change_seq.                                        *)
FindSeq(e) ==
  /\ at > 0 /\ e \in left /\ Part = "seq"
  /\ left' = left \ {e}
  /\ \E s \in LatestSeq(e) : best' = IF s > best THEN s ELSE best
  /\ UNCHANGED <<logVars, order, at, moved, copy, stored, overtaken>>

(* Reader.records: one SELECT, however long it streams.                    *)
ReadRecords(e) ==
  /\ at > 0 /\ e \in left /\ Part = "records"
  /\ left' = left \ {e}
  /\ copy' = [copy EXCEPT ![e] = [i \in Ids |-> Present(bronze[e][i])]]
  /\ overtaken' = overtaken \ ({e} \X Ids)
  /\ UNCHANGED <<logVars, order, at, best, moved, stored>>

(* It processes nothing and keeps the number it has stored.                *)
NothingToRedo ==
  /\ left = {}
  /\ Idle
  /\ at' = 0
  /\ UNCHANGED <<logVars, order, left, best, moved, copy, stored, overtaken>>

Store ==
  /\ left = {}
  /\ at = Len(order)
  /\ at' = 0
  /\ stored' = best
  /\ best' = 0 /\ moved' = {}
  /\ UNCHANGED <<logVars, order, left, copy, overtaken>>

Consume == \/ Advance \/ NothingToRedo \/ Store
           \/ \E e \in Endpoints : CountChanges(e) \/ FindSeq(e) \/ ReadRecords(e)

(* The round is past its first query of the endpoint, and not past its     *)
(* last one of all.                                                        *)
Passed(e) == /\ at > 1 \/ (at = 1 /\ e \notin left)
             /\ at < Len(order) \/ left # {}

Writing ==
  LET stamped == {r \in Endpoints \X Ids : seqOf'[r[1]][r[2]] # seqOf[r[1]][r[2]]}
  IN  /\ Write
      /\ overtaken' = (overtaken \ stamped) \cup {r \in stamped : Passed(r[1])}
      /\ UNCHANGED <<order, at, left, best, moved, copy, stored>>

Next == Writing \/ Consume

Spec == Init /\ [][Next]_vars

-----------------------------------------------------------------------------
(* Properties *)

TypeOK ==
  /\ LogTypeOK
  /\ order \in Orders
  /\ at \in 0..Len(order) /\ left \subseteq Endpoints /\ moved \subseteq Endpoints
  /\ best \in Nat /\ stored \in Nat
  /\ copy \in [Endpoints -> [Ids -> Version \cup {None}]]
  /\ overtaken \subseteq Endpoints \X Ids

(* The record is no longer what the consumer has of it.                    *)
Outdated(e, i) == copy[e][i] # Present(bronze[e][i])

(* "changes(since=stored) says whether anything you read has moved"        *)
(* (Reader.changes): between two rounds, every record of which the         *)
(* consumer's copy is out of date is among the changes since the number it *)
(* stored, so no change is ever passed over for good.                      *)
NoMissedChange ==
  at = 0 => \A e \in Endpoints, i \in Ids : Outdated(e, i) => seqOf[e][i] > stored

(* What is left of it when the number is asked for after the records, as   *)
(* Reader's documentation has it, or after the changes and before the      *)
(* records, as the changes command does: between two rounds, a record that *)
(* is out of date and not among the changes since the stored number was    *)
(* stamped within a round, after the consumer asked for the changes of its *)
(* endpoint and before it had the number.  A change committed at any other *)
(* time is reported, in whatever order pages, restores and deletions are   *)
(* stored and however often a record was missed before.                    *)
MissesOnlyOvertaken ==
  at = 0 => \A e \in Endpoints, i \in Ids :
              Outdated(e, i) => seqOf[e][i] > stored \/ <<e, i>> \in overtaken
=============================================================================
