------------------------------ MODULE ChangeLog ------------------------------
(***************************************************************************)
(* The bronze records of every endpoint with the change sequence number    *)
(* each row was last stamped with, as their readers see them: one          *)
(* transaction of a run after another, whatever pages the runs were given. *)
(* Which pages a run asks for is the subject of FetchEndpoint.tla; a page  *)
(* may hold any version a record ever had, since windows overlap and are   *)
(* read while Centric changes.                                             *)
(***************************************************************************)
EXTENDS Bronze

CONSTANTS
  Endpoints,
  Ids,       \* the record ids of each endpoint
  RunIds,
  Versions,  \* the versions the records ever have
  MaxSeq     \* bound of the runs

(* What a row shows: a version, and whether it is flagged deleted.         *)
Exhibit == [mod : Int, rev : Nat, deleted : BOOLEAN]

ASSUME VersionsAssumption == Versions \subseteq Version
ASSUME NoneAssumption == None \notin RowOf(RunIds) \cup Version \cup Exhibit
ASSUME MaxSeqAssumption == MaxSeq \in Nat

VARIABLES
  bronze,    \* bronze_records of each endpoint
  seqOf,     \* change_seq of each row, 0 where there is none
  changeSeq  \* change_seq of meta_info

logVars == <<bronze, seqOf, changeSeq>>

Pages == UNION {[S -> Versions] : S \in SUBSET Ids}

LogInit ==
  /\ bronze = [e \in Endpoints |-> [i \in Ids |-> None]]
  /\ seqOf = [e \in Endpoints |-> [i \in Ids |-> 0]]
  /\ changeSeq = 0

(* Mutant of Stamps: every row of the page takes the number.               *)
StampsAll(rows, seqs, page, seq) ==
  [i \in DOMAIN seqs |-> IF i \in DOMAIN page THEN seq ELSE seqs[i]]

(* The stamps of a page: the rows it changes take the number, the rows it  *)
(* only finds again keep theirs.                                           *)
Stamps(rows, seqs, page, seq) ==
  [i \in DOMAIN seqs |->
     IF i \in DOMAIN page /\ Changes(rows[i], page[i]) THEN seq ELSE seqs[i]]

StampDeleted(rows, seqs, ids, seq) ==
  [i \in DOMAIN seqs |-> IF i \in ids /\ Active(rows[i]) THEN seq ELSE seqs[i]]

(* A page of a window, never an empty one.  The number is taken even when  *)
(* nothing changed.                                                        *)
StorePage(e) ==
  \E page \in Pages \ {EmptyPage}, run \in RunIds :
    /\ changeSeq < MaxSeq
    /\ changeSeq' = changeSeq + 1
    /\ bronze' = [bronze EXCEPT ![e] = ApplyPage(@, page, run)]
    /\ seqOf' = [seqOf EXCEPT ![e] = Stamps(bronze[e], @, page, changeSeq + 1)]

(* The end of a full window that flags deletions: what the lookup found    *)
(* and what it missed, each under a number of its own, in one transaction. *)
StoreLookup(e) ==
  \E found \in Pages, run \in RunIds : \E missing \in (SUBSET (Ids \ DOMAIN found)) \ {{}} :
    LET first  == IF found = EmptyPage THEN changeSeq ELSE changeSeq + 1
        stored == ApplyPage(bronze[e], found, run)
    IN  /\ first < MaxSeq
        /\ changeSeq' = first + 1
        /\ bronze' = [bronze EXCEPT ![e] = MarkDeleted(stored, missing)]
        /\ seqOf' = [seqOf EXCEPT ![e] =
             StampDeleted(stored, Stamps(bronze[e], @, found, first), missing, first + 1)]

Write == \E e \in Endpoints : StorePage(e) \/ StoreLookup(e)

-----------------------------------------------------------------------------
Shown(row) == IF row = None THEN None
              ELSE [mod |-> row.mod, rev |-> row.rev, deleted |-> row.deleted]

(* The payload a reader gets, deleted records left out.                    *)
Present(row) == IF Active(row) THEN [mod |-> row.mod, rev |-> row.rev] ELSE None

Stored(e) == {i \in Ids : bronze[e][i] # None}

(* The highest stamp of the endpoint (the one element), 0 without records.  *)
LatestSeq(e) == {s \in {0} \cup {seqOf[e][i] : i \in Ids} :
                   \A i \in Ids : seqOf[e][i] <= s}

LogTypeOK ==
  /\ bronze \in [Endpoints -> [Ids -> Rows(RunIds)]]
  /\ seqOf \in [Endpoints -> [Ids -> Nat]]
  /\ changeSeq \in Nat

(* "Overlapping or out-of-order pages never roll a record back"            *)
(* (apply_page): whatever pages arrive, in whatever order, no row goes     *)
(* away and none is replaced by a version modified earlier.                *)
NeverRolledBack ==
  [][\A e \in Endpoints : \A i \in Stored(e) :
       bronze'[e][i] # None /\ bronze'[e][i].mod >= bronze[e][i].mod]_logVars

(* "Every insert, update, restore or deletion stamps the record with a     *)
(* new, higher number; records a fetch sees unchanged keep theirs"         *)
(* (Reader.change_seq): a row shows something else exactly when its stamp  *)
(* moves, and then past every stamp of every endpoint.                     *)
ChangesAreStamped ==
  [][\A e \in Endpoints, i \in Ids :
       /\ Shown(bronze'[e][i]) # Shown(bronze[e][i]) <=> seqOf'[e][i] # seqOf[e][i]
       /\ seqOf'[e][i] # seqOf[e][i] =>
            \A f \in Endpoints, j \in Ids : seqOf'[e][i] > seqOf[f][j]]_logVars
=============================================================================
