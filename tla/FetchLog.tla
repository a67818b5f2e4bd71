------------------------------ MODULE FetchLog ------------------------------
(***************************************************************************)
(* The fetch of an endpoint with the change sequence numbers its           *)
(* transactions take (src/centric_api/fetch.py, db.py): what the readers   *)
(* of the log, the consumers of ChangeFeed and the tables of Silver,       *)
(* assume of their writer is what a fetch does, from an empty database on. *)
(***************************************************************************)
EXTENDS FetchEndpoint

CONSTANTS
  Endpoint,
  Versions,  \* the versions Centric's records ever have
  MaxSeq     \* bound of ChangeLog's runs

VARIABLES
  seqOf,     \* change_seq of each row, 0 where there is none
  changeSeq  \* change_seq of meta_info

seqVars == <<seqOf, changeSeq>>

Log == INSTANCE ChangeLog WITH
  Endpoints <- {Endpoint},
  bronze <- [e \in {Endpoint} |-> bronze],
  seqOf <- [e \in {Endpoint} |-> seqOf]

LoggedInit ==
  /\ Init /\ InitEmpty
  /\ seqOf = [i \in Ids |-> 0]
  /\ changeSeq = 0

-----------------------------------------------------------------------------
(* next_change_seq, taken where there is something to write.               *)
NextSeq(seq, some) == IF some THEN seq + 1 ELSE seq

(* The transaction of a page takes a number, whatever the page changes.    *)
LoggedReadPage ==
  LET seq == NextSeq(changeSeq, TRUE)
  IN  /\ ReadPage
      /\ seq <= MaxSeq
      /\ changeSeq' = seq
      /\ seqOf' = Log!Stamps(bronze, seqOf, Page(window), seq)

Deletions == IF req.allow THEN check.missing ELSE {}

(* What the lookup found takes one number, what is flagged deleted another, *)
(* in one transaction.                                                     *)
LoggedFinish ==
  LET first  == NextSeq(changeSeq, check.found # EmptyPage)
      last   == NextSeq(first, Deletions # {})
      stored == ApplyPage(bronze, check.found, window.run)
      stamps == Log!Stamps(bronze, seqOf, check.found, first)
  IN  /\ Finish
      /\ last <= MaxSeq
      /\ changeSeq' = last
      /\ seqOf' = Log!StampDeleted(stored, stamps, Deletions, last)

(* The steps that store nothing.                                           *)
Aside == \/ AnyStart \/ Count \/ RepeatedPage \/ Reject
         \/ EndFirstPass \/ EndLaterPass \/ SavePass
         \/ ConfirmUnseen \/ Lookup
         \/ Stop \/ Centric \/ Tick \/ StepBack

LoggedNext == LoggedReadPage \/ LoggedFinish \/ (Aside /\ UNCHANGED seqVars)

LoggedSpec == LoggedInit /\ [][LoggedNext]_<<vars, seqVars>>

-----------------------------------------------------------------------------
(* A fetch writes as the log says its writers do: one page or one lookup's *)
(* outcome at a time, every row that then shows something else, and no     *)
(* other, under a number above all others (apply_page, mark_deleted,       *)
(* _finish_window); nothing else it does moves a row or a number.          *)
WritesTheLog == Log!LogInit /\ [][Log!Write]_(Log!logVars)
=============================================================================
