------------------------------- MODULE Bronze -------------------------------
(***************************************************************************)
(* The bronze layer of centric-api (src/centric_api/bronze.py): one row    *)
(* per record of an endpoint, and the operators its writers are made of.   *)
(* A page is a function from the ids it holds to the versions Centric      *)
(* returned for them; bronze is a function from every id to its row.       *)
(*                                                                         *)
(* A version keeps the two parts of a payload the code looks at: mod, its  *)
(* _modified_at, and rev, which stands for the payload's hash (two         *)
(* versions with one rev are the same payload).  first_seen_at, updated_at *)
(* and last_seen_at are never read back and are left out.                  *)
(***************************************************************************)
EXTENDS Integers, FiniteSets

CONSTANTS
  None      \* no row, no value

Version == [mod : Int, rev : Nat]

RowOf(run) == [mod : Int, rev : Nat, deleted : BOOLEAN, seen : run]

Rows(run) == RowOf(run) \cup {None}

IsPage(p, ids) == DOMAIN p \subseteq ids /\ p \in [DOMAIN p -> Version]

EmptyPage == [i \in {} |-> [mod |-> 0, rev |-> 0]]

Merge(p, q) ==
  [i \in DOMAIN p \cup DOMAIN q |-> IF i \in DOMAIN p THEN p[i] ELSE q[i]]

(* Mutants of Replaces: a payload of the same time is taken for the stored *)
(* one; any other payload replaces it.                                     *)
ReplacesOlder(v, row) == v.mod > row.mod /\ v.rev # row.rev
ReplacesAny(v, row) == v.rev # row.rev

(* A stored payload gives way to one that is not older and not the same.   *)
Replaces(v, row) == v.mod >= row.mod /\ v.rev # row.rev

NewRow(v, run) ==
  [mod |-> v.mod, rev |-> v.rev, deleted |-> FALSE, seen |-> run]

(* One record of a page: inserted, replaced, restored or only stamped.     *)
Upsert(row, v, run) ==
  IF row = None THEN NewRow(v, run)
  ELSE IF Replaces(v, row) THEN NewRow(v, run)
  ELSE [row EXCEPT !.deleted = FALSE, !.seen = run]

(* Mutant of Changes: a record that reappears is restored under its old    *)
(* number.                                                                 *)
ChangesPayload(row, v) == row = None \/ Replaces(v, row)

(* The writes that take the page's change sequence number: all but a stamp. *)
Changes(row, v) == row = None \/ row.deleted \/ Replaces(v, row)

ApplyPage(bronze, page, run) ==
  [i \in DOMAIN bronze |->
     IF i \in DOMAIN page THEN Upsert(bronze[i], page[i], run) ELSE bronze[i]]

(* Records of the page that an earlier pass over a window opened at start  *)
(* should have returned.                                                   *)
LateFinds(bronze, page, run, start) ==
  {i \in DOMAIN page : /\ bronze[i] = None \/ bronze[i].seen # run
                       /\ page[i].mod < start}

(* Records of the page that changed at or after the given time.            *)
Concurrent(page, since) == {i \in DOMAIN page : page[i].mod >= since}

Active(row) == row # None /\ ~row.deleted

SeenIds(bronze, run) ==
  {i \in DOMAIN bronze : bronze[i] # None /\ bronze[i].seen = run}

UnseenIds(bronze, run) ==
  {i \in DOMAIN bronze : Active(bronze[i]) /\ bronze[i].seen # run}

MarkDeleted(bronze, ids) ==
  [i \in DOMAIN bronze |->
     IF i \in ids /\ Active(bronze[i])
     THEN [bronze[i] EXCEPT !.deleted = TRUE] ELSE bronze[i]]
=============================================================================
