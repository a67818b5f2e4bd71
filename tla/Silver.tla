------------------------------- MODULE Silver -------------------------------
(***************************************************************************)
(* The silver tables of one endpoint (src/centric_api/silver.py): a sync   *)
(* merges the stored API spec into the field registry, then rebuilds the   *)
(* tables from bronze or rewrites the records changed since the last sync, *)
(* widening a field's type whenever a value contradicts it.  Each step is  *)
(* a transaction of its own, and a sync stops at any point between them;   *)
(* bronze and the spec move on before the next.                            *)
(*                                                                         *)
(* A silver row is a function of a payload and the types of its columns:   *)
(* it is kept as what bronze showed when it was written, its link rows     *)
(* with it, and the table keeps the registry it was built by.  The hash of *)
(* a registry (_plan_sha256) is the registry.  Column and table names, and *)
(* whether a field is still in the spec, change nothing here.              *)
(***************************************************************************)
EXTENDS ChangeLog

CONSTANTS
  Endpoint,      \* the endpoint
  Fields,        \* the fields of its payloads and specs but for the id
  Content,       \* the fields of each payload: Value or None
  Plans,         \* what endpoint_plan makes of the specs there are; None: no schema
  BatchSize,     \* BATCH_SIZE
  MaxRebuilds,   \* MAX_REBUILDS
  MaxCrashes     \* bound of the runs

(* What _coerce tells apart of a JSON value: whole is a float without a    *)
(* fraction, huge a number without one that SQLite cannot store as an      *)
(* integer (2^63 and up), vast an integer that no float holds (2^1024 and  *)
(* up), nested a list or object.                                           *)
Scalars == {"bool", "int", "huge", "vast", "whole", "frac", "date", "str"}
Classes == Scalars \cup {"nested"}

(* A value, or the values in a list or object.  A null is a value without  *)
(* any; a key that is missing is None.                                     *)
Value == [many : BOOLEAN, of : SUBSET Classes]

Types == {"boolean", "integer", "real", "datetime", "text", "json"}
Kinds == {"column", "list", "map"}
RegisteredField == [kind : Kinds, type : Types]
Planned == [Fields -> RegisteredField \cup {None}]
Tables == [fields : Planned, rows : [Ids -> Exhibit \cup {None}]]
State == [seq : Nat, plan : Planned]
Widening == [field : Fields, type : Types]

ASSUME EndpointAssumption == Endpoint \in Endpoints
ASSUME ContentAssumption == Content \in [{v.rev : v \in Versions} -> [Fields -> Value \cup {None}]]
ASSUME PlansAssumption == Plans \subseteq Planned \cup {None}
ASSUME NothingAssumption ==
  None \notin Value \cup RegisteredField \cup Planned \cup Tables \cup State \cup Widening
ASSUME IdsAssumption == Ids \subseteq Nat  \* the order of the identifiers
ASSUME BoundsAssumption ==
  MaxRebuilds \in Nat \ {0} /\ BatchSize \in Nat \ {0} /\ MaxCrashes \in Nat

VARIABLES
  registry,  \* meta_silver_fields
  table,     \* the silver tables: the registry they were built by and their rows
  state,     \* meta_silver_state: synced_seq and plan_sha256
  unmapped,  \* meta_unmapped_fields
  pc,        \* what the sync is doing
  reg,       \* the registry it has loaded
  rebuild,   \* whether it is to rebuild
  widen,     \* the field it is to widen, and to what
  attempts,
  crashes

dbVars   == <<registry, table, state, unmapped>>
syncVars == <<pc, reg, rebuild, widen, attempts>>
vars == <<logVars, dbVars, syncVars, crashes>>

rows == bronze[Endpoint]
NoFields == [f \in Fields |-> None]

Init ==
  /\ LogInit
  /\ registry = NoFields /\ table = None /\ state = None /\ unmapped = {}
  /\ pc = "idle" /\ reg = NoFields /\ rebuild = FALSE /\ widen = None /\ attempts = 0
  /\ crashes = 0

-----------------------------------------------------------------------------
(* Types *)

(* Mutant of Widest: the spec's type is taken as it is.                    *)
Incoming(current, incoming) == incoming

Widest(current, incoming) ==
  IF current = incoming THEN current
  ELSE IF {current, incoming} = {"integer", "real"} THEN "real"
  ELSE IF "json" \in {current, incoming} THEN "json"
  ELSE "text"

(* The values a column of the type takes, and those it has no error of its *)
(* own for: float() or sqlite3 raises an OverflowError.                    *)
Takes(type) == CASE type \in {"json", "text"} -> Classes
                 [] type = "boolean"  -> {"bool"}
                 [] type = "integer"  -> {"int", "whole"}
                 [] type = "real"     -> {"int", "huge", "whole", "frac"}
                 [] type = "datetime" -> {"date"}

Overflows(type) == CASE type = "integer" -> {"huge", "vast"}
                     [] type = "real"    -> {"vast"}
                     [] OTHER            -> {}

(* Mutants of WidenedFor: the type of the value; a number stays a number.  *)
ClassOfValue(type, class) == class
NumberOrText(type, class) == IF type \in {"integer", "real"} THEN "real" ELSE "text"

WidenedFor(type, class) ==
  IF type = "integer" /\ class = "frac" THEN "real" ELSE "text"

(* What is put in the field's column, or in the rows of its link table.    *)
Elements(field, value) ==
  IF value = None THEN {}
  ELSE IF field.kind = "column" /\ value.many THEN {"nested"}
  ELSE value.of

Held(fields, row, f) == Elements(fields[f], Content[row.rev][f])

Mapped(fields) == {f \in Fields : fields[f] # None}

-----------------------------------------------------------------------------
(* The plan *)

MergeField(current, incoming) ==
  IF incoming = None THEN current
  ELSE IF current = None THEN incoming
  ELSE IF incoming.kind # current.kind
       THEN [current EXCEPT !.type = IF current.kind = "column" THEN "json" ELSE @]
  ELSE [current EXCEPT !.type = Widest(@, incoming.type)]

(* One transaction.  An endpoint with neither a plan nor fields is skipped. *)
MergePlan ==
  /\ pc = "idle"
  /\ \E plan \in Plans, force \in BOOLEAN :
       /\ plan # None \/ registry # NoFields
       /\ registry' = IF plan = None THEN registry
                      ELSE [f \in Fields |-> MergeField(registry[f], plan[f])]
       /\ rebuild' = force
  /\ reg' = registry'
  /\ attempts' = 0
  /\ pc' = "check"
  /\ UNCHANGED <<logVars, table, state, unmapped, widen, crashes>>

(* Mutant of NeedsRebuild: a change of the registry is not noticed.        *)
NothingToRebuild == state = None \/ table = None

NeedsRebuild == state = None \/ state.plan # reg \/ table = None

CheckPlan ==
  /\ pc = "check"
  /\ rebuild' = (rebuild \/ NeedsRebuild)
  /\ pc' = "apply"
  /\ UNCHANGED <<logVars, dbVars, reg, widen, attempts, crashes>>

-----------------------------------------------------------------------------
(* Rewriting the changed records *)

Since == IF rebuild \/ state = None THEN 0 ELSE state.seq

Batch == {i \in Stored(Endpoint) : seqOf[Endpoint][i] > Since}

(* The values of a record that contradict the type of a field.             *)
Strays(i, f) == Held(reg, rows[i], f) \ (Takes(reg[f].type) \cup Overflows(reg[f].type))

(* Mutant of Misfits: the values of link tables are not coerced.           *)
ColumnMisfits(i) == {f \in Mapped(reg) : reg[f].kind = "column" /\ Strays(i, f) # {}}

Misfits(i) == {f \in Mapped(reg) : Strays(i, f) # {}}

TooLarge(i, type) ==
  \E f \in Mapped(reg) : reg[f].type = type /\ Held(reg, rows[i], f) \cap Overflows(type) # {}

(* The records come in this order, in batches that are coerced as a whole  *)
(* before any of their rows is written.                                    *)
Before(i, j) == \/ seqOf[Endpoint][i] < seqOf[Endpoint][j]
                \/ seqOf[Endpoint][i] = seqOf[Endpoint][j] /\ i < j
BatchOf(i) == Cardinality({j \in Batch : Before(j, i)}) \div BatchSize

(* A value that cannot be coerced stops the rewriting at its record, one   *)
(* the driver cannot store at the end of its batch.                        *)
StopsAt(i) == Misfits(i) # {} \/ TooLarge(i, "real")
Reached(i) == \A j \in Batch : /\ Before(j, i) => ~StopsAt(j)
                               /\ BatchOf(j) < BatchOf(i) => ~TooLarge(j, "integer")
CoercedWith(i) == \A j \in Batch : BatchOf(j) = BatchOf(i) => ~StopsAt(j)

Unknown == {f \in Fields : \E i \in Batch : Content[rows[i].rev][f] # None} \ Mapped(reg)

(* One transaction: a rebuild drops the endpoint's tables, its unmapped    *)
(* fields and its state first.                                             *)
Apply ==
  /\ pc = "apply"
  /\ \A i \in Batch : ~StopsAt(i) /\ ~TooLarge(i, "integer")
  /\ LET old == IF rebuild THEN [i \in Ids |-> None] ELSE table.rows
         fields == IF rebuild THEN reg ELSE table.fields
     IN  table' = [fields |-> fields,
                   rows |-> [i \in Ids |-> IF i \in Batch THEN Shown(rows[i]) ELSE old[i]]]
  /\ unmapped' = ((IF rebuild THEN {} ELSE unmapped) \cup Unknown) \ Mapped(registry)
  /\ \E top \in LatestSeq(Endpoint) : state' = [seq |-> top, plan |-> reg]
  /\ pc' = "idle" /\ reg' = NoFields /\ rebuild' = FALSE
  /\ UNCHANGED <<logVars, registry, widen, attempts, crashes>>

(* A value that contradicts its column's type rolls the transaction back.  *)
Contradicted ==
  /\ pc = "apply"
  /\ \E i \in Batch :
       /\ Reached(i)
       /\ \E f \in Misfits(i) : \E class \in Strays(i, f) :
            widen' = [field |-> f, type |-> WidenedFor(reg[f].type, class)]
  /\ pc' = "widen"
  /\ UNCHANGED <<logVars, dbVars, reg, rebuild, attempts, crashes>>

(* A transaction of its own, and the next attempt, or the end of the sync. *)
Widen ==
  /\ pc = "widen"
  /\ registry' = [registry EXCEPT ![widen.field].type = widen.type]
  /\ widen' = None
  /\ attempts' = attempts + 1
  /\ IF attempts' < MaxRebuilds
     THEN pc' = "apply" /\ reg' = registry' /\ rebuild' = TRUE
     ELSE pc' = "idle" /\ reg' = NoFields /\ rebuild' = FALSE
  /\ UNCHANGED <<logVars, table, state, unmapped, crashes>>

(* An OverflowError is no _Widen: it ends the sync.                        *)
Overflow ==
  /\ pc = "apply"
  /\ \E i \in Batch :
       /\ Reached(i)
       /\ \/ TooLarge(i, "real")
          \/ TooLarge(i, "integer") /\ CoercedWith(i)
  /\ pc' = "idle" /\ reg' = NoFields /\ rebuild' = FALSE
  /\ UNCHANGED <<logVars, dbVars, widen, attempts, crashes>>

Crash ==
  /\ pc # "idle"
  /\ crashes < MaxCrashes
  /\ crashes' = crashes + 1
  /\ pc' = "idle" /\ reg' = NoFields /\ rebuild' = FALSE /\ widen' = None
  /\ UNCHANGED <<logVars, dbVars, attempts>>

Sync == MergePlan \/ CheckPlan \/ Apply \/ Contradicted \/ Widen \/ Overflow

Writing == Write /\ UNCHANGED <<dbVars, syncVars, crashes>>

Next == Writing \/ Sync \/ Crash

Spec == Init /\ [][Next]_vars

(* Every fetch ends with a sync, and fetches are scheduled.                *)
FairSpec == Spec /\ WF_vars(Sync)

-----------------------------------------------------------------------------
(* Properties *)

TypeOK ==
  /\ LogTypeOK
  /\ registry \in Planned /\ reg \in Planned
  /\ table \in Tables \cup {None} /\ state \in State \cup {None}
  /\ unmapped \subseteq Fields
  /\ pc \in {"idle", "check", "apply", "widen"}
  /\ widen \in Widening \cup {None}
  /\ rebuild \in BOOLEAN /\ attempts \in 0..MaxRebuilds /\ crashes \in Nat

(* What the stored sync position claims, the tables hold: they have the    *)
(* columns it names, every record changed up to it is in them as bronze    *)
(* shows it, and every field of those records is a column or listed as     *)
(* unmapped.  A later sync starts from this position without looking back, *)
(* whatever the one before it was stopped at (_apply_changes, _rebuild).   *)
SyncedUpToSeq ==
  state # None =>
    /\ table # None /\ table.fields = state.plan
    /\ \A i \in Ids : \/ table.rows[i] = Shown(rows[i])
                      \/ seqOf[Endpoint][i] > state.seq
    /\ \A i \in Stored(Endpoint) : seqOf[Endpoint][i] <= state.seq =>
         {f \in Fields : Content[rows[i].rev][f] # None}
            \subseteq Mapped(state.plan) \cup Mapped(registry) \cup unmapped

(* Every value in the tables is one its column's type takes: no contra-    *)
(* diction of the spec is stored under a type that was not widened for it. *)
TablesTakeTheirValues ==
  table # None =>
    \A i \in Ids : table.rows[i] # None =>
      \A f \in Mapped(table.fields) :
        Held(table.fields, table.rows[i], f) \subseteq Takes(table.fields[f].type)

(* "Types only widen" and "columns are never dropped" (README.md).         *)
Wider(a, b) == \/ b = a \/ b = "json"
               \/ b = "text" /\ a # "json"
               \/ b = "real" /\ a = "integer"
FieldsOnlyWiden ==
  [][\A f \in Mapped(registry) :
       /\ registry'[f] # None /\ registry'[f].kind = registry[f].kind
       /\ Wider(registry[f].type, registry'[f].type)]_vars

(* "If ... the data contradicts the spec, the column becomes wider"        *)
(* (README.md), and so, once bronze stops changing, scheduled syncs bring  *)
(* the tables up to it, whatever values the payloads hold.                 *)
InStep == table # None /\ \A i \in Ids : table.rows[i] = Shown(rows[i])
EventuallySynced == <>[]InStep

(* So they do as long as no integer column is given a number that SQLite   *)
(* cannot store and no real column one that is no float: the widenings,    *)
(* however many attempts and syncs they take and wherever those stop, come *)
(* to an end.                                                              *)
Blocked == \E f \in Mapped(registry), i \in Stored(Endpoint) :
             Held(registry, rows[i], f) \cap Overflows(registry[f].type) # {}
SyncedUnlessBlocked == <>[](InStep \/ Blocked)
=============================================================================
