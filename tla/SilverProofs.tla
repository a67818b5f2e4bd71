---------------------------- MODULE SilverProofs ----------------------------
(***************************************************************************)
(* The silver tables against bronze, for any payloads, specs and stops.    *)
(* The sync loads the registry it stored, so the two agree until it ends;  *)
(* it rewrites rows in place only if the tables were built by that         *)
(* registry; and what it did not see lies past the number it stores.       *)
(***************************************************************************)
EXTENDS Silver, ChangeLogProofs

(* A row bears a number and a payload, and no number is borne by no row.   *)
RowsInv ==
  /\ LogInv
  /\ \A i \in Ids : IF rows[i] = None THEN seqOf[Endpoint][i] = 0
                    ELSE seqOf[Endpoint][i] > 0 /\ rows[i].rev \in Revs

SyncInv ==
  /\ pc # "idle" => reg = registry /\ attempts < MaxRebuilds
  /\ pc = "apply" /\ ~rebuild => state # None /\ state.plan = reg
  /\ pc = "widen" => /\ widen # None
                     /\ registry[widen.field] # None
                     /\ registry[widen.field].type \notin {"json", "text"}
                     /\ Wider(registry[widen.field].type, widen.type)
  /\ state # None => state.seq <= changeSeq

LEMMA RowTypes ==
  ASSUME LogTypeOK, NEW i \in Ids
  PROVE  rows[i] \in Rows(RunIds) /\ seqOf[Endpoint][i] \in Nat /\ changeSeq \in Nat
BY EndpointAssumption DEF LogTypeOK, rows

LEMMA ShownRow ==
  ASSUME NEW row \in Rows(RunIds)
  PROVE  /\ Shown(row) \in Exhibit \cup {None}
         /\ row # None <=> Shown(row) # None
         /\ row # None => Shown(row).rev = row.rev
<1>1. CASE row = None
  BY <1>1 DEF Shown
<1>2. CASE row # None
  <2>1. row \in RowOf(RunIds)
    BY <1>2 DEF Rows
  <2>2. Shown(row) \in Exhibit /\ Shown(row).rev = row.rev
    BY <1>2, <2>1 DEF Shown, Exhibit, RowOf
  <2>3. QED
    BY <1>2, <2>1, <2>2, ShowsSomething
<1>3. QED
  BY <1>1, <1>2

(* A transaction of a fetch changes a row only under a number of its own.  *)
LEMMA WritingRows ==
  ASSUME RowsInv, Write
  PROVE  /\ RowsInv'
         /\ changeSeq \in Nat /\ changeSeq' \in Nat /\ changeSeq' >= changeSeq
         /\ \A i \in Ids :
              \/ /\ Shown(rows'[i]) = Shown(rows[i])
                 /\ seqOf'[Endpoint][i] = seqOf[Endpoint][i]
                 /\ (rows[i] = None) <=> (rows'[i] = None)
                 /\ rows[i] # None => rows'[i].rev = rows[i].rev
              \/ seqOf'[Endpoint][i] > changeSeq
<1>1. /\ LogInv' /\ LogTypeOK /\ LogTypeOK'
      /\ \A i \in Ids : (Stays(Endpoint, i) \/ Moves(Endpoint, i)) /\ Keeps(Endpoint, i)
      /\ \A i \in Ids : Bears(rows'[i], rows[i])
  BY WriteIsLogged, WritesBear, EndpointAssumption DEF RowsInv, LogInv, rows
<1>2. changeSeq \in Nat /\ changeSeq' \in Nat /\ changeSeq' >= changeSeq
  <2>1. changeSeq \in Nat /\ changeSeq' \in Nat
    BY <1>1 DEF LogTypeOK
  <2>2. QED
    BY <2>1 DEF Write, StorePage, StoreLookup
<1>3. ASSUME NEW i \in Ids
      PROVE  /\ \/ /\ Shown(rows'[i]) = Shown(rows[i])
                   /\ seqOf'[Endpoint][i] = seqOf[Endpoint][i]
                   /\ (rows[i] = None) <=> (rows'[i] = None)
                   /\ rows[i] # None => rows'[i].rev = rows[i].rev
                \/ seqOf'[Endpoint][i] > changeSeq
             /\ IF rows'[i] = None THEN seqOf'[Endpoint][i] = 0
                ELSE seqOf'[Endpoint][i] > 0 /\ rows'[i].rev \in Revs
  <2>1. /\ rows[i] \in Rows(RunIds) /\ rows'[i] \in Rows(RunIds)
        /\ seqOf[Endpoint][i] \in Nat /\ seqOf'[Endpoint][i] \in Nat
    BY <1>1, EndpointAssumption DEF LogTypeOK, rows
  <2>2. rows'[i] # None => rows'[i].rev \in Revs
    BY <1>1 DEF Bears, RowsInv
  <2>3. CASE Stays(Endpoint, i)
    <3>1. /\ Shown(rows'[i]) = Shown(rows[i])
          /\ seqOf'[Endpoint][i] = seqOf[Endpoint][i]
      BY <2>3 DEF Stays, rows
    <3>2. (rows[i] = None) <=> (rows'[i] = None)
      BY <2>1, <3>1, ShownRow
    <3>3. rows[i] # None => rows'[i].rev = rows[i].rev
      BY <2>1, <3>1, <3>2, ShownRow
    <3>4. QED
      BY <2>2, <3>1, <3>2, <3>3 DEF RowsInv
  <2>4. CASE Moves(Endpoint, i)
    <3>1. seqOf'[Endpoint][i] > changeSeq /\ Shown(rows'[i]) # Shown(rows[i])
      BY <2>4 DEF Moves, rows
    <3>2. rows'[i] # None
      <4>1. rows[i] # None => rows'[i] # None
        BY <1>1 DEF Keeps, rows
      <4>2. QED
        BY <3>1, <4>1
    <3>3. QED
      BY <1>2, <2>1, <2>2, <3>1, <3>2
  <2>5. QED
    BY <1>1, <2>3, <2>4
<1>4. RowsInv'
  BY <1>1, <1>3 DEF RowsInv
<1>5. QED
  BY <1>2, <1>3, <1>4

-----------------------------------------------------------------------------
(* Fields and their types.                                                 *)
LEMMA FieldIsNotNone == \A field \in RegisteredField : field # None
BY NothingAssumption

LEMMA WidestIsWider ==
  ASSUME NEW a \in Types, NEW b \in Types
  PROVE  Widest(a, b) \in Types /\ Wider(a, Widest(a, b))
BY DEF Widest, Wider, Types

(* A value is contradicted by no json and no text column.                  *)
LEMMA WidenedIsWider ==
  ASSUME NEW type \in Types, NEW class \in Classes, class \notin Takes(type)
  PROVE  /\ type \notin {"json", "text"}
         /\ WidenedFor(type, class) \in Types
         /\ Wider(type, WidenedFor(type, class))
<1>1. type \notin {"json", "text"}
  BY DEF Takes
<1>2. QED
  BY <1>1 DEF WidenedFor, Wider, Types

LEMMA HeldClasses ==
  ASSUME NEW fields \in Planned, NEW row, row.rev \in Revs, NEW f \in Fields
  PROVE  Held(fields, row, f) \subseteq Classes
<1>1. Content[row.rev][f] \in Value \cup {None}
  BY ContentAssumption DEF Revs
<1>2. QED
  BY <1>1 DEF Held, Elements, Value, Classes, Scalars

LEMMA MergedField ==
  ASSUME NEW current \in RegisteredField \cup {None},
         NEW incoming \in RegisteredField \cup {None}
  PROVE  /\ MergeField(current, incoming) \in RegisteredField \cup {None}
         /\ current # None =>
              /\ MergeField(current, incoming) # None
              /\ MergeField(current, incoming).kind = current.kind
              /\ Wider(current.type, MergeField(current, incoming).type)
<1> DEFINE new == MergeField(current, incoming)
<1>1. CASE current = None \/ incoming = None
  BY <1>1 DEF MergeField, Wider
<1>2. CASE current # None /\ incoming # None
  <2>1. /\ current \in RegisteredField /\ incoming \in RegisteredField
        /\ current.kind \in Kinds /\ current.type \in Types /\ incoming.type \in Types
    BY <1>2 DEF RegisteredField
  <2>2. PICK type \in Types : new = [current EXCEPT !.type = type] /\ Wider(current.type, type)
    <3>1. CASE incoming.kind # current.kind /\ current.kind = "column"
      <4>1. new = [current EXCEPT !.type = "json"]
        BY <1>2, <2>1, <3>1 DEF MergeField, RegisteredField
      <4>2. "json" \in Types /\ Wider(current.type, "json")
        BY DEF Types, Wider
      <4>3. QED
        BY <4>1, <4>2
    <3>2. CASE incoming.kind # current.kind /\ current.kind # "column"
      <4>1. new = [current EXCEPT !.type = current.type]
        BY <1>2, <2>1, <3>2 DEF MergeField, RegisteredField
      <4>2. QED
        BY <2>1, <4>1 DEF Wider
    <3>3. CASE incoming.kind = current.kind
      <4>1. new = [current EXCEPT !.type = Widest(current.type, incoming.type)]
        BY <1>2, <2>1, <3>3 DEF MergeField, RegisteredField
      <4>2. QED
        BY <2>1, <4>1, WidestIsWider
    <3>4. QED
      BY <3>1, <3>2, <3>3
  <2>3. new \in RegisteredField /\ new.kind = current.kind /\ new.type = type
    BY <2>1, <2>2 DEF RegisteredField
  <2>4. QED
    BY <2>2, <2>3, FieldIsNotNone
<1>3. QED
  BY <1>1, <1>2

(* A widening leaves the other fields and the kind alone.                  *)
LEMMA WidenedRegistry ==
  ASSUME NEW fields \in Planned, NEW f \in Fields, fields[f] # None, NEW type \in Types
  PROVE  LET new == [fields EXCEPT ![f].type = type]
         IN  /\ new \in Planned
             /\ \A g \in Fields \ {f} : new[g] = fields[g]
             /\ new[f] # None /\ new[f].kind = fields[f].kind /\ new[f].type = type
<1> DEFINE new == [fields EXCEPT ![f].type = type]
<1>1. fields[f] \in RegisteredField
  BY DEF Planned
<1>2. /\ new[f] = [fields[f] EXCEPT !.type = type]
      /\ \A g \in Fields \ {f} : new[g] = fields[g]
  BY DEF Planned
<1>3. new[f] \in RegisteredField /\ new[f].kind = fields[f].kind /\ new[f].type = type
  BY <1>1, <1>2 DEF RegisteredField
<1>4. new \in Planned
  BY <1>2, <1>3 DEF Planned
<1>5. new[f] # None
  BY <1>3, FieldIsNotNone
<1>6. QED
  BY <1>2, <1>3, <1>4, <1>5

-----------------------------------------------------------------------------
(* The steps of a sync *)

Inv == TypeOK /\ RowsInv /\ SyncInv

Widens == \A f \in Mapped(registry) :
            /\ registry'[f] # None /\ registry'[f].kind = registry[f].kind
            /\ Wider(registry[f].type, registry'[f].type)

LEMMA SameRegistry == UNCHANGED registry => Widens
BY DEF Widens, Wider, Mapped

LEMMA SameLog == Inv /\ UNCHANGED logVars => LogTypeOK' /\ RowsInv' /\ UNCHANGED rows
<1>1. UNCHANGED logVars => UNCHANGED rows /\ UNCHANGED <<bronze, seqOf, changeSeq>>
  BY DEF rows, logVars
<1>2. QED
  BY <1>1, LogStays DEF Inv, RowsInv, LogInv

LEMMA EmptyTypes == NoFields \in Planned
BY DEF NoFields, Planned

LEMMA SilverBegins == Init => Inv
<1>1. Init => LogInv
  BY LogBegins DEF Init
<1>2. Init => RowsInv
  BY <1>1, EndpointAssumption DEF Init, LogInit, RowsInv, rows
<1>3. Init => TypeOK
  <2>1. 0 \in 0..MaxRebuilds /\ 0 \in Nat
    BY BoundsAssumption
  <2>2. QED
    BY <1>1, <2>1, EmptyTypes DEF Init, TypeOK, LogInv
<1>4. Init => SyncInv
  BY DEF Init, SyncInv
<1>5. QED
  BY <1>2, <1>3, <1>4 DEF Inv

LEMMA MergePlanSteps ==
  ASSUME Inv, MergePlan
  PROVE  Inv' /\ Widens /\ Mapped(registry) \subseteq Mapped(registry')
<1> USE DEF Inv, TypeOK
<1>1. PICK plan \in Plans, force \in BOOLEAN :
        /\ registry' = IF plan = None THEN registry
                       ELSE [f \in Fields |-> MergeField(registry[f], plan[f])]
        /\ rebuild' = force
  BY DEF MergePlan
<1>2. registry' \in Planned /\ Widens
  <2>1. CASE plan = None
    BY <1>1, <2>1, SameRegistry
  <2>2. CASE plan # None
    <3>1. plan \in Planned
      BY <2>2, PlansAssumption
    <3>2. \A f \in Fields :
            /\ registry'[f] = MergeField(registry[f], plan[f])
            /\ registry[f] \in RegisteredField \cup {None}
            /\ plan[f] \in RegisteredField \cup {None}
      BY <1>1, <2>2, <3>1 DEF Planned
    <3>3. \A f \in Fields : registry'[f] \in RegisteredField \cup {None}
      BY <3>2, MergedField
    <3>4. registry' \in Planned
      BY <1>1, <2>2, <3>2, <3>3 DEF Planned
    <3>5. Widens
      BY <3>2, MergedField DEF Widens, Mapped
    <3>6. QED
      BY <3>4, <3>5
  <2>3. QED
    BY <2>1, <2>2
<1>3. Mapped(registry) \subseteq Mapped(registry')
  BY <1>2 DEF Widens, Mapped
<1>4. LogTypeOK' /\ RowsInv'
  BY SameLog DEF MergePlan
<1>5. TypeOK'
  BY <1>1, <1>2, <1>4, BoundsAssumption DEF MergePlan
<1>6. SyncInv'
  BY BoundsAssumption DEF MergePlan, SyncInv, logVars
<1>7. QED
  BY <1>2, <1>3, <1>4, <1>5, <1>6

LEMMA CheckPlanSteps ==
  ASSUME Inv, CheckPlan
  PROVE  Inv'
<1> USE DEF Inv
<1>1. LogTypeOK' /\ RowsInv'
  BY SameLog DEF CheckPlan
<1>2. TypeOK'
  BY <1>1 DEF TypeOK, CheckPlan, dbVars, NeedsRebuild
<1>3. SyncInv'
  BY DEF CheckPlan, SyncInv, NeedsRebuild, dbVars, logVars
<1>4. QED
  BY <1>1, <1>2, <1>3

LEMMA ContradictedSteps ==
  ASSUME Inv, Contradicted
  PROVE  Inv'
<1> USE DEF Inv
<1>1. LogTypeOK' /\ RowsInv'
  BY SameLog DEF Contradicted
<1>2. PICK i \in Batch, f \in Mapped(reg) :
        \E class \in Strays(i, f) : widen' = [field |-> f, type |-> WidenedFor(reg[f].type, class)]
  BY DEF Contradicted, Misfits
<1>3. PICK class \in Strays(i, f) :
        widen' = [field |-> f, type |-> WidenedFor(reg[f].type, class)]
  BY <1>2
<1>4. f \in Fields /\ reg[f] # None /\ class \in Classes /\ class \notin Takes(reg[f].type)
  <2>1. i \in Ids /\ rows[i] # None /\ f \in Fields /\ reg[f] # None
    BY DEF Batch, Stored, rows, Mapped
  <2>2. Held(reg, rows[i], f) \subseteq Classes
    BY <2>1, HeldClasses DEF RowsInv, TypeOK
  <2>3. QED
    BY <2>1, <2>2 DEF Strays
<1>5. reg[f].type \in Types
  BY <1>4 DEF TypeOK, Planned, RegisteredField
<1>6. /\ reg[f].type \notin {"json", "text"}
      /\ widen'.type \in Types /\ widen'.field = f
      /\ Wider(reg[f].type, widen'.type)
  BY <1>3, <1>4, <1>5, WidenedIsWider
<1>7. widen' \in Widening /\ widen' # None
  <2>1. widen' \in Widening
    BY <1>3, <1>4, <1>5, WidenedIsWider DEF Widening
  <2>2. QED
    BY <2>1, NothingAssumption
<1>8. TypeOK'
  BY <1>1, <1>7 DEF TypeOK, Contradicted, dbVars
<1>9. reg = registry /\ attempts < MaxRebuilds /\ UNCHANGED <<reg, registry, attempts, changeSeq, state>>
  BY DEF Contradicted, SyncInv, dbVars, logVars
<1>10. SyncInv'
  <2>1. pc' = "widen"
    BY DEF Contradicted
  <2>2. QED
    BY <1>4, <1>6, <1>7, <1>9, <2>1 DEF SyncInv
<1>11. QED
  BY <1>1, <1>8, <1>10

LEMMA WidenSteps ==
  ASSUME Inv, Widen
  PROVE  Inv' /\ Widens /\ Mapped(registry') = Mapped(registry)
<1> USE DEF Inv
<1>1. LogTypeOK' /\ RowsInv'
  BY SameLog DEF Widen
<1>2. /\ widen # None /\ registry[widen.field] # None
      /\ Wider(registry[widen.field].type, widen.type)
      /\ widen \in Widening /\ registry \in Planned
  BY DEF Widen, SyncInv, TypeOK
<1>3. widen.field \in Fields /\ widen.type \in Types
  BY <1>2 DEF Widening
<1>4. /\ registry' \in Planned
      /\ \A g \in Fields \ {widen.field} : registry'[g] = registry[g]
      /\ registry'[widen.field] # None
      /\ registry'[widen.field].kind = registry[widen.field].kind
      /\ registry'[widen.field].type = widen.type
      /\ Mapped(registry') = Mapped(registry)
  <2>1. registry' = [registry EXCEPT ![widen.field].type = widen.type]
    BY DEF Widen
  <2> DEFINE new == [registry EXCEPT ![widen.field].type = widen.type]
  <2>2. /\ new \in Planned
        /\ \A g \in Fields \ {widen.field} : new[g] = registry[g]
        /\ new[widen.field] # None
        /\ new[widen.field].kind = registry[widen.field].kind
        /\ new[widen.field].type = widen.type
    BY <1>2, <1>3, WidenedRegistry
  <2> HIDE DEF new
  <2>3. registry' = new
    BY <2>1 DEF new
  <2>4. \A g \in Fields : registry'[g] # None <=> registry[g] # None
    BY <1>2, <2>2, <2>3
  <2>5. QED
    BY <2>2, <2>3, <2>4 DEF Mapped
<1>5. Widens
  BY <1>2, <1>3, <1>4 DEF Widens, Mapped, Wider
<1>6. attempts' \in 0..MaxRebuilds
  BY BoundsAssumption DEF Widen, SyncInv, TypeOK
<1>7. TypeOK'
  BY <1>1, <1>4, <1>6, EmptyTypes DEF TypeOK, Widen
<1>8. SyncInv'
  BY <1>6, BoundsAssumption DEF Widen, SyncInv, logVars
<1>9. QED
  BY <1>1, <1>4, <1>5, <1>7, <1>8

LEMMA EndSteps ==
  ASSUME Inv, Overflow \/ Crash
  PROVE  Inv' /\ UNCHANGED registry
<1> USE DEF Inv
<1>1. LogTypeOK' /\ RowsInv' /\ UNCHANGED <<changeSeq, state, registry>>
  BY SameLog DEF Overflow, Crash, logVars, dbVars
<1>2. TypeOK'
  <2>1. UNCHANGED <<table, unmapped, attempts>> /\ pc' = "idle" /\ reg' = NoFields /\ rebuild' = FALSE
    BY DEF Overflow, Crash, dbVars
  <2>2. widen' \in {widen, None} /\ crashes' \in Nat
    BY DEF Overflow, Crash, TypeOK
  <2>3. QED
    BY <1>1, <2>1, <2>2, EmptyTypes DEF TypeOK
<1>3. SyncInv'
  BY <1>1 DEF Overflow, Crash, SyncInv
<1>4. QED
  BY <1>1, <1>2, <1>3

LEMMA WritingSteps ==
  ASSUME Inv, Writing
  PROVE  Inv' /\ UNCHANGED registry
<1> USE DEF Inv
<1>1. RowsInv' /\ LogTypeOK' /\ changeSeq \in Nat /\ changeSeq' \in Nat /\ changeSeq' >= changeSeq
  BY WritingRows DEF Writing, RowsInv, LogInv
<1>2. UNCHANGED <<registry, table, state, unmapped, pc, reg, rebuild, widen, attempts, crashes>>
  BY DEF Writing, dbVars, syncVars
<1>3. TypeOK'
  BY <1>1, <1>2 DEF TypeOK
<1>4. state # None => state.seq \in Nat
  BY DEF TypeOK, State
<1>5. SyncInv'
  BY <1>1, <1>2, <1>4 DEF SyncInv
<1>6. QED
  BY <1>1, <1>2, <1>3, <1>5

-----------------------------------------------------------------------------
(* The transaction that rewrites the tables.  The rows left out of the     *)
(* batch are those the tables show already.                                *)

TablesInv == SyncedUpToSeq /\ TablesTakeTheirValues

LEMMA RestIsShown ==
  ASSUME Inv, TablesInv, Apply
  PROVE  /\ ~rebuild => table # None /\ state # None /\ table.fields = reg /\ state.plan = reg
         /\ \A i \in Ids \ Batch : IF rebuild THEN rows[i] = None
                                  ELSE table.rows[i] = Shown(rows[i])
         /\ \A i \in Ids \ Batch : ~rebuild => seqOf[Endpoint][i] <= state.seq
<1> USE DEF Inv
<1>1. ~rebuild => table # None /\ state # None /\ table.fields = reg /\ state.plan = reg
  BY DEF Apply, SyncInv, TablesInv, SyncedUpToSeq
<1>2. ASSUME NEW i \in Ids \ Batch, rebuild PROVE rows[i] = None
  <2>1. Since = 0 /\ (rows[i] # None => seqOf[Endpoint][i] > 0)
    BY <1>2 DEF Since, RowsInv
  <2>2. QED
    BY <2>1 DEF Batch, Stored, rows
<1>3. ASSUME NEW i \in Ids \ Batch, ~rebuild
      PROVE  table.rows[i] = Shown(rows[i]) /\ seqOf[Endpoint][i] <= state.seq
  <2>1. Since = state.seq /\ state.seq \in Nat
    BY <1>1, <1>3 DEF Since, TypeOK, State
  <2>2. seqOf[Endpoint][i] \in Nat
    BY RowTypes DEF TypeOK
  <2>3. ~(seqOf[Endpoint][i] > state.seq)
    <3>1. CASE rows[i] = None
      BY <2>1, <2>2, <3>1 DEF RowsInv
    <3>2. CASE rows[i] # None
      BY <2>1, <3>2 DEF Batch, Stored, rows
    <3>3. QED
      BY <3>1, <3>2
  <2>4. table.rows[i] = Shown(rows[i])
    BY <1>1, <1>3, <2>3 DEF TablesInv, SyncedUpToSeq
  <2>5. QED
    BY <2>1, <2>2, <2>3, <2>4
<1>4. QED
  BY <1>1, <1>2, <1>3

(* After it they show what bronze shows.                                   *)
LEMMA ApplySteps ==
  ASSUME Inv, TablesInv, Apply
  PROVE  /\ Inv' /\ UNCHANGED <<registry, rows>>
         /\ table' # None /\ table'.fields = reg /\ state'.plan = reg
         /\ \A i \in Ids : /\ table'.rows[i] = Shown(rows[i])
                           /\ seqOf'[Endpoint][i] <= state'.seq
<1> USE DEF Inv
<1>1. /\ LogTypeOK' /\ RowsInv' /\ UNCHANGED <<rows, seqOf, changeSeq, registry>>
  BY SameLog DEF Apply, logVars
<1> DEFINE old == IF rebuild THEN [i \in Ids |-> None] ELSE table.rows
           new == [i \in Ids |-> IF i \in Batch THEN Shown(rows[i]) ELSE old[i]]
<1>2. table' = [fields |-> reg, rows |-> new]
  BY RestIsShown DEF Apply
<1>3. \A i \in Ids : new[i] = Shown(rows[i])
  <2>1. \A i \in Ids \ Batch : old[i] = Shown(rows[i])
    BY RestIsShown DEF Shown
  <2>2. QED
    BY <2>1
<1>4. new \in [Ids -> Exhibit \cup {None}]
  BY <1>3, RowTypes, ShownRow DEF TypeOK
<1> HIDE DEF new
<1>5. table' \in Tables /\ table' # None /\ table'.fields = reg /\ table'.rows = new
  <2>1. table' \in Tables
    BY <1>2, <1>4 DEF Tables, TypeOK
  <2>2. QED
    BY <1>2, <2>1, NothingAssumption
<1>6. PICK top \in LatestSeq(Endpoint) : state' = [seq |-> top, plan |-> reg]
  BY DEF Apply
<1>7. top \in Nat /\ top <= changeSeq /\ \A i \in Ids : seqOf[Endpoint][i] <= top
  <2>1. \A i \in Ids : seqOf[Endpoint][i] \in Nat /\ seqOf[Endpoint][i] <= changeSeq
    BY EndpointAssumption DEF RowsInv, LogInv, LogTypeOK
  <2>2. changeSeq \in Nat
    BY DEF TypeOK, LogTypeOK
  <2>3. QED
    BY <2>1, <2>2 DEF LatestSeq
<1>8. state' \in State /\ state' # None /\ state'.seq = top /\ state'.plan = reg
  <2>1. state' \in State
    BY <1>6, <1>7 DEF State, TypeOK
  <2>2. QED
    BY <1>6, <2>1, NothingAssumption
<1>9. unmapped' \subseteq Fields
  BY DEF Apply, Unknown, TypeOK
<1>10. TypeOK'
  BY <1>1, <1>5, <1>8, <1>9, EmptyTypes DEF TypeOK, Apply
<1>11. SyncInv'
  BY <1>1, <1>7, <1>8 DEF Apply, SyncInv
<1>12. QED
  BY <1>1, <1>3, <1>5, <1>7, <1>8, <1>10, <1>11

LEMMA AppliedTables ==
  ASSUME Inv, TablesInv, Apply
  PROVE  TablesInv'
<1> USE DEF Inv
<1>1. /\ Inv' /\ UNCHANGED <<registry, rows>>
      /\ table' # None /\ table'.fields = reg /\ state'.plan = reg
      /\ \A i \in Ids : table'.rows[i] = Shown(rows[i]) /\ seqOf'[Endpoint][i] <= state'.seq
  BY ApplySteps
<1>2. UNCHANGED <<seqOf, bronze>> /\ reg = registry /\ reg \in Planned
  BY DEF Apply, logVars, SyncInv, TypeOK
<1>3. ASSUME NEW i \in Stored(Endpoint)
      PROVE  {f \in Fields : Content[rows[i].rev][f] # None}
               \subseteq Mapped(reg) \cup Mapped(registry) \cup unmapped'
  <2>1. i \in Ids /\ rows[i] # None
    BY DEF Stored, rows
  <2>2. CASE i \in Batch
    BY <1>2, <2>2 DEF Apply, Unknown
  <2>3. CASE i \notin Batch
    <3>1. ~rebuild /\ state # None /\ state.plan = reg /\ seqOf[Endpoint][i] <= state.seq
      BY <2>1, <2>3, RestIsShown
    <3>2. {f \in Fields : Content[rows[i].rev][f] # None}
            \subseteq Mapped(reg) \cup Mapped(registry) \cup unmapped
      BY <3>1 DEF TablesInv, SyncedUpToSeq
    <3>3. QED
      BY <1>2, <3>1, <3>2 DEF Apply
  <2>4. QED
    BY <2>2, <2>3
<1>4. SyncedUpToSeq'
  BY <1>1, <1>2, <1>3 DEF SyncedUpToSeq, Stored
<1>5. ASSUME NEW i \in Ids, table'.rows[i] # None, NEW f \in Mapped(reg)
      PROVE  Held(reg, table'.rows[i], f) \subseteq Takes(reg[f].type)
  <2>1. rows[i] \in Rows(RunIds) /\ table'.rows[i] = Shown(rows[i])
    BY <1>1, RowTypes DEF TypeOK
  <2>2. rows[i] # None /\ table'.rows[i].rev = rows[i].rev
    BY <1>5, <2>1, ShownRow
  <2>3. Held(reg, table'.rows[i], f) = Held(reg, rows[i], f)
    BY <2>2 DEF Held
  <2>4. rows[i].rev \in Revs /\ f \in Fields
    BY <2>2 DEF RowsInv, Mapped
  <2>5. Held(reg, rows[i], f) \subseteq Classes
    BY <1>2, <2>4, HeldClasses
  <2>6. CASE i \in Batch
    <3>1. ASSUME NEW class \in Held(reg, rows[i], f), class \notin Takes(reg[f].type) PROVE FALSE
      <4>1. Misfits(i) = {} /\ ~TooLarge(i, "real") /\ ~TooLarge(i, "integer")
        BY <2>6 DEF Apply, StopsAt
      <4>2. class \notin Overflows(reg[f].type)
        BY <1>5, <3>1, <4>1 DEF TooLarge, Overflows
      <4>3. class \in Strays(i, f)
        BY <3>1, <4>2 DEF Strays
      <4>4. QED
        BY <1>5, <4>1, <4>3 DEF Misfits
    <3>2. QED
      BY <2>3, <3>1
  <2>7. CASE i \notin Batch
    <3>1. /\ ~rebuild /\ table # None /\ table.fields = reg
          /\ table.rows[i] = Shown(rows[i]) /\ table.rows[i] # None
      BY <2>1, <2>2, <2>7, RestIsShown, ShownRow
    <3>2. Held(reg, table.rows[i], f) \subseteq Takes(reg[f].type)
      BY <3>1 DEF TablesInv, TablesTakeTheirValues
    <3>3. QED
      BY <2>1, <3>1, <3>2
  <2>8. QED
    BY <2>6, <2>7
<1>6. TablesTakeTheirValues'
  BY <1>1, <1>5 DEF TablesTakeTheirValues
<1>7. QED
  BY <1>4, <1>6 DEF TablesInv

(* Nothing else touches the tables, and the fields bronze gains meanwhile  *)
(* are in rows past the number.                                            *)
LEMMA KeptTables ==
  ASSUME Inv, TablesInv, UNCHANGED <<table, state, unmapped>>,
         Mapped(registry) \subseteq Mapped(registry'),
         UNCHANGED logVars \/ Write
  PROVE  TablesInv'
<1>1. TablesTakeTheirValues'
  BY DEF TablesInv, TablesTakeTheirValues
<1>2. ASSUME NEW i \in Ids
      PROVE  \/ /\ Shown(rows'[i]) = Shown(rows[i])
                /\ seqOf'[Endpoint][i] = seqOf[Endpoint][i]
                /\ (rows[i] = None) <=> (rows'[i] = None)
                /\ rows[i] # None => rows'[i].rev = rows[i].rev
             \/ seqOf'[Endpoint][i] > changeSeq
  <2>1. CASE UNCHANGED logVars
    BY <2>1 DEF logVars, rows
  <2>2. CASE Write
    BY <2>2, WritingRows DEF Inv
  <2>3. QED
    BY <2>1, <2>2
<1>3. /\ changeSeq \in Nat
      /\ state # None => state.seq \in Nat /\ state.seq <= changeSeq
      /\ \A i \in Ids : seqOf'[Endpoint][i] \in Nat
  <2>1. LogTypeOK /\ LogTypeOK'
    BY WritingRows, LogStays DEF Inv, TypeOK, RowsInv, LogInv
  <2>2. QED
    BY <2>1, EndpointAssumption DEF Inv, TypeOK, State, SyncInv, LogTypeOK
<1>4. SyncedUpToSeq'
  <2>1. SUFFICES ASSUME state # None
        PROVE /\ table # None /\ table.fields = state.plan
              /\ \A i \in Ids : table.rows[i] = Shown(rows'[i]) \/ seqOf'[Endpoint][i] > state.seq
              /\ \A i \in Stored(Endpoint)' : seqOf'[Endpoint][i] <= state.seq =>
                   {f \in Fields : Content[rows'[i].rev][f] # None}
                     \subseteq Mapped(state.plan) \cup Mapped(registry') \cup unmapped
    BY DEF SyncedUpToSeq
  <2>2. /\ table # None /\ table.fields = state.plan
        /\ \A i \in Ids : table.rows[i] = Shown(rows[i]) \/ seqOf[Endpoint][i] > state.seq
        /\ \A i \in Stored(Endpoint) : seqOf[Endpoint][i] <= state.seq =>
             {f \in Fields : Content[rows[i].rev][f] # None}
               \subseteq Mapped(state.plan) \cup Mapped(registry) \cup unmapped
    BY <2>1 DEF TablesInv, SyncedUpToSeq
  <2>3. \A i \in Ids : seqOf'[Endpoint][i] > changeSeq => seqOf'[Endpoint][i] > state.seq
    BY <1>3, <2>1
  <2>4. \A i \in Ids : table.rows[i] = Shown(rows'[i]) \/ seqOf'[Endpoint][i] > state.seq
    BY <1>2, <2>2, <2>3
  <2>5. ASSUME NEW i \in Stored(Endpoint)', seqOf'[Endpoint][i] <= state.seq
        PROVE  {f \in Fields : Content[rows'[i].rev][f] # None}
                 \subseteq Mapped(state.plan) \cup Mapped(registry') \cup unmapped
    <3>1. i \in Ids /\ rows'[i] # None
      BY DEF Stored, rows
    <3>2. ~(seqOf'[Endpoint][i] > changeSeq)
      BY <1>3, <2>1, <2>5, <3>1
    <3>3. rows[i] # None /\ rows'[i].rev = rows[i].rev /\ seqOf'[Endpoint][i] = seqOf[Endpoint][i]
      BY <1>2, <3>1, <3>2
    <3>4. i \in Stored(Endpoint)
      BY <3>1, <3>3 DEF Stored, rows
    <3>5. QED
      BY <2>2, <2>5, <3>3, <3>4
  <2>6. QED
    BY <2>2, <2>4, <2>5
<1>5. QED
  BY <1>1, <1>4 DEF TablesInv

-----------------------------------------------------------------------------
LEMMA NextSteps ==
  ASSUME Inv, TablesInv, [Next]_vars
  PROVE  Inv' /\ TablesInv' /\ Widens
<1>1. CASE Writing
  <2>1. Inv' /\ Widens /\ Write /\ UNCHANGED <<table, state, unmapped, registry>>
    BY <1>1, WritingSteps, SameRegistry DEF Writing, dbVars
  <2>2. QED
    BY <2>1, KeptTables
<1>2. CASE MergePlan
  BY <1>2, MergePlanSteps, KeptTables DEF MergePlan
<1>3. CASE CheckPlan
  <2>1. Inv' /\ UNCHANGED <<table, state, unmapped, registry, logVars>>
    BY <1>3, CheckPlanSteps DEF CheckPlan, dbVars
  <2>2. QED
    BY <2>1, KeptTables, SameRegistry
<1>4. CASE Apply
  BY <1>4, ApplySteps, AppliedTables, SameRegistry
<1>5. CASE Contradicted
  <2>1. Inv' /\ UNCHANGED <<table, state, unmapped, registry, logVars>>
    BY <1>5, ContradictedSteps DEF Contradicted, dbVars
  <2>2. QED
    BY <2>1, KeptTables, SameRegistry
<1>6. CASE Widen
  <2>1. UNCHANGED <<table, state, unmapped, logVars>>
    BY <1>6 DEF Widen
  <2>2. QED
    BY <1>6, <2>1, WidenSteps, KeptTables
<1>7. CASE Overflow \/ Crash
  <2>1. Inv' /\ UNCHANGED <<table, state, unmapped, registry, logVars>>
    BY <1>7, EndSteps DEF Overflow, Crash, dbVars
  <2>2. QED
    BY <2>1, KeptTables, SameRegistry
<1>8. CASE UNCHANGED vars
  <2>1. UNCHANGED <<table, state, unmapped, registry, logVars>>
    BY <1>8 DEF vars, dbVars
  <2>2. Inv'
    <3>1. LogTypeOK' /\ RowsInv'
      BY <2>1, SameLog
    <3>2. TypeOK' /\ SyncInv'
      BY <1>8, <3>1 DEF Inv, TypeOK, SyncInv, vars, dbVars, syncVars, logVars
    <3>3. QED
      BY <3>1, <3>2 DEF Inv
  <2>3. QED
    BY <2>1, <2>2, KeptTables, SameRegistry
<1>9. QED
  BY <1>1, <1>2, <1>3, <1>4, <1>5, <1>6, <1>7, <1>8 DEF Next, Sync

LEMMA InvHolds == Spec => [](Inv /\ TablesInv)
<1>1. Init => Inv /\ TablesInv
  <2>1. Init => TablesInv
    BY DEF Init, TablesInv, SyncedUpToSeq, TablesTakeTheirValues
  <2>2. QED
    BY <2>1, SilverBegins
<1>2. Inv /\ TablesInv /\ [Next]_vars => (Inv /\ TablesInv)'
  BY NextSteps
<1>3. QED
  BY <1>1, <1>2, PTL DEF Spec

(* The tables, the registry, the position and what a sync has loaded keep  *)
(* their types: no field is widened to none, no attempt is made past       *)
(* MAX_REBUILDS.                                                           *)
THEOREM TypeCorrect == Spec => []TypeOK
<1>1. Inv => TypeOK
  BY DEF Inv
<1>2. QED
  BY <1>1, InvHolds, PTL

(* The tables hold what the sync position claims, wherever a sync stops    *)
(* and whatever the spec and bronze do before the next.                    *)
THEOREM PositionIsTrue == Spec => []SyncedUpToSeq
<1>1. TablesInv => SyncedUpToSeq
  BY DEF TablesInv
<1>2. QED
  BY <1>1, InvHolds, PTL

(* No column holds a value its type does not take, for any payloads.       *)
THEOREM ColumnsTakeTheirValues == Spec => []TablesTakeTheirValues
<1>1. TablesInv => TablesTakeTheirValues
  BY DEF TablesInv
<1>2. QED
  BY <1>1, InvHolds, PTL

(* A field stays, keeps its kind, and its type only widens.                *)
THEOREM TypesOnlyWiden == Spec => FieldsOnlyWiden
<1>1. Inv /\ TablesInv /\ [Next]_vars =>
        [\A f \in Mapped(registry) :
           /\ registry'[f] # None /\ registry'[f].kind = registry[f].kind
           /\ Wider(registry[f].type, registry'[f].type)]_vars
  BY NextSteps DEF Widens
<1>2. QED
  BY <1>1, InvHolds, PTL DEF Spec, FieldsOnlyWiden
=============================================================================
