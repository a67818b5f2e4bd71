------------------------------ MODULE MCSilver ------------------------------
(* One endpoint, two records, two fields that the payloads contradict in   *)
(* turn, and specs that add a field, change its type or its kind.          *)
EXTENDS Silver, TLC

MCEndpoints == {"styles"}
MCRunIds == {1}
MCIds == {1, 2}
MCFields == {"a", "b"}
MCVersions == {[mod |-> 1, rev |-> 1], [mod |-> 2, rev |-> 2],
               [mod |-> 3, rev |-> 3], [mod |-> 3, rev |-> 4]}

One(class) == [many |-> FALSE, of |-> {class}]
Null == [many |-> FALSE, of |-> {}]
Many(classes) == [many |-> TRUE, of |-> classes]

MCContent ==
  1 :> [a |-> One("int"), b |-> One("bool")] @@
  2 :> [a |-> One("frac"), b |-> Many({"int", "date"})] @@
  3 :> [a |-> One("huge"), b |-> Null] @@
  4 :> [a |-> One("vast"), b |-> None]

(* The payloads without an integer that is no float.                       *)
MCFloats == {v \in MCVersions : v.rev # 4}
MCFloatContent == [rev \in 1..3 |-> MCContent[rev]]

Column(type) == [kind |-> "column", type |-> type]

MCPlans ==
  { [a |-> Column("integer"), b |-> None],
    [a |-> Column("real"), b |-> Column("boolean")],
    [a |-> None, b |-> [kind |-> "list", type |-> "integer"]],
    None }
=============================================================================
