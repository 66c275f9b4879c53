----------------------------- MODULE Aggregates -----------------------------
(***************************************************************************)
(* evaluation/aggregate.py: a metric at group level, the mean of the means *)
(* of the families.  A mean within a family is kept as Scale times itself, *)
(* exact for families whose size divides Scale, and a mean over families   *)
(* as the sum it is taken of.                                              *)
(***************************************************************************)
EXTENDS Integers, FiniteSets, FiniteSetsExt, Functions

CONSTANT Undefined      \* a metric that is None

Scale == 12

\* Of the questions of a family (stopping_gate.MAJORITY).
MAJORITY == 2

\* Records without the metric are skipped, and a group without a value does
\* not count.
GroupsOf(records, Value(_)) ==
    {r.family_id : r \in {x \in records : Value(x) # Undefined}}

GroupMean(records, g, Value(_)) ==
    LET own == {r \in records : r.family_id = g /\ Value(r) # Undefined} IN
    (Scale * SumFunction([r \in own |-> Value(r)])) \div Cardinality(own)

group_level(records, Value(_)) ==
    [sum |-> SumFunction([g \in GroupsOf(records, Value) |-> GroupMean(records, g, Value)]),
     groups |-> Cardinality(GroupsOf(records, Value))]

BelowMean(x, y) == x.sum * y.groups < y.sum * x.groups
=============================================================================
