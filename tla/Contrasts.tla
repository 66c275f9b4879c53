----------------------------- MODULE Contrasts -----------------------------
(***************************************************************************)
(* evaluation/analysis.py: from judged answers and automatic metrics to    *)
(* verdicts.  The family is the unit, and means are kept as in Aggregates: *)
(* exact, where the code's are floats, which fall on either side of the    *)
(* margin when the exact mean is the margin.  The margin is one quarter.   *)
(***************************************************************************)
EXTENDS Aggregates

CONSTANTS DirectionH1, DirectionH2  \* families that must favour the treatment

FamiliesIn(rows) == {r.group_id : r \in rows}

OfArm(rows, a) == {r \in rows : r.arm = a}

OfFamilyAndArm(rows, f, a) == {r \in rows : r.group_id = f /\ r.arm = a}

\* family_table, of the score; a plausible bug weighs a family by its size.
FamilyTotal(rows, f, a) ==
    Scale * SumFunction([r \in OfFamilyAndArm(rows, f, a) |-> r.score])

FamilyMean(rows, f, a) ==
    LET own == OfFamilyAndArm(rows, f, a) IN
    (Scale * SumFunction([r \in own |-> r.score])) \div Cardinality(own)

Difference(rows, t, b, f) == FamilyMean(rows, f, t) - FamilyMean(rows, f, b)

\* The families that carry both arms.
Paired(rows, t, b) ==
    {f \in FamiliesIn(rows) : OfFamilyAndArm(rows, f, t) # {} /\ OfFamilyAndArm(rows, f, b) # {}}

contrast(rows, t, b) ==
    LET families == Paired(rows, t, b) IN
    [families |-> Cardinality(families),
     sum |-> SumFunction([f \in families |-> Difference(rows, t, b, f)]),
     better |-> Cardinality({f \in families : Difference(rows, t, b, f) > 0}),
     worse |-> Cardinality({f \in families : Difference(rows, t, b, f) < 0})]

Magnitude(n) == IF n < 0 THEN -n ELSE n

\* Four times the paired mean, against the margin's own four quarters.
ExceedsInSize(c) == 4 * Magnitude(c.sum) > Scale * c.families

Exceeds(c) == 4 * c.sum > Scale * c.families

decide(c, direction_required) ==
    LET direction == c.better >= direction_required
    IN IF Exceeds(c) /\ direction THEN "supported"
       ELSE IF Exceeds(c) \/ direction THEN "suggestive" ELSE "not supported"

decide_within_margin(c) ==
    [within |-> ~ ExceedsInSize(c),
     higher |-> IF c.sum > 0 THEN "treatment" ELSE IF c.sum < 0 THEN "baseline" ELSE "none",
     consistent |-> IF c.sum > 0 THEN c.better ELSE IF c.sum < 0 THEN c.worse ELSE 0]

\* The contrast with each family left out.
leave_one_family_out(rows, t, b) ==
    [f \in Paired(rows, t, b) |-> contrast({r \in rows : r.group_id # f}, t, b)]

\* rate_by_arm: the families with any hit, and those hit throughout.
AnyHit(rows, a, Hit(_)) ==
    {f \in FamiliesIn(rows) : \E r \in OfFamilyAndArm(rows, f, a) : Hit(r)}

AllHit(rows, a, Hit(_)) ==
    {f \in FamiliesIn(OfArm(rows, a)) : \A r \in OfFamilyAndArm(rows, f, a) : Hit(r)}

select(rows, behaviours) == {r \in rows : r.expected_behaviour \in behaviours}

SUPERSESSION == {"cite_current_only"}
LIVE_DISAGREEMENT == {"surface_both_and_escalate", "prefer_stricter_and_escalate"}
COMPATIBLE_CONTROL == {"answer_without_flagging_conflict"}
GAPS == {"abstain"}

---------------------------------------------------------------------------
\* A is below every other arm, and these are alike.
H1(rows) ==
    LET own == select(rows, SUPERSESSION)
        rest == {r.arm : r \in rows} \ {"A"}
    IN IF /\ \A a \in rest : decide(contrast(own, a, "A"), DirectionH1) = "supported"
          /\ \A a, b \in rest : decide_within_margin(contrast(own, a, b)).within
       THEN "supported" ELSE "not supported"

H2(rows) == decide(contrast(select(rows, LIVE_DISAGREEMENT), "D", "B"), DirectionH2)

H2c(rows) ==
    LET flagged(a) == Cardinality(AnyHit(select(rows, COMPATIBLE_CONTROL), a,
                                         LAMBDA r : r.asserts_conflict))
    IN IF flagged("D") <= flagged("B") THEN "not supported" ELSE "supported"

H4(rows) ==
    LET held(a) == Cardinality(AllHit(select(rows, GAPS), a, LAMBDA r : r.abstained))
    IN IF \A a \in {r.arm : r \in rows} \ {"D"} : held("D") > held(a)
       THEN "supported" ELSE "not supported"

\* contrast raises on arms that share no family, also with one left out.
Undecidable(rows) ==
    \E own \in {select(rows, SUPERSESSION), select(rows, LIVE_DISAGREEMENT)} :
        \E a, b \in {"A", "B", "D"} : Cardinality(Paired(own, a, b)) < 2

---------------------------------------------------------------------------
\* citation_metrics, over the answers that make a claim.
makes_a_claim(records) == {r \in records : ~ r.served_abstention}

support_below_validity(records) ==
    LET claiming == makes_a_claim(records) IN
    BelowMean(group_level(claiming, LAMBDA r : r.citation_support),
              group_level(claiming, LAMBDA r : r.valid))

\* A mean over nothing is None, and cannot be compared.
Unmeasured(records) ==
    LET claiming == makes_a_claim(records) IN
    \/ GroupsOf(claiming, LAMBDA r : r.citation_support) = {}
    \/ GroupsOf(claiming, LAMBDA r : r.valid) = {}

H3(runs) ==
    IF \A records \in runs : support_below_validity(records)
    THEN "supported" ELSE "not supported"
=============================================================================
