---------------------------- MODULE StoppingGate ----------------------------
(***************************************************************************)
(* evaluation/stopping_gate.py: what the development gate counts in the    *)
(* records of an arm D run, and what it decides.  A record says of its     *)
(* verification whether a conflict was detected, the relationship, and     *)
(* whether parsing failed; of the answer served whether it is a revision,  *)
(* one the guard rejected, the template, and whether it cites validly.     *)
(***************************************************************************)
EXTENDS Aggregates

CONSTANTS
    Families,           \* family -> [is_conflict, expected]: the registry
    DETECTION_REQUIRED, PARSE_FAILURES_ALLOWED,
    Whole,              \* a completeness of 1: it is rounded to four decimals
    Tolerance           \* CITATION_COMPLETENESS_TOLERANCE, in Scale-ths of those

ASSUME GateConstants ==
    /\ \A f \in DOMAIN Families : Families[f].is_conflict \in BOOLEAN
    /\ {DETECTION_REQUIRED, PARSE_FAILURES_ALLOWED, Whole, Tolerance} \subseteq Nat
    /\ Undefined \notin 0 .. Whole

\* The part of an answer's claims that carry a citation, if it has any claim.
IsMeasured(records) ==
    /\ IsFiniteSet(records)
    /\ \A r \in records : r.completeness \in (0 .. Whole) \cup {Undefined}

AnswerFields ==
    {"question_id", "family_id", "conflict_detected", "parse_failed", "completeness",
     "answer_revised", "revision_rejected", "served_abstention", "cites",
     "has_valid_citation_ids", "category", "expected", "retrieved"}

\* A run answers a question once.
IsRun(records) ==
    /\ IsMeasured(records)
    /\ \A r \in records : r = [field \in AnswerFields |-> r[field]]
    /\ \A r, s \in records : r.question_id = s.question_id => r = s

OfFamily(records, f) == {r \in records : r.family_id = f}

\* The registered families the records are of; none, without a registry.
FamiliesOf(records) == {r.family_id : r \in records} \cap DOMAIN Families

Detected(records, f) == Cardinality({r \in OfFamily(records, f) : r.conflict_detected})

Needed(records, f) == Min({MAJORITY, Cardinality(OfFamily(records, f))})

\* A plausible bug: a majority, and not one more.
detected_exactly(records, f) == Detected(records, f) = Needed(records, f)

detected_by_majority(records, f) == Detected(records, f) >= Needed(records, f)

genuine(records) == {f \in FamiliesOf(records) : Families[f].is_conflict}

controls(records) == FamiliesOf(records) \ genuine(records)

genuine_detected(records) ==
    Cardinality({f \in genuine(records) : detected_by_majority(records, f)})

controls_falsely_detected(records) ==
    Cardinality({f \in controls(records) : detected_by_majority(records, f)})

\* A revision that was served must cite a passage that resolves, or be the
\* template; read off the answer and not off the decision to serve it.
structurally_invalid(r) ==
    /\ r.answer_revised /\ ~ r.revision_rejected
    /\ ~ r.served_abstention
    /\ ~ r.cites

invalid_revisions_served(records) == {r \in records : structurally_invalid(r)}

parse_failures(records) == Cardinality({r \in records : r.parse_failed})

\* Against arm B, at group level; unavailable without it.
DeltaKnown(records, baseline) ==
    /\ GroupsOf(records, LAMBDA r : r.completeness) # {}
    /\ GroupsOf(baseline, LAMBDA r : r.completeness) # {}

CompletenessHolds(records, baseline) ==
    LET here == group_level(records, LAMBDA r : r.completeness)
        there == group_level(baseline, LAMBDA r : r.completeness)
    IN /\ DeltaKnown(records, baseline)
       /\ here.sum * there.groups - there.sum * here.groups
            >= - Tolerance * here.groups * there.groups

\* The declared conditions, all of them.
Unmet(records, baseline) ==
    \/ genuine(records) # {} /\ genuine_detected(records) < DETECTION_REQUIRED
    \/ controls_falsely_detected(records) > 0
    \/ parse_failures(records) > PARSE_FAILURES_ALLOWED
    \/ ~ CompletenessHolds(records, baseline)

\* PROMPT_REVISIONS_REMAINING is 0, so what is not met FAILs.
decision(records, baseline) ==
    IF invalid_revisions_served(records) # {} THEN "DEFECT"
    ELSE IF \/ /\ controls(records) # {}
               /\ controls_falsely_detected(records) = Cardinality(controls(records))
            \/ genuine(records) # {} /\ genuine_detected(records) = 0
    THEN "STOP"
    ELSE IF Unmet(records, baseline) THEN "FAIL" ELSE "PROCEED"

---------------------------------------------------------------------------
claim_making(records) == {r \in records : ~ r.served_abstention}

validly_cited(records) == {r \in claim_making(records) : r.has_valid_citation_ids}

Rate(part, whole) == [part |-> Cardinality(part), whole |-> Cardinality(whole)]

conditional_citation_validity(records) ==
    Rate(validly_cited(records), claim_making(records))

\* A plausible bug: of the answers that make a claim, and not of all of them.
CoverageOfClaims(records) == Rate(validly_cited(records), claim_making(records))

\* The figure that cannot be improved by refusing.
grounded_answer_coverage(records) == Rate(validly_cited(records), records)

\* How much of what a question expects was before the verifier.
evidence_state(r) ==
    IF r.expected = {} THEN "no_expectation"
    ELSE IF r.expected \subseteq r.retrieved THEN "all"
    ELSE IF r.expected \cap r.retrieved # {} THEN "partial" ELSE "none"

falsely_refused(records) ==
    {r \in records : r.served_abstention /\ r.category # "unanswerable"}

\* The refusals that are the verifier's own error.
verifier_errors(records) ==
    {r \in falsely_refused(records) : evidence_state(r) = "all"}

evaluate_gate(records, baseline) ==
    [decision |-> decision(records, baseline),
     conditional |-> conditional_citation_validity(records),
     coverage |-> grounded_answer_coverage(records),
     verifier_errors |-> Cardinality(verifier_errors(records))]
=============================================================================
