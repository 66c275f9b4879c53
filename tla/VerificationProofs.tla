------------------------- MODULE VerificationProofs -------------------------
(***************************************************************************)
(* Theorems about Verification, for every vocabulary of answers, chunks    *)
(* and evidence lists that satisfies the assumption Vocabulary.            *)
(***************************************************************************)
EXTENDS Verification, TLAPS

USE Vocabulary DEF Vocabulary, Recorded

-----------------------------------------------------------------------------
(* Type correctness                                                        *)

\* The template is an answer like any other.
LEMMA TemplateIsAnswer == ABSTENTION_TEXT \in Answer
  BY DEF ABSTENTION_TEXT, Answer

\* Whatever was found, the confidence attached is one of the policy's levels.
LEMMA ConfidenceIsLevel ==
  ASSUME NEW fails, NEW inv
  PROVE  Confidence(fails, inv) \in Levels
  BY DEF Confidence, PolicyKeys

\* What is served is always the draft, the template or the offered revision.
LEMMA ServedCases ==
  ASSUME NEW f, NEW fails
  PROVE  \/ Served(f, fails) \in {draft, ABSTENTION_TEXT}
         \/ (f # NoRevision /\ Served(f, fails) = f)
  BY DEF Served

LEMMA InitTypeOK == Init => TypeOK
<1>1. NotServed \in Result
  BY TemplateIsAnswer DEF NotServed, Result, Levels
<1>2. 0 \in 0..MaxClaims
  OBVIOUS
<1>3. QED BY <1>1, <1>2, Zenon DEF Init, TypeOK, VALID_RELATIONSHIPS

\* Every step keeps the types, whatever the response contains.
LEMMA NextTypeOK == TypeOK /\ [Next]_vars => TypeOK'
<1> SUFFICES ASSUME TypeOK, [Next]_vars PROVE TypeOK'
  OBVIOUS
<1> USE DEF TypeOK
<1>1. CASE ParseFailed
  <2>1. Policy["on_parse_failure"] \in Levels
    BY DEF PolicyKeys
  <2>2. result' \in Result
    BY <1>1, <2>1 DEF ParseFailed, Result
  <2>3. QED BY <1>1, <2>2 DEF ParseFailed
<1>2. CASE ReadClaims
  <2>1. todo' \in 0..MaxClaims
    BY <1>2 DEF ReadClaims
  <2>2. claimsPresent' \in BOOLEAN
    <3>1. \A n \in 0..MaxClaims : (n > 0) \in BOOLEAN
      OBVIOUS
    <3>2. QED BY <1>2, <3>1, Zenon DEF ReadClaims
  <2>3. failures' \subseteq FailureKinds
    BY <1>2 DEF ReadClaims, FailureKinds
  <2>4. QED BY <1>2, <2>1, <2>2, <2>3 DEF ReadClaims
<1>3. CASE SkipEntry
  BY <1>3 DEF SkipEntry
<1>4. ASSUME NEW e \in Entry, AuditClaim(e) PROVE TypeOK'
  <2>1. todo' \in 0..MaxClaims
    BY <1>4 DEF AuditClaim
  <2>2. failures' \subseteq FailureKinds
    BY <1>4 DEF AuditClaim
  <2>3. invented' \subseteq Chunks
    BY <1>4 DEF AuditClaim, Invented, Entry
  <2>4. verdicts' \subseteq Verdict
    <3> DEFINE failed ==
          {k \in FailureKinds :
             \/ k = "verdict_unknown" /\ e.verdict = "other"
             \/ k = "unsupported"     /\ e.verdict = "SUPPORTED"
                                      /\ Kept(e.supporting) = {}
             \/ k = "uncontradicted"  /\ e.verdict = "CONTRADICTED"
                                      /\ Kept(e.contradicting) = {}}
           new == Audited(e.verdict, failed)
    <3>1. "verdict_unknown" \in FailureKinds
      BY DEF FailureKinds
    <3>2. e.verdict \in VALID_VERDICTS \cup {"other"}
      BY <1>4 DEF Entry
    <3>3. new \in VALID_VERDICTS
      BY <3>1, <3>2 DEF VALID_VERDICTS, Audited
    <3>4. Kept(e.supporting) \subseteq Chunks /\ Kept(e.contradicting) \subseteq Chunks
      BY <1>4 DEF Kept, Entry
    <3>5. verdicts' = verdicts \cup
            {[verdict |-> new, supporting |-> Kept(e.supporting),
              contradicting |-> Kept(e.contradicting)]}
      BY <1>4 DEF AuditClaim
    <3> HIDE DEF new
    <3>6. QED BY <3>3, <3>4, <3>5 DEF Verdict
  <2>5. QED BY <1>4, <2>1, <2>2, <2>3, <2>4 DEF AuditClaim
<1>5. ASSUME NEW r \in VALID_RELATIONSHIPS \cup {"other"},
             NEW ids \in EvidenceLists, JudgeRelationship(r, ids)
      PROVE TypeOK'
  <2>1. relationship' \in VALID_RELATIONSHIPS
    BY <1>5 DEF JudgeRelationship, VALID_RELATIONSHIPS
  <2>2. conflicting' \subseteq Chunks /\ invented' \subseteq Chunks
    BY <1>5 DEF JudgeRelationship, Kept, Invented
  <2>3. failures' \subseteq FailureKinds
    BY <1>5 DEF JudgeRelationship, FailureKinds
  <2>4. QED BY <1>5, <2>1, <2>2, <2>3 DEF JudgeRelationship
<1>6. CASE AbortOnIdentifiers
  BY <1>6 DEF AbortOnIdentifiers
<1>7. ASSUME NEW f \in Answers \cup {NoRevision}, Decide(f) PROVE TypeOK'
  <2>1. failures' \subseteq FailureKinds
    BY <1>7 DEF Decide, RevisionFailures
  <2>2. invented' \subseteq Chunks
    BY <1>7 DEF Decide, Invented, ChunkIds, Answer
  <2>3. result'.answer \in Answer
    BY <1>7, ServedCases, TemplateIsAnswer DEF Decide
  <2>4. warrants \subseteq VALID_WARRANTS
    BY DEF warrants
  <2>5. result' \in Result
    <3> DEFINE fails == failures \cup RevisionFailures(f)
               inv == IF f = NoRevision THEN invented
                      ELSE invented \cup Invented(ChunkIds(f))
    <3>1. Confidence(fails, inv) \in Levels
      BY ConfidenceIsLevel
    <3>2. Served(f, fails) \in Answer
      BY ServedCases, TemplateIsAnswer
    <3>3. Revised(f, fails) \in BOOLEAN
      BY DEF Revised
    <3> HIDE DEF fails, inv
    <3>4. QED BY <1>7, <2>4, <3>1, <3>2, <3>3 DEF Decide, Result, fails, inv
  <2>6. QED BY <1>7, <2>1, <2>2, <2>5 DEF Decide
<1>8. CASE UNCHANGED vars
  BY <1>8 DEF vars
<1>9. QED BY <1>1, <1>2, <1>3, <1>4, <1>5, <1>6, <1>7, <1>8 DEF Next

\* Every variable keeps its type in every behaviour of the call.
THEOREM TypeCorrect == Spec => []TypeOK
  BY InitTypeOK, NextTypeOK, PTL DEF Spec

-----------------------------------------------------------------------------
(* Every finding that survives rests on retrieved evidence                 *)

LEMMA EvidenceStep ==
  TypeOK /\ FindingsRestOnEvidence /\ [Next]_vars => FindingsRestOnEvidence'
<1> SUFFICES ASSUME TypeOK, FindingsRestOnEvidence, [Next]_vars
             PROVE FindingsRestOnEvidence'
  OBVIOUS
<1> USE DEF FindingsRestOnEvidence
<1>1. CASE ParseFailed
  BY <1>1 DEF ParseFailed, TwoSided
<1>2. CASE ReadClaims
  BY <1>2 DEF ReadClaims, TwoSided
<1>3. CASE SkipEntry
  BY <1>3 DEF SkipEntry, TwoSided
<1>4. ASSUME NEW e \in Entry, AuditClaim(e) PROVE FindingsRestOnEvidence'
  <2> DEFINE failed ==
        {k \in FailureKinds :
           \/ k = "verdict_unknown" /\ e.verdict = "other"
           \/ k = "unsupported"     /\ e.verdict = "SUPPORTED"
                                    /\ Kept(e.supporting) = {}
           \/ k = "uncontradicted"  /\ e.verdict = "CONTRADICTED"
                                    /\ Kept(e.contradicting) = {}}
         new == Audited(e.verdict, failed)
         added == [verdict |-> new, supporting |-> Kept(e.supporting),
                   contradicting |-> Kept(e.contradicting)]
  <2>1. verdicts' = verdicts \cup {added}
    BY <1>4 DEF AuditClaim
  <2>2. new = "SUPPORTED" => Kept(e.supporting) # {}
    <3>1. "unsupported" \in FailureKinds
      BY DEF FailureKinds
    <3>2. QED BY <3>1 DEF Audited
  <2>3. new = "CONTRADICTED" => Kept(e.contradicting) # {}
    <3>1. "uncontradicted" \in FailureKinds
      BY DEF FailureKinds
    <3>2. QED BY <3>1 DEF Audited
  <2>4. Kept(e.supporting) \subseteq retrieved /\ Kept(e.contradicting) \subseteq retrieved
    BY DEF Kept
  <2>5. retrieved' = retrieved /\ relationship' = relationship /\ conflicting' = conflicting
    BY <1>4 DEF AuditClaim
  <2> HIDE DEF new
  <2>6. /\ added.supporting \cup added.contradicting \subseteq retrieved
        /\ added.verdict = "SUPPORTED" => added.supporting # {}
        /\ added.verdict = "CONTRADICTED" => added.contradicting # {}
    BY <2>2, <2>3, <2>4
  <2> HIDE DEF added
  <2>7. QED BY <2>1, <2>5, <2>6 DEF TwoSided
<1>5. ASSUME NEW r \in VALID_RELATIONSHIPS \cup {"other"},
             NEW ids \in EvidenceLists, JudgeRelationship(r, ids)
      PROVE FindingsRestOnEvidence'
  <2>1. "insufficient" \notin CONFLICTING_RELATIONSHIPS
    BY DEF CONFLICTING_RELATIONSHIPS, RESOLVED_RELATIONSHIPS, UNRESOLVED_RELATIONSHIPS
  <2>2. relationship' \in CONFLICTING_RELATIONSHIPS =>
          TwoSided(Kept(ids)) /\ conflicting' = Kept(ids)
    BY <1>5, <2>1 DEF JudgeRelationship
  <2>3. Kept(ids) \subseteq retrieved /\ retrieved' = retrieved /\ verdicts' = verdicts
    BY <1>5 DEF JudgeRelationship, Kept
  <2>4. QED BY <2>2, <2>3 DEF TwoSided
<1>6. CASE AbortOnIdentifiers
  BY <1>6 DEF AbortOnIdentifiers, TwoSided
<1>7. ASSUME NEW f \in Answers \cup {NoRevision}, Decide(f)
      PROVE FindingsRestOnEvidence'
  BY <1>7 DEF Decide, TwoSided
<1>8. CASE UNCHANGED vars
  BY <1>8 DEF vars, TwoSided
<1>9. QED BY <1>1, <1>2, <1>3, <1>4, <1>5, <1>6, <1>7, <1>8 DEF Next

\* Findings never outlive their evidence.
THEOREM EvidenceInvariant == Spec => []FindingsRestOnEvidence
<1>1. Init => FindingsRestOnEvidence
  BY DEF Init, FindingsRestOnEvidence, CONFLICTING_RELATIONSHIPS,
         RESOLVED_RELATIONSHIPS, UNRESOLVED_RELATIONSHIPS
<1>2. QED BY <1>1, EvidenceStep, TypeCorrect, PTL DEF Spec

-----------------------------------------------------------------------------
(* The decision, as an invariant: once the call is over, the recorded      *)
(* fields are those the serving rule gives for the findings in the state.  *)

Decision ==
  /\ phase = "done" /\ result.parseFailed =>
       /\ result.answer = draft /\ failures = {}
       /\ ~result.revised /\ ~result.rejected /\ result.warrant = {}
  /\ phase = "done" /\ ~result.parseFailed =>
       /\ RevisionFailures(final) \subseteq failures
       /\ result.answer = Served(final, failures)
       /\ result.revised <=>
            /\ failures = {} /\ ~Unwarranted(final)
            /\ AllInsufficient \/ final # NoRevision
            /\ result.answer # draft
       /\ result.rejected <=>
            final # NoRevision /\ (failures # {} \/ Unwarranted(final))
       /\ result.warrant = IF result.revised THEN warrants ELSE {}
  /\ phase = "json" => failures = {}

\* What the decision reads is not changed by the step that makes it.
LEMMA DecisionReads ==
  ASSUME UNCHANGED <<draft, retrieved, claimsPresent, verdicts, relationship>>
  PROVE  /\ warrants' = warrants
         /\ AllInsufficient' <=> AllInsufficient
         /\ RevisionFailures(final)' = RevisionFailures(final')
         /\ Unwarranted(final)' <=> Unwarranted(final')
         /\ Served(final, failures)' = Served(final', failures')
<1>1. AllInsufficient' <=> AllInsufficient
  BY DEF AllInsufficient
<1>2. draft_miscites' <=> draft_miscites
  BY DEF draft_miscites, ChunkIds
<1>3. \A w : Judged(w)' <=> Judged(w)
  BY DEF Judged
<1>4. warrants' = warrants
  BY <1>2, <1>3 DEF warrants
<1>5. RevisionFailures(final)' = RevisionFailures(final')
  BY <1>1, <1>4 DEF RevisionFailures, Misidentifies, Uncites, ChunkIds,
                    cites_a_passage, content_tokens
<1>6. Unwarranted(final)' <=> Unwarranted(final')
  BY <1>4 DEF Unwarranted
<1>7. Served(final, failures)' = Served(final', failures')
  BY <1>1, <1>6 DEF Served
<1>8. QED BY <1>1, <1>4, <1>5, <1>6, <1>7

LEMMA DecisionStep == TypeOK /\ Decision /\ [Next]_vars => Decision'
<1> SUFFICES ASSUME TypeOK, Decision, [Next]_vars PROVE Decision'
  OBVIOUS
<1>1. CASE ParseFailed
  BY <1>1 DEF ParseFailed, Decision
<1>2. CASE ReadClaims
  BY <1>2 DEF ReadClaims, Decision
<1>3. CASE SkipEntry
  BY <1>3 DEF SkipEntry, Decision
<1>4. ASSUME NEW e \in Entry, AuditClaim(e) PROVE Decision'
  BY <1>4 DEF AuditClaim, Decision
<1>5. ASSUME NEW r \in VALID_RELATIONSHIPS \cup {"other"},
             NEW ids \in EvidenceLists, JudgeRelationship(r, ids)
      PROVE Decision'
  BY <1>5 DEF JudgeRelationship, Decision
<1>6. CASE AbortOnIdentifiers
  BY <1>6 DEF AbortOnIdentifiers, Decision
<1>7. ASSUME NEW f \in Answers \cup {NoRevision}, Decide(f) PROVE Decision'
  <2>1. UNCHANGED <<draft, retrieved, claimsPresent, verdicts, relationship>>
        /\ phase' = "done" /\ final' = f
        /\ failures' = failures \cup RevisionFailures(f)
    BY <1>7 DEF Decide
  <2>2. /\ warrants' = warrants
        /\ AllInsufficient' <=> AllInsufficient
        /\ RevisionFailures(final)' = RevisionFailures(f)
        /\ Unwarranted(final)' <=> Unwarranted(f)
        /\ Served(final, failures)' = Served(f, failures')
    BY <2>1, DecisionReads
  <2>3. /\ result'.answer = Served(f, failures')
        /\ ~result'.parseFailed
        /\ result'.revised <=>
             /\ failures' = {} /\ ~Unwarranted(f)
             /\ AllInsufficient \/ f # NoRevision
             /\ result'.answer # draft
        /\ result'.rejected <=> f # NoRevision /\ (failures' # {} \/ Unwarranted(f))
        /\ result'.warrant = IF result'.revised THEN warrants ELSE {}
    BY <1>7, <2>1 DEF Decide, Revised
  <2>4. QED BY <2>1, <2>2, <2>3 DEF Decision
<1>8. CASE UNCHANGED vars
  <2>1. UNCHANGED <<draft, retrieved, claimsPresent, verdicts, relationship>>
        /\ UNCHANGED <<phase, failures, final, result>>
    BY <1>8 DEF vars
  <2>2. QED BY <2>1, DecisionReads DEF Decision
<1>9. QED BY <1>1, <1>2, <1>3, <1>4, <1>5, <1>6, <1>7, <1>8 DEF Next

LEMMA DecisionInvariant == Spec => []Decision
<1>1. Init => Decision
  BY DEF Init, Decision
<1>2. QED BY <1>1, DecisionStep, TypeCorrect, PTL DEF Spec

-----------------------------------------------------------------------------
(* The promises of the serving rule                                        *)

\* A response that failed a check changes nothing for the reader.
THEOREM FailClosed == Spec => []FailedResponseIsNotServed
<1>1. Decision => FailedResponseIsNotServed
  BY DEF Decision, FailedResponseIsNotServed, Served
<1>2. QED BY <1>1, DecisionInvariant, PTL

\* A served answer other than the draft comes from a response with no failure
\* and with a warrant.
LEMMA ChangeNeedsWarrant ==
  ASSUME Decision, phase = "done", result.answer # draft
  PROVE  /\ failures = {} /\ warrants # {}
         /\ ~result.parseFailed
         /\ result.answer = IF AllInsufficient THEN ABSTENTION_TEXT ELSE final
         /\ ~AllInsufficient => final # NoRevision
<1>1. ~result.parseFailed
  BY DEF Decision
<1>2. result.answer = Served(final, failures)
  BY <1>1 DEF Decision
<1>3. failures = {} /\ ~Unwarranted(final)
  BY <1>2 DEF Served
<1>4. result.answer = IF AllInsufficient THEN ABSTENTION_TEXT ELSE final
  BY <1>2, <1>3 DEF Served
<1>5. ~AllInsufficient => final # NoRevision
  BY <1>2, <1>3 DEF Served
<1>6. warrants # {}
  <2>1. CASE AllInsufficient
    <3>1. Judged("INSUFFICIENT_EVIDENCE")
      BY <2>1 DEF AllInsufficient, Judged
    <3>2. "claim_insufficient" \in warrants
      BY <3>1 DEF warrants, VALID_WARRANTS
    <3>3. QED BY <3>2
  <2>2. CASE ~AllInsufficient
    BY <1>3, <1>5, <2>2 DEF Unwarranted
  <2>3. QED BY <2>1, <2>2
<1>7. QED BY <1>1, <1>3, <1>4, <1>5, <1>6

\* Finding nothing is a no-op, for every response and every draft.
THEOREM NoOp == Spec => []NoFindingNoChange
<1>1. TypeOK /\ Decision /\ FindingsRestOnEvidence => NoFindingNoChange
  <2> SUFFICES ASSUME TypeOK, Decision, FindingsRestOnEvidence,
                      phase = "done", result.answer # draft
               PROVE  \/ relationship \in CONFLICTING_RELATIONSHIPS /\ TwoSided(conflicting)
                      \/ \E v \in verdicts : v.verdict # "SUPPORTED"
                      \/ draft_miscites
    BY DEF NoFindingNoChange
  <2>1. PICK w \in VALID_WARRANTS : w \in warrants
    BY ChangeNeedsWarrant DEF warrants
  <2>2. QED BY <2>1 DEF warrants, Judged, FindingsRestOnEvidence
<1>2. QED BY <1>1, DecisionInvariant, EvidenceInvariant, TypeCorrect, PTL

\* A change that is no abstention is the offered revision, and it passed the
\* checks on its citations.
LEMMA ReplacementIsChecked ==
  ASSUME Decision, phase = "done", result.answer # draft, ~AllInsufficient
  PROVE  /\ result.answer = final /\ final # NoRevision
         /\ ChunkIds(final) \subseteq retrieved /\ final.docs = {}
         /\ cites_a_passage(draft) => cites_a_passage(final)
<1>1. failures = {} /\ ~result.parseFailed /\ result.answer = final /\ final # NoRevision
  BY ChangeNeedsWarrant
<1>2. RevisionFailures(final) = {}
  BY <1>1 DEF Decision
<1>3. {"invented_in_answer", "document_only", "citations_stripped"} \subseteq FailureKinds
  BY DEF FailureKinds
<1>4. QED BY <1>1, <1>2, <1>3 DEF RevisionFailures, Misidentifies, Uncites

\* A served revision cites only retrieved passages, and keeps a cited draft cited.
THEOREM Grounded == Spec => []ServedRevisionIsGrounded
<1>1. Decision => ServedRevisionIsGrounded
  BY ChangeNeedsWarrant, ReplacementIsChecked DEF ServedRevisionIsGrounded
<1>2. QED BY <1>1, DecisionInvariant, PTL

\* Every served change names its warrants; a repair of citations keeps the claims.
THEOREM Warranted == Spec => []WarrantAudit
<1>1. TypeOK /\ Decision => WarrantAudit
  <2> SUFFICES ASSUME TypeOK, Decision, phase = "done" PROVE WarrantAudit
    BY DEF WarrantAudit
  <2>1. result.revised <=> result.answer # draft
    <3>1. result.answer # draft => result.revised
      BY ChangeNeedsWarrant DEF Decision, Unwarranted
    <3>2. result.revised => result.answer # draft
      BY DEF Decision
    <3>3. QED BY <3>1, <3>2
  <2>2. result.revised <=> result.warrant # {}
    BY <2>1, ChangeNeedsWarrant DEF Decision
  <2>3. result.rejected => result.answer = draft
    BY DEF Decision, Served
  <2>4. ASSUME result.warrant = {"citation_repair"}
        PROVE content_tokens(result.answer) = content_tokens(draft)
    <3>1. /\ result.answer # draft /\ failures = {} /\ ~result.parseFailed
          /\ warrants = {"citation_repair"}
      BY <2>1, <2>2, <2>4, ChangeNeedsWarrant DEF Decision
    <3>2. ~AllInsufficient
      BY <3>1 DEF warrants, VALID_WARRANTS, AllInsufficient, Judged
    <3>3. result.answer = final /\ final # NoRevision
      BY <3>1, <3>2, ChangeNeedsWarrant
    <3>4. RevisionFailures(final) = {} /\ "repair_rewrote" \in FailureKinds
      BY <3>1 DEF Decision, FailureKinds
    <3>5. QED BY <3>1, <3>3, <3>4 DEF RevisionFailures
  <2>5. QED BY <2>1, <2>2, <2>3, <2>4 DEF WarrantAudit
<1>2. QED BY <1>1, DecisionInvariant, TypeCorrect, PTL

\* When no claim is supported, no words of the model are served.
THEOREM AbstentionText == Spec => []AbstentionIsTheTemplate
<1>1. Decision => AbstentionIsTheTemplate
  BY ChangeNeedsWarrant DEF AbstentionIsTheTemplate, Parsed
<1>2. QED BY <1>1, DecisionInvariant, PTL

-----------------------------------------------------------------------------
(* The confidence, as an invariant: it is the policy's for the findings    *)
(* and failures in the state.                                              *)

Judgement == Parsed => result.confidence = Confidence(failures, invented)

\* What replace_confidence reads of the findings is not changed by Decide.
LEMMA ConfidenceReads ==
  ASSUME UNCHANGED <<verdicts, relationship>>
  PROVE  Confidence(failures, invented)' = Confidence(failures', invented')
<1>1. AllInsufficient' <=> AllInsufficient
  BY DEF AllInsufficient
<1>2. Judged("CONTRADICTED")' <=> Judged("CONTRADICTED")
  BY DEF Judged
<1>3. Flawed(failures, invented)' <=> Flawed(failures', invented')
  BY DEF Flawed
<1>4. QED BY <1>1, <1>2, <1>3 DEF Confidence

LEMMA JudgementStep == Judgement /\ [Next]_vars => Judgement'
<1> SUFFICES ASSUME Judgement, [Next]_vars PROVE Judgement'
  OBVIOUS
<1> USE DEF Judgement, Parsed
<1>1. CASE ParseFailed
  BY <1>1 DEF ParseFailed
<1>2. CASE ReadClaims
  BY <1>2 DEF ReadClaims
<1>3. CASE SkipEntry
  BY <1>3 DEF SkipEntry
<1>4. ASSUME NEW e \in Entry, AuditClaim(e) PROVE Judgement'
  BY <1>4 DEF AuditClaim
<1>5. ASSUME NEW r \in VALID_RELATIONSHIPS \cup {"other"},
             NEW ids \in EvidenceLists, JudgeRelationship(r, ids)
      PROVE Judgement'
  BY <1>5 DEF JudgeRelationship
<1>6. CASE AbortOnIdentifiers
  BY <1>6 DEF AbortOnIdentifiers
<1>7. ASSUME NEW f \in Answers \cup {NoRevision}, Decide(f) PROVE Judgement'
  <2>1. UNCHANGED <<verdicts, relationship>>
    BY <1>7 DEF Decide
  <2>2. result'.confidence = Confidence(failures', invented')
    BY <1>7 DEF Decide
  <2>3. QED BY <2>1, <2>2, ConfidenceReads
<1>8. CASE UNCHANGED vars
  <2>1. UNCHANGED <<verdicts, relationship>> /\ UNCHANGED <<phase, failures, invented, result>>
    BY <1>8 DEF vars
  <2>2. QED BY <2>1, ConfidenceReads
<1>9. QED BY <1>1, <1>2, <1>3, <1>4, <1>5, <1>6, <1>7, <1>8 DEF Next

LEMMA JudgementInvariant == Spec => []Judgement
<1>1. Init => Judgement
  BY DEF Init, Judgement, Parsed
<1>2. QED BY <1>1, JudgementStep, PTL DEF Spec

\* Under a cautious policy no confidence is kept that the audit did not earn.
THEOREM Earned == Spec => []ConfidenceIsEarned
<1>1. Judgement => ConfidenceIsEarned
  <2> SUFFICES ASSUME Judgement, Parsed, result.confidence # "low"
               PROVE  /\ failures = {} /\ invented = {}
                      /\ relationship \notin UNRESOLVED_RELATIONSHIPS
                      /\ \/ relationship \in RESOLVED_RELATIONSHIPS
                         \/ ~AllInsufficient /\ ~Judged("CONTRADICTED")
    BY DEF ConfidenceIsEarned
  <2>1. Confidence(failures, invented) # "low"
    BY DEF Judgement
  <2>2. Policy["on_invented_evidence"] = "low" /\ Policy["on_unresolved_conflict"] = "low"
        /\ Policy["on_insufficient"] = "low" /\ Policy["on_contradiction"] = "low"
    BY CautiousPolicy DEF PolicyKeys
  <2>3. ~Flawed(failures, invented)
    BY <2>1, <2>2 DEF Confidence
  <2>4. \/ relationship \in RESOLVED_RELATIONSHIPS
        \/ /\ relationship \notin UNRESOLVED_RELATIONSHIPS
           /\ ~AllInsufficient /\ ~Judged("CONTRADICTED")
    BY <2>1, <2>2, <2>3 DEF Confidence
  <2>5. QED BY <2>3, <2>4 DEF Flawed, RESOLVED_RELATIONSHIPS, UNRESOLVED_RELATIONSHIPS
<1>2. QED BY <1>1, JudgementInvariant, PTL

-----------------------------------------------------------------------------
(* The detailed decision implements the contract of the layer.             *)

\* While claims are read, no relationship has been judged.
Unjudged == phase \in {"json", "claims"} => relationship = "insufficient"

LEMMA UnjudgedInvariant == Spec => []Unjudged
<1>1. Init => Unjudged
  BY DEF Init, Unjudged
<1>2. Unjudged /\ [Next]_vars => Unjudged'
  BY DEF Unjudged, vars, Next, ParseFailed, ReadClaims, SkipEntry, AuditClaim,
         JudgeRelationship, AbortOnIdentifiers, Decide
<1>3. QED BY <1>1, <1>2, PTL DEF Spec

\* What has to be true of a response whose change is served.
ChangeIsLicensed ==
  phase = "done" /\ result.answer # draft =>
    /\ failures = {}
    /\ \/ result.answer = ABSTENTION_TEXT /\ "claim_insufficient" \in warrants
       \/ /\ result.answer \in Answers /\ warrants # {}
          /\ ChunkIds(result.answer) \subseteq retrieved /\ result.answer.docs = {}
          /\ cites_a_passage(draft) => cites_a_passage(result.answer)

LEMMA Licensed == Spec => []ChangeIsLicensed
<1>1. TypeOK /\ Decision => ChangeIsLicensed
  <2> SUFFICES ASSUME TypeOK, Decision, phase = "done", result.answer # draft
               PROVE ChangeIsLicensed
    BY DEF ChangeIsLicensed
  <2>1. failures = {} /\ warrants # {}
    BY ChangeNeedsWarrant
  <2>2. CASE AllInsufficient
    <3>1. "claim_insufficient" \in warrants
      BY <2>2 DEF AllInsufficient, Judged, warrants, VALID_WARRANTS
    <3>2. QED BY <2>1, <2>2, <3>1, ChangeNeedsWarrant DEF ChangeIsLicensed
  <2>3. CASE ~AllInsufficient
    <3>1. final \in Answers \cup {NoRevision}
      BY DEF TypeOK
    <3>2. QED BY <2>1, <2>3, <3>1, ReplacementIsChecked DEF ChangeIsLicensed
  <2>4. QED BY <2>2, <2>3
<1>2. QED BY <1>1, DecisionInvariant, TypeCorrect, PTL

\* Reading on never withdraws a finding.
LEMMA WarrantsGrow ==
  ASSUME UNCHANGED <<draft, retrieved>>, verdicts \subseteq verdicts',
         relationship = "insufficient" \/ relationship' = relationship
  PROVE  warrants \subseteq warrants'
<1>1. draft_miscites' <=> draft_miscites
  BY DEF draft_miscites, ChunkIds
<1>2. \A w : Judged(w) => Judged(w)'
  BY DEF Judged
<1>3. relationship \in CONFLICTING_RELATIONSHIPS => relationship' = relationship
  BY DEF CONFLICTING_RELATIONSHIPS, RESOLVED_RELATIONSHIPS, UNRESOLVED_RELATIONSHIPS
<1>4. QED BY <1>1, <1>2, <1>3 DEF warrants

LEMMA ContractInit == Init => Contract!Init
<1> SUFFICES ASSUME Init PROVE Contract!Init
  OBVIOUS
<1>1. \A w \in VALID_WARRANTS : w \in warrants <=> w = "citation_repair" /\ draft_miscites
  BY DEF Init, warrants, Judged, CONFLICTING_RELATIONSHIPS, RESOLVED_RELATIONSHIPS,
         UNRESOLVED_RELATIONSHIPS
<1>2. draft_miscites <=> ~Contract!Checkable(draft)
  BY DEF draft_miscites, ChunkIds, Contract!Checkable
<1>3. warrants = IF Contract!Checkable(draft) THEN {} ELSE {"citation_repair"}
  BY <1>1, <1>2 DEF warrants, VALID_WARRANTS
<1>4. QED BY <1>3 DEF Init, Contract!Init

\* Reading a part of the response is an observation, deciding is the answer.
LEMMA ContractStep ==
  Unjudged /\ ChangeIsLicensed' /\ [Next]_vars => [Contract!Next]_Contract!vars
<1> SUFFICES ASSUME Unjudged, ChangeIsLicensed', [Next]_vars
             PROVE [Contract!Next]_Contract!vars
  OBVIOUS
<1> DEFINE Reads == /\ phase # "done" /\ phase' # "done"
                    /\ UNCHANGED <<draft, retrieved>>
                    /\ failures \subseteq failures' /\ verdicts \subseteq verdicts'
                    /\ relationship = "insufficient" \/ relationship' = relationship
<1>1. ASSUME Reads PROVE Contract!Observe
  <2>1. warrants \subseteq warrants'
    BY <1>1, WarrantsGrow
  <2>2. warrants' \subseteq VALID_WARRANTS
    BY DEF warrants
  <2>3. failures # {} => failures' # {}
    BY <1>1
  <2>4. QED BY <1>1, <2>1, <2>2, <2>3, Zenon DEF Contract!Observe
<1>2. ASSUME phase # "done", phase' = "done", failures \subseteq failures',
             UNCHANGED <<draft, retrieved, verdicts, relationship>>
      PROVE Contract!Next
  <2>1. warrants' = warrants
    <3>1. \A w : Judged(w)' <=> Judged(w)
      BY <1>2 DEF Judged
    <3>2. draft_miscites' <=> draft_miscites
      BY <1>2 DEF draft_miscites, ChunkIds
    <3>3. QED BY <1>2, <3>1, <3>2 DEF warrants
  <2>2. failures # {} => failures' # {}
    BY <1>2
  <2>3. Contract!Answer(result'.answer)
    BY <1>2, <2>1, <2>2, Zenon DEF Contract!Answer
  <2>4. CASE result'.answer = draft
    BY <2>3, <2>4 DEF Contract!Next, Contract!ServeDraft
  <2>5. CASE result'.answer # draft
    <3>1. failures' = {}
      BY <1>2, <2>5 DEF ChangeIsLicensed
    <3>2. CASE result'.answer = ABSTENTION_TEXT /\ "claim_insufficient" \in warrants'
      BY <2>1, <2>3, <3>1, <3>2 DEF Contract!Next, Contract!Abstain
    <3>3. CASE /\ result'.answer \in Answers /\ warrants' # {}
               /\ ChunkIds(result.answer)' \subseteq retrieved'
               /\ result'.answer.docs = {}
               /\ cites_a_passage(draft)' => cites_a_passage(result.answer)'
      <4>1. Contract!Replace(result'.answer)
        BY <1>2, <2>1, <2>3, <3>1, <3>3
           DEF Contract!Replace, Contract!Checkable, ChunkIds, cites_a_passage
      <4>2. QED BY <3>3, <4>1 DEF Contract!Next
    <3>4. QED BY <1>2, <2>5, <3>2, <3>3 DEF ChangeIsLicensed
  <2>6. QED BY <2>4, <2>5
<1>3. CASE ParseFailed
  BY <1>2, <1>3 DEF ParseFailed
<1>4. CASE ReadClaims
  <2>1. Reads
    BY <1>4 DEF ReadClaims
  <2>2. QED BY <1>1, <2>1 DEF Contract!Next
<1>5. CASE SkipEntry
  <2>1. Reads
    BY <1>5 DEF SkipEntry
  <2>2. QED BY <1>1, <2>1 DEF Contract!Next
<1>6. ASSUME NEW e \in Entry, AuditClaim(e) PROVE Contract!Next
  <2>1. Reads
    BY <1>6 DEF AuditClaim
  <2>2. QED BY <1>1, <2>1 DEF Contract!Next
<1>7. ASSUME NEW r \in VALID_RELATIONSHIPS \cup {"other"},
             NEW ids \in EvidenceLists, JudgeRelationship(r, ids)
      PROVE Contract!Next
  <2>1. Reads
    BY <1>7 DEF JudgeRelationship, Unjudged
  <2>2. QED BY <1>1, <2>1 DEF Contract!Next
<1>8. CASE AbortOnIdentifiers
  <2>1. Reads
    BY <1>8 DEF AbortOnIdentifiers
  <2>2. QED BY <1>1, <2>1 DEF Contract!Next
<1>9. ASSUME NEW f \in Answers \cup {NoRevision}, Decide(f) PROVE Contract!Next
  BY <1>2, <1>9 DEF Decide
<1>10. CASE UNCHANGED vars
  <2>1. warrants' = warrants
    BY <1>10 DEF vars, warrants, Judged, draft_miscites, ChunkIds
  <2>2. QED BY <1>10, <2>1 DEF vars, Contract!vars
<1>11. QED BY <1>3, <1>4, <1>5, <1>6, <1>7, <1>8, <1>9, <1>10 DEF Next

\* The reader is served the draft, or a change that some finding calls for, that
\* no failed check of the whole response stands against and that, unless it is the
\* template, can be checked against the retrieved passages.
THEOREM Refinement == Spec => ImplementsContract
  BY ContractInit, ContractStep, UnjudgedInvariant, Licensed, PTL
     DEF Spec, ImplementsContract, Contract!Spec
=============================================================================
