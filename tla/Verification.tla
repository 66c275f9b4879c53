---------------------------- MODULE Verification ----------------------------
(***************************************************************************)
(* The second pass of Arm D: the verifier's response is interpreted by     *)
(* verify/schema.py `parse` and the answer to serve is decided.            *)
(*                                                                         *)
(* One behaviour is one call of Verifier.verify.  The response of the      *)
(* model is never trusted, so every part of it is chosen                   *)
(* nondeterministically at the statement that reads it: the JSON object,   *)
(* each entry of the claims list, the relationship and its evidence, and   *)
(* the revision.  The control of the code (every guard, downgrade and      *)
(* failure it accumulates, in its order) is kept; texts are abstracted to  *)
(* what the serving rule can tell apart (see Answer).                      *)
(***************************************************************************)
EXTENDS Naturals

CONSTANTS
  Chunks,        \* chunk identifiers, retrieved or not
  Documents,     \* document identifiers
  Doc,           \* Doc[c]: the document a chunk identifier belongs to
  Wordings,      \* texts with the citations removed
  Content,       \* Content[w]: the content tokens of a wording
  AbstentionWording,  \* the wording of the fixed template
  Answers,       \* the drafts and revisions a model may write
  Retrievals,    \* the sets of chunks retrieval may return
  EvidenceLists, \* the identifier lists a response may name
  MaxClaims,     \* bound on the length of the claims list
  Policy,        \* config.json, verification.confidence
  NoRevision     \* final_answer is null or blank

VARIABLES
  draft,         \* the answer of the first pass
  retrieved,     \* `available`: the chunks the answer was grounded in
  phase,         \* where parse is
  todo,          \* entries of the claims list not read yet
  claimsPresent, \* the response carried a non-empty claims list
  verdicts,      \* the claim verdicts, after validation
  failures,      \* validation_failures
  invented,      \* invented_ids
  relationship,  \* the relationship, after validation
  conflicting,   \* conflicting_chunks, after validation
  final,         \* the revision the response offered
  result         \* the fields of Verification that describe serving

vars == <<draft, retrieved, phase, todo, claimsPresent, verdicts, failures,
          invented, relationship, conflicting, final, result>>

(***************************************************************************)
(* Vocabulary                                                              *)
(***************************************************************************)
VALID_VERDICTS == {"SUPPORTED", "CONTRADICTED", "INSUFFICIENT_EVIDENCE"}

RESOLVED_RELATIONSHIPS == {"supersession"}

UNRESOLVED_RELATIONSHIPS == {"mutually_exclusive", "stricter_looser"}

CONFLICTING_RELATIONSHIPS == RESOLVED_RELATIONSHIPS \cup UNRESOLVED_RELATIONSHIPS

VALID_RELATIONSHIPS ==
  CONFLICTING_RELATIONSHIPS
    \cup {"contextually_compatible", "no_relationship", "insufficient"}

VALID_WARRANTS == {"conflict_detected", "claim_contradicted",
                   "claim_insufficient", "citation_repair"}

FailureKinds ==
  {"claims_omitted", "claims_not_list", "verdict_unknown", "unsupported",
   "uncontradicted", "relationship_unknown", "one_sided", "invented_in_answer",
   "document_only", "citations_stripped", "repair_rewrote", "no_claim_audit"}

PolicyKeys ==
  {"on_supported", "on_contradiction", "on_insufficient", "on_invented_evidence",
   "on_parse_failure", "on_resolved_conflict", "on_unresolved_conflict"}

Levels == {"low", "medium", "high"}

\* An answer, as the serving rule sees it: its wording, the bracketed chunk
\* citations, the chunk identifiers written bare, and the document-only
\* citations.
Answer == [wording : Wordings, cites : SUBSET Chunks,
           bare : SUBSET Chunks, docs : SUBSET Documents]

ABSTENTION_TEXT ==
  [wording |-> AbstentionWording, cites |-> {}, bare |-> {}, docs |-> {}]

ASSUME Vocabulary ==
  /\ Doc \in [Chunks -> Documents]
  /\ AbstentionWording \in Wordings
  /\ Answers \subseteq Answer
  /\ Retrievals \subseteq SUBSET Chunks
  /\ EvidenceLists \subseteq SUBSET Chunks
  /\ MaxClaims \in Nat
  /\ Policy \in [PolicyKeys -> Levels]
  /\ NoRevision \notin Answer

\* What config.json fixes: a level above "low" is for a clean audit and for a
\* resolved supersession alone.
ASSUME CautiousPolicy ==
  \A k \in PolicyKeys \ {"on_supported", "on_resolved_conflict"} : Policy[k] = "low"

Verdict == [verdict : VALID_VERDICTS, supporting : SUBSET Chunks,
            contradicting : SUBSET Chunks]

\* An entry of the claims list that is a JSON object, as the response wrote it;
\* "other" is a verdict outside the vocabulary.
Entry == [verdict : VALID_VERDICTS \cup {"other"},
          supporting : EvidenceLists, contradicting : EvidenceLists]

Result == [answer : Answer, revised : BOOLEAN, rejected : BOOLEAN,
           warrant : SUBSET VALID_WARRANTS, parseFailed : BOOLEAN,
           confidence : Levels]

NotServed == [answer |-> ABSTENTION_TEXT, revised |-> FALSE, rejected |-> FALSE,
              warrant |-> {}, parseFailed |-> FALSE, confidence |-> "low"]

(***************************************************************************)
(* Helpers of schema.py                                                    *)
(***************************************************************************)

\* Mutant of Kept: the response's identifiers are trusted.
TrustedIds(ids) == ids

\* split_ids keeps the retrieved identifiers and records the rest.
Kept(ids) == ids \cap retrieved
Invented(ids) == ids \ retrieved

cites_a_passage(a) == a.cites # {}

content_tokens(a) == Content[a.wording]

\* CHUNK_ID_RE finds an identifier inside brackets and outside them.
ChunkIds(a) == a.cites \cup a.bare

\* The draft cites something never retrieved, or a whole document.
draft_miscites == ~(ChunkIds(draft) \subseteq retrieved) \/ draft.docs # {}

\* A disagreement has two sides: chunks of at least two documents.
TwoSided(ids) == \E c, d \in ids : Doc[c] # Doc[d]

Judged(v) == \E x \in verdicts : x.verdict = v

AllInsufficient ==
  verdicts # {} /\ \A x \in verdicts : x.verdict = "INSUFFICIENT_EVIDENCE"

warrants ==
  {w \in VALID_WARRANTS :
     \/ w = "conflict_detected"  /\ relationship \in CONFLICTING_RELATIONSHIPS
     \/ w = "claim_contradicted" /\ Judged("CONTRADICTED")
     \/ w = "claim_insufficient" /\ Judged("INSUFFICIENT_EVIDENCE")
     \/ w = "citation_repair"    /\ draft_miscites}

\* Mutant of Recorded: every part of the response is read with a list of its own.
RecordedAfresh(failed) == failed

\* A check that fails is added to the failures of the response.
Recorded(failed) == failures \cup failed

\* A verdict outlives neither an unknown word nor the evidence it lacks.
Audited(verdict, failed) == IF failed = {} THEN verdict ELSE "INSUFFICIENT_EVIDENCE"

\* The revision names an identifier that was not retrieved.
Misidentifies(f) == ~(ChunkIds(f) \subseteq retrieved)

\* Mutant of Uncites: an identifier outside brackets counts as a citation.
UncitesUnlessNamed(f) ==
  ~AllInsufficient /\ cites_a_passage(draft) /\ ChunkIds(f) = {}

\* The revision cites no passage where the draft did.
Uncites(f) == ~AllInsufficient /\ cites_a_passage(draft) /\ ~cites_a_passage(f)

\* What the checks on the offered revision `f` add to the failures.
RevisionFailures(f) ==
  IF f = NoRevision THEN {} ELSE
  {k \in FailureKinds :
     \/ k = "invented_in_answer" /\ Misidentifies(f)
     \/ k = "document_only"      /\ f.docs # {}
     \/ k = "citations_stripped" /\ Uncites(f)
     \/ k = "repair_rewrote"     /\ warrants = {"citation_repair"}
                                 /\ content_tokens(draft) # content_tokens(f)
     \/ k = "no_claim_audit"     /\ ~claimsPresent}

\* A revision with no finding behind it: not a failure, but not served.
Unwarranted(f) == f # NoRevision /\ warrants = {}

\* The answer parse decides to serve for the offered revision `f`, when `fails`
\* are all the failures of the response.
Served(f, fails) ==
  IF fails # {} \/ Unwarranted(f) THEN draft
  ELSE IF AllInsufficient THEN ABSTENTION_TEXT
  ELSE IF f # NoRevision THEN f
  ELSE draft

\* Mutant of Revised: serving a revision counts as a change.
RevisedIfOffered(f, fails) ==
  fails = {} /\ ~Unwarranted(f) /\ (AllInsufficient \/ f # NoRevision)

\* The template or the revision is served, and it is not the draft again.
Revised(f, fails) ==
  /\ fails = {} /\ ~Unwarranted(f)
  /\ AllInsufficient \/ f # NoRevision
  /\ Served(f, fails) # draft

\* Mutant of Flawed: only invented identifiers lower the confidence.
FlawedByIds(fails, inv) == inv # {}

Flawed(fails, inv) == inv # {} \/ fails # {}

\* replace_confidence, on a response that parsed.
Confidence(fails, inv) ==
  Policy[IF Flawed(fails, inv) THEN "on_invented_evidence"
         ELSE IF relationship \in RESOLVED_RELATIONSHIPS THEN "on_resolved_conflict"
         ELSE IF relationship \in UNRESOLVED_RELATIONSHIPS THEN "on_unresolved_conflict"
         ELSE IF AllInsufficient \/ relationship = "insufficient" THEN "on_insufficient"
         ELSE IF Judged("CONTRADICTED") THEN "on_contradiction"
         ELSE "on_supported"]

(***************************************************************************)
(* The call                                                                *)
(***************************************************************************)
Init ==
  /\ draft \in Answers
  /\ retrieved \in Retrievals
  /\ phase = "json"
  /\ todo = 0
  /\ claimsPresent = FALSE
  /\ verdicts = {}
  /\ failures = {}
  /\ invented = {}
  /\ relationship = "insufficient"
  /\ conflicting = {}
  /\ final = NoRevision
  /\ result = NotServed

\* extract_json raises: the draft stands.
ParseFailed ==
  /\ phase = "json"
  /\ phase' = "done"
  /\ result' = [answer |-> draft, revised |-> FALSE, rejected |-> FALSE,
                warrant |-> {}, parseFailed |-> TRUE,
                confidence |-> Policy["on_parse_failure"]]
  /\ UNCHANGED <<draft, retrieved, todo, claimsPresent, verdicts, failures,
                 invented, relationship, conflicting, final>>

\* The claims key is absent, is not a list, or is a list of n entries.
ReadClaims ==
  /\ phase = "json"
  /\ phase' = "claims"
  /\ \/ \E n \in 0..MaxClaims : /\ todo' = n
                                /\ claimsPresent' = (n > 0)
                                /\ UNCHANGED failures
     \/ \E k \in {"claims_omitted", "claims_not_list"} :
          /\ failures' = Recorded({k})
          /\ UNCHANGED <<todo, claimsPresent>>
  /\ UNCHANGED <<draft, retrieved, verdicts, invented, relationship,
                 conflicting, final, result>>

\* An entry that is not an object is passed over.
SkipEntry ==
  /\ phase = "claims" /\ todo > 0
  /\ todo' = todo - 1
  /\ UNCHANGED <<draft, retrieved, phase, claimsPresent, verdicts, failures,
                 invented, relationship, conflicting, final, result>>

\* One claim is judged.
AuditClaim(e) ==
  LET supporting    == Kept(e.supporting)
      contradicting == Kept(e.contradicting)
      failed ==
        {k \in FailureKinds :
           \/ k = "verdict_unknown" /\ e.verdict = "other"
           \/ k = "unsupported"     /\ e.verdict = "SUPPORTED" /\ supporting = {}
           \/ k = "uncontradicted"  /\ e.verdict = "CONTRADICTED"
                                    /\ contradicting = {}}
  IN /\ phase = "claims" /\ todo > 0
     /\ todo' = todo - 1
     /\ failures' = Recorded(failed)
     /\ invented' = invented \cup Invented(e.supporting \cup e.contradicting)
     /\ verdicts' = verdicts \cup
          {[verdict |-> Audited(e.verdict, failed),
            supporting |-> supporting, contradicting |-> contradicting]}
     /\ UNCHANGED <<draft, retrieved, phase, claimsPresent, relationship,
                    conflicting, final, result>>

\* The relationship between the passages; a conflict needs two documents.
JudgeRelationship(r, ids) ==
  LET oneSided == r \in CONFLICTING_RELATIONSHIPS /\ ~TwoSided(Kept(ids))
  IN /\ phase = "claims" /\ todo = 0
     /\ phase' = "revision"
     /\ invented' = invented \cup Invented(ids)
     /\ relationship' =
          IF r \notin VALID_RELATIONSHIPS \/ oneSided THEN "insufficient" ELSE r
     /\ conflicting' = IF oneSided THEN {} ELSE Kept(ids)
     /\ failures' = Recorded(
          {k \in FailureKinds :
             \/ k = "relationship_unknown" /\ r \notin VALID_RELATIONSHIPS
             \/ k = "one_sided"            /\ oneSided})
     /\ UNCHANGED <<draft, retrieved, todo, claimsPresent, verdicts, final, result>>

\* split_ids iterates over a value that is neither null, a string nor a
\* collection: the TypeError leaves parse, verify and the run.
AbortOnIdentifiers ==
  /\ phase = "claims"
  /\ phase' = "aborted"
  /\ UNCHANGED <<draft, retrieved, todo, claimsPresent, verdicts, failures,
                 invented, relationship, conflicting, final, result>>

\* The revision is read, checked, and the answer to serve is decided.
Decide(f) ==
  LET fails  == Recorded(RevisionFailures(f))
      inv    == IF f = NoRevision THEN invented
                ELSE invented \cup Invented(ChunkIds(f))
      revised == Revised(f, fails)
  IN /\ phase = "revision"
     /\ phase' = "done"
     /\ final' = f
     /\ failures' = fails
     /\ invented' = inv
     /\ result' = [answer |-> Served(f, fails), revised |-> revised,
                   rejected |-> f # NoRevision /\ (fails # {} \/ Unwarranted(f)),
                   warrant |-> IF revised THEN warrants ELSE {},
                   parseFailed |-> FALSE,
                   confidence |-> Confidence(fails, inv)]
     /\ UNCHANGED <<draft, retrieved, todo, claimsPresent, verdicts,
                    relationship, conflicting>>

Next ==
  \/ ParseFailed
  \/ ReadClaims
  \/ SkipEntry
  \/ \E e \in Entry : AuditClaim(e)
  \/ \E r \in VALID_RELATIONSHIPS \cup {"other"}, ids \in EvidenceLists :
       JudgeRelationship(r, ids)
  \/ AbortOnIdentifiers
  \/ \E f \in Answers \cup {NoRevision} : Decide(f)

Spec == Init /\ [][Next]_vars

(***************************************************************************)
(* Properties                                                              *)
(***************************************************************************)
TypeOK ==
  /\ draft \in Answers
  /\ retrieved \in Retrievals
  /\ phase \in {"json", "claims", "revision", "done", "aborted"}
  /\ todo \in 0..MaxClaims
  /\ claimsPresent \in BOOLEAN
  /\ verdicts \subseteq Verdict
  /\ failures \subseteq FailureKinds
  /\ invented \subseteq Chunks
  /\ relationship \in VALID_RELATIONSHIPS
  /\ conflicting \subseteq Chunks
  /\ final \in Answers \cup {NoRevision}
  /\ result \in Result

Parsed == phase = "done" /\ ~result.parseFailed

\* A verification layer that finds nothing is a no-op (schema.py:503): unless a
\* conflict or a claim that is not SUPPORTED survived validation, or the draft
\* itself miscites, the reader gets the draft word for word.
NoFindingNoChange ==
  phase = "done" /\ result.answer # draft =>
    \/ relationship \in CONFLICTING_RELATIONSHIPS /\ TwoSided(conflicting)
    \/ \E v \in verdicts : v.verdict # "SUPPORTED"
    \/ draft_miscites

\* Every finding that survives rests on evidence that was retrieved: a SUPPORTED
\* or CONTRADICTED verdict names such a passage, and a conflict names passages of
\* two documents (the docstring of parse).
FindingsRestOnEvidence ==
  /\ \A v \in verdicts :
       /\ v.supporting \cup v.contradicting \subseteq retrieved
       /\ v.verdict = "SUPPORTED" => v.supporting # {}
       /\ v.verdict = "CONTRADICTED" => v.contradicting # {}
  /\ relationship \in CONFLICTING_RELATIONSHIPS =>
       conflicting \subseteq retrieved /\ TwoSided(conflicting)

\* What the citation metrics of the served answer (VerifiedAnswer) can never
\* report of a revision: an identifier that was not retrieved, a document-only
\* citation, or the loss of every citation of a cited draft.
ServedRevisionIsGrounded ==
  phase = "done" /\ result.answer \notin {draft, ABSTENTION_TEXT} =>
    /\ ChunkIds(result.answer) \subseteq retrieved
    /\ result.answer.docs = {}
    /\ cites_a_passage(draft) => cites_a_passage(result.answer)

\* A response that failed any structural check does not reach the reader, even
\* in part: neither its revision nor its abstention (schema.py:543).
FailedResponseIsNotServed ==
  phase = "done" /\ failures # {} => result.answer = draft /\ ~result.revised

\* Every served change names its warrants, each of them a finding or the draft's
\* own miscitation, and nothing else records one (schema.py:251).
WarrantAudit ==
  phase = "done" =>
    /\ result.revised <=> result.answer # draft
    /\ result.revised <=> result.warrant # {}
    /\ result.rejected => result.answer = draft
    /\ result.warrant = {"citation_repair"} =>
         content_tokens(result.answer) = content_tokens(draft)

\* When the verifier supports no claim, no words of the model replace the draft:
\* the fixed template does (schema.py:122).
AbstentionIsTheTemplate ==
  Parsed /\ AllInsufficient => result.answer \in {draft, ABSTENTION_TEXT}

\* The confidence of a clean audit is not attached to an answer whose response
\* failed a check, invented an identifier, left a conflict unresolved or a claim
\* contradicted, or supported nothing; only a resolved supersession may share it.
ConfidenceIsEarned ==
  Parsed /\ result.confidence # "low" =>
    /\ failures = {} /\ invented = {}
    /\ relationship \notin UNRESOLVED_RELATIONSHIPS
    /\ \/ relationship \in RESOLVED_RELATIONSHIPS
       \/ ~AllInsufficient /\ ~Judged("CONTRADICTED")

(***************************************************************************)
(* What the reader may be served, forgetting how it was decided            *)
(***************************************************************************)
Contract == INSTANCE ServingContract WITH
  findings <- warrants,
  flawed   <- failures # {},
  answered <- phase = "done",
  served   <- IF phase = "done" THEN result.answer ELSE ABSTENTION_TEXT,
  Template <- ABSTENTION_TEXT,
  Findings <- VALID_WARRANTS

\* The decision procedure implements the contract of the verification layer: a
\* check that failed anywhere in the response, in whichever claim and however
\* early, withholds every change at its end (schema.py:543, 626), and no change
\* is served that no finding calls for (503).
ImplementsContract == Contract!Spec
=============================================================================
