-------------------------- MODULE ServingContract --------------------------
(***************************************************************************)
(* What the verification layer promises about the answer a reader is       *)
(* served, whatever its model responds and in whatever order the response  *)
(* is read.  While it is read, findings and failed checks only accumulate. *)
(* In the end the draft is served, or a change that some finding calls for *)
(* and no failed check, early or late, stands against: the fixed template  *)
(* or a replacement that can be checked against the retrieved passages.    *)
(* VerifiedAnswer.final_answer is `served`.                                *)
(***************************************************************************)
CONSTANTS Answers, Retrievals, Template, Findings

VARIABLES
  draft, retrieved,
  findings,    \* what the audit has found so far
  flawed,      \* some check on the response has failed
  answered, served

vars == <<draft, retrieved, findings, flawed, answered, served>>

\* Every passage identifier in the answer was retrieved and none of its
\* citations names a whole document.
Checkable(a) == a.cites \cup a.bare \subseteq retrieved /\ a.docs = {}

\* That the draft cannot be checked is a finding before any response.
Init ==
  /\ draft \in Answers
  /\ retrieved \in Retrievals
  /\ findings = IF Checkable(draft) THEN {} ELSE {"citation_repair"}
  /\ flawed = FALSE
  /\ answered = FALSE
  /\ served = Template

\* A part of the response is read: no finding is withdrawn and no failed check
\* forgotten.
Observe ==
  /\ ~answered
  /\ findings \subseteq findings' /\ findings' \subseteq Findings
  /\ flawed => flawed'
  /\ UNCHANGED <<draft, retrieved, answered, served>>

\* The answer is decided, after the last check.
Answer(a) ==
  /\ ~answered
  /\ answered' = TRUE
  /\ served' = a
  /\ flawed => flawed'
  /\ UNCHANGED <<draft, retrieved, findings>>

ServeDraft == Answer(draft)

\* The verifier abstains: its finding is respected, its wording is not.
Abstain ==
  /\ "claim_insufficient" \in findings
  /\ Answer(Template)
  /\ ~flawed'

\* A replacement is checkable, and it does not uncite a cited draft.
Replace(a) ==
  /\ findings # {}
  /\ Checkable(a)
  /\ draft.cites # {} => a.cites # {}
  /\ Answer(a)
  /\ ~flawed'

Next == Observe \/ ServeDraft \/ Abstain \/ \E a \in Answers : Replace(a)

Spec == Init /\ [][Next]_vars
=============================================================================
