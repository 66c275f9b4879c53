------------------------------ MODULE Anchors ------------------------------
(***************************************************************************)
(* scripts/evaluate_retrieval.py anchor_chunks and                         *)
(* scripts/verifier_protocol.py pair_is_present: was the disputed pair in  *)
(* the evidence?  A chunk is [doc, ordinal]; a disputed fact is the set of *)
(* the chunks that carry its anchors.                                      *)
(***************************************************************************)
EXTENDS Naturals, FiniteSets

CONSTANTS Facts,    \* family -> the facts it disputes
          Focal     \* question -> the chunks it expects

\* The fact asked about, or all of them where the expectation meets none.
anchor_chunks(family, question) ==
    LET matching == {f \in Facts[family] : f \cap Focal[question] # {}} IN
    IF matching # {} THEN UNION matching ELSE UNION Facts[family]

\* Both sides, from two different documents.
pair_is_present(anchors, given) ==
    Cardinality({c.doc : c \in anchors \cap given}) >= 2
=============================================================================
