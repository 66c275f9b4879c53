----------------------------- MODULE Retrieval -----------------------------
(***************************************************************************)
(* retrieve/retriever.py and generate/generator.py.  A chunk is a document *)
(* with the cut of the chunker that made it, one for each document; what   *)
(* the vectors of an index and of a query say is a score for each          *)
(* identifier, and the text a model writes is the identifiers it cites.    *)
(***************************************************************************)
EXTENDS KnowledgeBase, Sequences

CONSTANTS TopK, MinSimilarity

Modes == {"all", "current_only"}

Candidates(chunks, mode) ==
    {x \in chunks : mode = "all" \/ x.doc.status = "current"}

\* sorted() by (-score, chunk_id).
Before(score, x, y) ==
    \/ score[x.doc.id] > score[y.doc.id]
    \/ score[x.doc.id] = score[y.doc.id] /\ x.doc.id < y.doc.id

Rank(score, pool, x) == 1 + Cardinality({y \in pool : Before(score, y, x)})

\* The filter applied to what was ranked, not before it.
HitsFiltered(chunks, score, mode) ==
    Candidates({x \in chunks : Rank(score, chunks, x) <= TopK}, mode)

Hits(chunks, score, mode) ==
    LET pool == Candidates(chunks, mode) IN
    {x \in pool : Rank(score, pool, x) <= TopK}

BelowThreshold(hits, score) ==
    \A x \in hits : score[x.doc.id] < MinSimilarity

ShouldRefuse(hits, score) == hits = {} \/ BelowThreshold(hits, score)

\* _structural_conflicts: a chunk and the one its superseded_by names.
Conflicts(hits) ==
    {<<x.doc.id, x.doc.by>> : x \in {y \in hits : \E z \in hits : z.doc.id = y.doc.by}}

\* Generator.answer: the evidence is withheld when retrieval refuses; the
\* citations are checked against what was retrieved in either case.
Grounded(hits, score, cites) ==
    LET retrieved == {x.doc.id : x \in hits} IN
    [shown |-> IF ShouldRefuse(hits, score) THEN {} ELSE retrieved,
     cites |-> cites,
     valid |-> cites # {} /\ cites \subseteq retrieved,
     cited_superseded |-> {x.doc.id : x \in {y \in hits : y.doc.status # "current"}}
                              \cap cites]
=============================================================================
