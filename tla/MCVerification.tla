--------------------------- MODULE MCVerification ---------------------------
(* A small instance of Verification: two documents, one with two chunks.    *)
EXTENDS Verification

CONSTANTS a1, a2, b1, DocA, DocB

MCChunks == {a1, a2, b1}
MCDocuments == {DocA, DocB}
MCDoc == [c \in MCChunks |-> IF c = b1 THEN DocB ELSE DocA]

\* "plain" and "reworded" differ only in function words.
MCWordings == {"plain", "reworded", "other", "template"}
MCContent == [w \in MCWordings |-> IF w = "reworded" THEN "plain" ELSE w]

MCPolicy == [k \in PolicyKeys |->
  IF k \in {"on_supported", "on_resolved_conflict"} THEN "medium" ELSE "low"]

Text(w, cites, bare, docs) ==
  [wording |-> w, cites |-> cites, bare |-> bare, docs |-> docs]

\* Answers with every defect a check looks for, alone.
MCAnswers ==
  {Text(w, cites, {}, {}) : w \in {"plain", "reworded", "other"},
                            cites \in {{}, {a1}, {b1}}}
    \cup {Text("plain", {}, {a1}, {}), Text("plain", {a1}, {b1}, {}),
          Text("plain", {a1}, {}, {DocA}), Text("other", {}, {}, {DocB})}

MCRetrievals == {{}, {a1, a2}, {a1, b1}}
FewLists == {{}, {a2}, {a1, b1}}
=============================================================================
