------------------------------ MODULE GoldData ------------------------------
(***************************************************************************)
(* gold/: the conflict registry (evaluation/conflicts.py), the question    *)
(* set built against it (scripts/build_question_set.py) and read back      *)
(* (evaluation/question_set.py), and the corpus that both speak of.  An    *)
(* author may edit any of them at any time; a fingerprint is the content.  *)
(*                                                                         *)
(* A text is one value: an anchor, a probe, or a figure.  A corpus is      *)
(* [status, by, body, chunks], the chunks being what the configured        *)
(* chunker makes of the bodies; a chunk is [doc, ordinal].                 *)
(***************************************************************************)
EXTENDS Naturals, FiniteSets

CONSTANTS
    None, HalfWritten,
    CONFLICTS,      \* family -> [questions, cite, avoid, required]
    TOPICS,         \* the questions of no family
    Registries, Corpora,    \* what the author may write
    HandEdits(_),           \* what a question may become in the file
    MaxEdits

VARIABLES
    corpus, registry,       \* the files
    file,                   \* gold/question_set.json
    byhand,                 \* the file was edited since it was built
    accepted,               \* [registry, corpus] that were last found valid
    edits

ASSUME GoldConstants ==
    /\ MaxEdits \in Nat
    /\ None \notin [registry : Registries, corpus : Corpora]

gold_vars == <<corpus, registry, file, byhand, accepted, edits>>

GoldInit ==
    /\ corpus \in Corpora /\ registry \in Registries
    /\ file = None /\ byhand = FALSE /\ accepted = None /\ edits = 0

---------------------------------------------------------------------------
(* conflicts.py                                                            *)

all_families == registry.families
families == {f \in all_families : f.split = "reported"}
tuning_families == {f \in all_families : f.split = "tuning"}

Known(id) == \E f \in all_families : f.id = id
by_id(id) == CHOOSE f \in all_families : f.id = id

is_conflict(f) == f.type # "compatible"

expected_behaviour(f) ==
    CASE f.type = "version_supersession" -> "cite_current_only"
      [] f.type = "mutually_exclusive" -> "surface_both_and_escalate"
      [] f.type = "stricter_looser" -> "prefer_stricter_and_escalate"
      [] f.type = "compatible" -> "answer_without_flagging_conflict"

VALID_TYPES == {"version_supersession", "mutually_exclusive", "stricter_looser", "compatible"}

\* What a family must and must not state, by its type.
_validate_family_shape(f) ==
    /\ f.type \in VALID_TYPES
    /\ Cardinality(f.documents) >= 2 /\ f.facts # {}
    /\ (f.authoritative # None) = (f.type = "version_supersession")
    /\ IF f.type = "stricter_looser" THEN f.stricter \in f.documents ELSE f.stricter = None
    /\ f.type = "stricter_looser" => f.action = "satisfies both"
    /\ f.type = "mutually_exclusive" => f.action = "none, because"
    /\ f.reconciliation = (f.type = "compatible")

_validate_family_against_corpus(f) ==
    /\ f.documents \subseteq DOMAIN corpus.status
    /\ IF f.type = "version_supersession"
       THEN /\ f.authoritative \in DOMAIN corpus.status
            /\ corpus.status[f.authoritative] = "current"
            /\ \A d \in f.documents \ {f.authoritative} :
                  corpus.status[d] = "superseded" /\ corpus.by[d] = f.authoritative
       ELSE \A d \in f.documents : corpus.status[d] = "current"
    /\ \A fact \in f.facts :
          /\ DOMAIN fact.values = DOMAIN fact.anchors
          /\ \A d \in DOMAIN fact.anchors :
                d \in f.documents /\ fact.anchors[d] \in corpus.body[d]
          /\ Cardinality({fact.values[d] : d \in DOMAIN fact.values}) >= 2

corpus_text == UNION {corpus.body[d] : d \in DOMAIN corpus.body}

validate_against_corpus ==
    /\ \A f, g \in all_families : f.id = g.id => f = g
    /\ \A f \in all_families :
          _validate_family_shape(f) /\ _validate_family_against_corpus(f)
    /\ \A d \in DOMAIN corpus.status :
          corpus.status[d] = "superseded" => \E f \in all_families : d \in f.documents
    /\ \A gap \in registry.fully_absent : gap.probes \cap corpus_text = {}
    /\ \A gap \in registry.partially_present :
          /\ gap.mentioned_in \in DOMAIN corpus.status
          /\ gap.must_contain \in corpus.body[gap.mentioned_in]
          /\ gap.probes \cap corpus_text = {}

---------------------------------------------------------------------------
(* question_set.py: what is checked of every set, read or written.         *)

_validate_fields(questions) ==
    /\ \A q, r \in questions : q.id = r.id => q = r
    /\ \A q \in questions :
          /\ q.category = "conflict" => q.family # None
          /\ q.family # None => q.group = q.family
          /\ (q.required = {}) = (q.category = "unanswerable")
          /\ q.category = "unanswerable" => q.expected = {}

_validate_split_integrity(questions) ==
    \A q, r \in questions : q.group = r.group => q.split = r.split

_validate_paraphrases(questions) ==
    \A q \in questions : q.parent # None =>
        \E p \in questions : p.id = q.parent /\ p.group = q.group

Sound(questions) ==
    /\ _validate_fields(questions)
    /\ _validate_split_integrity(questions)
    /\ _validate_paraphrases(questions)

---------------------------------------------------------------------------
(* build_question_set.py                                                   *)

_validate_against_registry(questions) ==
    LET topics == {g.topic : g \in registry.fully_absent \cup registry.partially_present}
        Is(q, set) == \E f \in set : f.id = q.family
        covered == {q.family : q \in questions}
    IN /\ \A q \in questions :
             /\ q.family # None => Known(q.family)
             /\ Is(q, families) => q.split = "test"
             /\ Is(q, tuning_families) => q.split = "dev"
             /\ q.topic # None => q.topic \in topics
             /\ q.family # None => q.behaviour = expected_behaviour(by_id(q.family))
       /\ \A f \in families : f.id \in covered

_validate_against_corpus(questions) ==
    \A q \in questions :
        q.documents \cup q.avoid \cup {c.doc : c \in q.expected} \subseteq DOMAIN corpus.status

\* Split and behaviour of a conflict question come from the registry.
Question(f, n) ==
    [id |-> <<f, n>>, category |-> "conflict", group |-> f, family |-> f, topic |-> None,
     split |-> IF by_id(f) \in tuning_families THEN "dev" ELSE "test",
     behaviour |-> expected_behaviour(by_id(f)),
     parent |-> IF n = 1 THEN None ELSE <<f, 1>>,
     expected |-> CONFLICTS[f].cite, documents |-> {c.doc : c \in CONFLICTS[f].cite},
     avoid |-> CONFLICTS[f].avoid, required |-> CONFLICTS[f].required]

build ==
    TOPICS \cup UNION {{Question(f, n) : n \in 1 .. CONFLICTS[f].questions} : f \in DOMAIN CONFLICTS}

Text(c) == IF c \in DOMAIN corpus.chunks THEN corpus.chunks[c] ELSE {}

\* The chunks that carry a side of what these families dispute.
anchored(some) ==
    {c \in DOMAIN corpus.chunks : \E f \in some : \E fact \in f.facts :
        c.doc \in DOMAIN fact.anchors /\ fact.anchors[c.doc] \in corpus.chunks[c]}

Expects(questions, split) == UNION {q.expected : q \in {r \in questions : r.split = split}}

check_no_tuning_fact_reaches_the_test_split(questions) ==
    Expects(questions, "test") \cap anchored(tuning_families) = {}

check_no_reported_fact_reaches_the_development_split(questions) ==
    Expects(questions, "dev") \cap anchored(families) = {}

check_required_claims_are_evidenced(questions) ==
    \A q \in questions :
        /\ q.family # None => \A c \in q.expected :
              LET f == by_id(q.family)
                  facts == {fact \in f.facts : c.doc \in DOMAIN fact.anchors}
                  candidates == {fact.anchors[c.doc] : fact \in facts}
                                  \cup {r.text : r \in {x \in f.reconciled : x.doc = c.doc}}
              IN candidates # {} => candidates \cap Text(c) # {}
        /\ \A figures \in q.required :
              figures # {} => figures \cap UNION {Text(c) : c \in q.expected} # {}

Buildable ==
    /\ \A f \in DOMAIN CONFLICTS : Known(f)
    /\ LET questions == build IN
       /\ Sound(questions)
       /\ _validate_against_registry(questions)
       /\ _validate_against_corpus(questions)
       /\ check_no_tuning_fact_reaches_the_test_split(questions)
       /\ check_no_reported_fact_reaches_the_development_split(questions)
       /\ check_required_claims_are_evidenced(questions)
       /\ \A q \in questions : q.expected \subseteq DOMAIN corpus.chunks

\* A plausible bug: of the three hashes, the registry's is forgotten.
RecordedCorpus == [corpus |-> corpus]

\* The hashes of the documents and chunks, and of the registry.
Recorded == [corpus |-> corpus, registry |-> registry]

\* main refuses, or writes the set in place and may not live to finish.
BuildSet ==
    /\ Buildable
    /\ file' \in {[questions |-> build, recorded |-> Recorded], HalfWritten}
    /\ byhand' = FALSE
    /\ UNCHANGED <<corpus, registry, accepted, edits>>

---------------------------------------------------------------------------
\* The tests and scripts/kb_summary.py validate the corpus; nothing that builds,
\* loads or runs does.
ValidateCorpus ==
    /\ validate_against_corpus
    /\ accepted' = [registry |-> registry, corpus |-> corpus]
    /\ UNCHANGED <<corpus, registry, file, byhand, edits>>

Author ==
    /\ edits < MaxEdits
    /\ edits' = edits + 1
    /\ \/ registry' \in Registries \ {registry} /\ UNCHANGED <<corpus, file, byhand>>
       \/ corpus' \in Corpora \ {corpus} /\ UNCHANGED <<registry, file, byhand>>
       \/ /\ file \notin {None, HalfWritten}
          /\ \E q \in file.questions : \E r \in HandEdits(q) :
                file' = [file EXCEPT !.questions = (@ \ {q}) \cup {r}]
          /\ byhand' = TRUE
          /\ UNCHANGED <<corpus, registry>>
    /\ UNCHANGED accepted

\* load_question_set, as every program calls it: no hash is given, so none is
\* compared.
Loads == file \notin {None, HalfWritten} /\ Sound(file.questions)

\* A plausible bug: of the hashes, the documents' are not compared.
check_registry == file.recorded.registry = registry

\* The comparison check_provenance makes when it is given the hashes.
check_provenance == file.recorded = Recorded

GoldNext == BuildSet \/ ValidateCorpus \/ Author

GoldSpec == GoldInit /\ [][GoldNext]_gold_vars

GoldTypeOK ==
    /\ corpus \in Corpora /\ registry \in Registries
    /\ \/ file \in {None, HalfWritten}
       \/ /\ file = [questions |-> file.questions, recorded |-> file.recorded]
          /\ file.recorded \in [registry : Registries, corpus : Corpora]
    /\ byhand \in BOOLEAN
    /\ accepted \in {None} \cup [registry : Registries, corpus : Corpora]
    /\ edits \in 0 .. MaxEdits

---------------------------------------------------------------------------
Dev == {q \in file.questions : q.split = "dev"}
Test == {q \in file.questions : q.split = "test"}

\* The passages a question turns on that hold a side of what a family disputes.
Disputed(q, f) ==
    {c \in q.expected : \E fact \in f.facts :
        c.doc \in DOMAIN fact.anchors /\ fact.anchors[c.doc] \in Text(c)}

\* Whatever was edited by hand, no paraphrase of a question that a program
\* loads is in the other split.  And were the recorded hashes compared, which
\* no program does, a file that passes would keep what is developed on from
\* what is reported, as registry and documents stand now: no passage that
\* decides a reported family is expected by a development question, none of a
\* tuning family by a test question, and every reported family is asked about
\* (question_set.py load_question_set, build_question_set.py main).
SplitsAreSealed ==
    Loads =>
        /\ \A q \in Dev, r \in Test :
              /\ q.parent # None => q.parent \notin {r.id, r.parent}
              /\ r.parent # None => r.parent # q.id
        /\ check_provenance /\ ~ byhand =>
              /\ \A f \in families :
                    /\ \E q \in Test : q.family = f.id
                    /\ \A q \in Dev : q.family # f.id /\ Disputed(q, f) = {}
              /\ \A f \in tuning_families, q \in Test :
                    q.family # f.id /\ Disputed(q, f) = {}

InForce(f) == {d \in f.documents : corpus.status[d] = "current"}

\* A document may change its status after its family was typed.  Were the
\* recorded hashes compared, which no program does, a file that passes, built
\* from a registry and documents that were found valid at any time, would ask
\* what its reader can still meet: a question to be answered from the current
\* document alone finds it in force and no other of its family, and every other
\* question of a family finds all its documents, so that the filter for documents
\* in force takes neither side of a live conflict away (conflicts.py
\* _validate_family_against_corpus, question_set.py check_provenance).
QuestionsMeetTheirConflict ==
    Loads /\ check_provenance /\ ~ byhand /\ accepted = file.recorded =>
        \A q \in file.questions : q.family # None =>
            LET f == by_id(q.family) IN
            IF q.behaviour = "cite_current_only"
            THEN InForce(f) \subseteq {f.authoritative} /\ corpus.status[f.authoritative] = "current"
            ELSE InForce(f) = f.documents
=============================================================================
