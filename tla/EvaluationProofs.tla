-------------------------- MODULE EvaluationProofs --------------------------
(***************************************************************************)
(* Theorems about the evaluation: GoldData, for any registries, corpora    *)
(* and edits; StoppingGate and Protocol, for any records, registry, design *)
(* and replies; Analysis, for any arms, runs, questions and judgements.    *)
(***************************************************************************)
EXTENDS GoldData, Protocol, Analysis, CountingLemmas, TLAPS

-----------------------------------------------------------------------------
(* GoldData: type correctness                                              *)

LEMMA InitGoldTypeOK ==
  ASSUME GoldInit
  PROVE  GoldTypeOK
<1>1. 0 \in 0 .. MaxEdits
  BY GoldConstants DEF GoldConstants
<1>2. QED BY <1>1 DEF GoldInit, GoldTypeOK

LEMMA NextGoldTypeOK ==
  ASSUME GoldTypeOK, [GoldNext]_gold_vars
  PROVE  GoldTypeOK'
<1>1. CASE BuildSet
  <2> DEFINE built == [questions |-> build, recorded |-> [corpus |-> corpus, registry |-> registry]]
  <2>1. file' \in {built, HalfWritten}
    BY <1>1 DEF BuildSet, Recorded
  <2>2. built = [questions |-> built.questions, recorded |-> built.recorded]
    OBVIOUS
  <2>3. built.recorded \in [registry : Registries, corpus : Corpora]
    BY DEF GoldTypeOK
  <2> HIDE DEF built
  <2>4. byhand' \in BOOLEAN /\ UNCHANGED <<corpus, registry, accepted, edits>>
    BY <1>1 DEF BuildSet
  <2>5. \/ file' \in {None, HalfWritten}
        \/ /\ file' = [questions |-> file'.questions, recorded |-> file'.recorded]
           /\ file'.recorded \in [registry : Registries, corpus : Corpora]
    BY <2>1, <2>2, <2>3
  <2>6. QED BY <2>4, <2>5 DEF GoldTypeOK
<1>2. CASE ValidateCorpus
  BY <1>2 DEF ValidateCorpus, GoldTypeOK
<1>3. CASE Author
  <2>1. edits' \in 0 .. MaxEdits
    BY <1>3, GoldConstants DEF GoldConstants, Author, GoldTypeOK
  <2>2. corpus' \in Corpora /\ registry' \in Registries
    BY <1>3 DEF Author, GoldTypeOK
  <2>3. byhand' \in BOOLEAN /\ accepted' = accepted
    BY <1>3 DEF Author, GoldTypeOK
  <2>4. \/ file' = file
        \/ /\ file \notin {None, HalfWritten}
           /\ \E questions : file' = [file EXCEPT !.questions = questions]
    BY <1>3 DEF Author
  <2>5. \/ file' \in {None, HalfWritten}
        \/ /\ file' = [questions |-> file'.questions, recorded |-> file'.recorded]
           /\ file'.recorded \in [registry : Registries, corpus : Corpora]
    BY <2>4 DEF GoldTypeOK
  <2>6. QED BY <2>1, <2>2, <2>3, <2>5 DEF GoldTypeOK
<1>4. CASE UNCHANGED gold_vars
  BY <1>4 DEF gold_vars, GoldTypeOK
<1>5. QED BY <1>1, <1>2, <1>3, <1>4 DEF GoldNext

\* Every reachable state of the gold data is well typed.
THEOREM GoldTypeCorrect == GoldSpec => []GoldTypeOK
BY InitGoldTypeOK, NextGoldTypeOK, PTL DEF GoldSpec

-----------------------------------------------------------------------------
(* GoldData: the splits                                                    *)

\* What SplitsAreSealed says of a set of questions, of the registry and the
\* documents it was built against.
Reported(reg) == {f \in reg.families : f.split = "reported"}
Tuning(reg) == {f \in reg.families : f.split = "tuning"}

Decided(q, f, docs) ==
  {c \in q.expected : \E fact \in f.facts :
      /\ c.doc \in DOMAIN fact.anchors
      /\ fact.anchors[c.doc] \in IF c \in DOMAIN docs.chunks THEN docs.chunks[c] ELSE {}}

Sealed(questions, reg, docs) ==
  /\ \A f \in Reported(reg) :
       /\ \E q \in questions : q.split = "test" /\ q.family = f.id
       /\ \A q \in questions :
            q.split = "dev" => q.family # f.id /\ Decided(q, f, docs) = {}
  /\ \A f \in Tuning(reg) : \A q \in questions :
       q.split = "test" => q.family # f.id /\ Decided(q, f, docs) = {}

\* The file is sealed for the registry and the documents whose hashes it
\* records, whatever these have become since.
BuiltIsSealed ==
  file \notin {None, HalfWritten} /\ ~ byhand =>
    Sealed(file.questions, file.recorded.registry, file.recorded.corpus)

\* The builder's checks are as much as is needed: of the five, those of the
\* registry and of the two splits.
LEMMA BuildableIsSealed ==
  ASSUME Buildable
  PROVE  Sealed(build, registry, corpus)
<1> DEFINE Q == build
<1>1. /\ _validate_against_registry(Q)
      /\ check_no_tuning_fact_reaches_the_test_split(Q)
      /\ check_no_reported_fact_reaches_the_development_split(Q)
  BY DEF Buildable
<1> HIDE DEF Q
<1>2. Reported(registry) = families /\ Tuning(registry) = tuning_families
  BY DEF Reported, Tuning, families, tuning_families, all_families
<1>3. ASSUME NEW some, NEW f \in some, NEW q \in Q, NEW c \in Decided(q, f, corpus)
      PROVE  c \in anchored(some) /\ c \in Expects(Q, q.split)
  <2>1. c \in q.expected
    BY DEF Decided
  <2>2. PICK fact \in f.facts :
          /\ c.doc \in DOMAIN fact.anchors
          /\ fact.anchors[c.doc] \in IF c \in DOMAIN corpus.chunks THEN corpus.chunks[c] ELSE {}
    BY DEF Decided
  <2>3. c \in DOMAIN corpus.chunks /\ fact.anchors[c.doc] \in corpus.chunks[c]
    BY <2>2
  <2>4. c \in anchored(some)
    BY <2>2, <2>3 DEF anchored
  <2>5. q.expected \in {x.expected : x \in {r \in Q : r.split = q.split}}
    OBVIOUS
  <2>6. QED BY <2>1, <2>4, <2>5 DEF Expects
<1>4. ASSUME NEW f \in families
      PROVE  /\ \E q \in Q : q.split = "test" /\ q.family = f.id
             /\ \A q \in Q : q.split = "dev" => q.family # f.id
  BY <1>1 DEF _validate_against_registry
<1>5. ASSUME NEW f \in tuning_families, NEW q \in Q, q.split = "test"
      PROVE  q.family # f.id
  BY <1>1, <1>5 DEF _validate_against_registry
<1>6. \A f \in families, q \in Q : q.split = "dev" => Decided(q, f, corpus) = {}
  BY <1>1, <1>3 DEF check_no_reported_fact_reaches_the_development_split
<1>7. \A f \in tuning_families, q \in Q : q.split = "test" => Decided(q, f, corpus) = {}
  BY <1>1, <1>3 DEF check_no_tuning_fact_reaches_the_test_split
<1>8. Sealed(Q, registry, corpus)
  BY <1>2, <1>4, <1>5, <1>6, <1>7 DEF Sealed
<1>9. QED BY <1>8 DEF Q

LEMMA SealedStep ==
  ASSUME BuiltIsSealed, [GoldNext]_gold_vars
  PROVE  BuiltIsSealed'
<1>1. CASE BuildSet
  <2> SUFFICES ASSUME file' \notin {None, HalfWritten}
               PROVE  Sealed(file'.questions, file'.recorded.registry, file'.recorded.corpus)
    BY DEF BuiltIsSealed
  <2>1. Sealed(build, registry, corpus)
    BY <1>1, BuildableIsSealed DEF BuildSet
  <2>2. file' = [questions |-> build, recorded |-> [corpus |-> corpus, registry |-> registry]]
    BY <1>1 DEF BuildSet, Recorded
  <2>3. /\ file'.questions = build
        /\ file'.recorded.registry = registry /\ file'.recorded.corpus = corpus
    BY <2>2
  <2>4. QED BY <2>1, <2>3
<1>2. CASE ValidateCorpus
  BY <1>2 DEF ValidateCorpus, BuiltIsSealed
<1>3. CASE Author
  BY <1>3 DEF Author, BuiltIsSealed
<1>4. CASE UNCHANGED gold_vars
  BY <1>4 DEF gold_vars, BuiltIsSealed
<1>5. QED BY <1>1, <1>2, <1>3, <1>4 DEF GoldNext

LEMMA InitSealed == GoldInit => BuiltIsSealed
BY DEF GoldInit, BuiltIsSealed

\* What the loader checks keeps paraphrases together, also in a file that was
\* edited by hand: a paraphrase is in the group of its parent, and there is one
\* question of an id.
LEMMA ParaphrasesStay ==
  ASSUME NEW questions, Sound(questions),
         NEW q \in questions, NEW r \in questions, q.split # r.split
  PROVE  /\ q.parent # None => q.parent \notin {r.id, r.parent}
         /\ r.parent # None => r.parent # q.id
<1>1. q.group # r.group
  BY DEF Sound, _validate_split_integrity
<1>2. \A x \in questions : x.parent # None =>
        \E p \in questions : p.id = x.parent /\ p.group = x.group
  BY DEF Sound, _validate_paraphrases
<1>3. \A x, y \in questions : x.id = y.id => x = y
  BY DEF Sound, _validate_fields
<1>4. ASSUME NEW x \in questions, NEW y \in questions, x.parent # None, x.parent = y.id
      PROVE  x.group = y.group
  BY <1>2, <1>3, <1>4
<1>5. ASSUME q.parent # None, q.parent = r.parent
      PROVE  FALSE
  <2>1. PICK p \in questions : p.id = q.parent /\ p.group = q.group
    BY <1>2, <1>5
  <2>2. r.group = p.group
    BY <1>4, <1>5, <2>1
  <2>3. QED BY <1>1, <2>1, <2>2
<1>6. QED BY <1>1, <1>4, <1>5

\* For any registries, documents and hand edits, paraphrases never part, and a
\* file whose recorded hashes are those of what lies beside it keeps what is
\* developed on from what is reported.
THEOREM SplitsSealed == GoldSpec => []SplitsAreSealed
<1>1. BuiltIsSealed => SplitsAreSealed
  <2> SUFFICES ASSUME BuiltIsSealed, Loads PROVE SplitsAreSealed
    BY DEF SplitsAreSealed
  <2>1. \A q \in Dev, r \in Test :
          /\ q.parent # None => q.parent \notin {r.id, r.parent}
          /\ r.parent # None => r.parent # q.id
    BY ParaphrasesStay DEF Loads, Dev, Test
  <2>2. ASSUME check_provenance, ~ byhand
        PROVE  /\ \A f \in families :
                    /\ \E q \in Test : q.family = f.id
                    /\ \A q \in Dev : q.family # f.id /\ Disputed(q, f) = {}
               /\ \A f \in tuning_families, q \in Test :
                    q.family # f.id /\ Disputed(q, f) = {}
    <3>1. file.recorded.registry = registry /\ file.recorded.corpus = corpus
      BY <2>2 DEF check_provenance, Recorded
    <3>2. Sealed(file.questions, registry, corpus)
      BY <2>2, <3>1 DEF BuiltIsSealed, Loads
    <3>3. Reported(registry) = families /\ Tuning(registry) = tuning_families
      BY DEF Reported, Tuning, families, tuning_families, all_families
    <3>4. \A q, f : Disputed(q, f) = Decided(q, f, corpus)
      BY DEF Disputed, Decided, Text
    <3>5. QED BY <3>2, <3>3, <3>4 DEF Sealed, Dev, Test
  <2>3. QED BY <2>1, <2>2 DEF SplitsAreSealed
<1>2. QED BY <1>1, InitSealed, SealedStep, PTL DEF GoldSpec

-----------------------------------------------------------------------------
(* GoldData: what a set asks and what is in force                          *)

\* The validation settles which documents of a family are in force.
Settled(reg, docs) ==
  \A f \in reg.families :
    LET inForce == {d \in f.documents : docs.status[d] = "current"} IN
    /\ f.type \in VALID_TYPES
    /\ IF f.type = "version_supersession"
       THEN inForce \subseteq {f.authoritative} /\ docs.status[f.authoritative] = "current"
       ELSE inForce = f.documents

\* What was found valid is settled, whatever has been edited since.
AcceptedIsSettled ==
  accepted # None => Settled(accepted.registry, accepted.corpus)

LEMMA ValidIsSettled ==
  ASSUME validate_against_corpus
  PROVE  Settled(registry, corpus)
<1> SUFFICES ASSUME NEW f \in registry.families
             PROVE  LET inForce == {d \in f.documents : corpus.status[d] = "current"} IN
                    /\ f.type \in VALID_TYPES
                    /\ IF f.type = "version_supersession"
                       THEN inForce \subseteq {f.authoritative} /\ corpus.status[f.authoritative] = "current"
                       ELSE inForce = f.documents
  BY DEF Settled
<1>1. _validate_family_shape(f) /\ _validate_family_against_corpus(f)
  BY DEF validate_against_corpus, all_families
<1>2. QED BY <1>1 DEF _validate_family_shape, _validate_family_against_corpus

LEMMA SettledStep ==
  ASSUME AcceptedIsSettled, [GoldNext]_gold_vars
  PROVE  AcceptedIsSettled'
<1>1. CASE ValidateCorpus
  <2>1. Settled(registry, corpus)
    BY <1>1, ValidIsSettled DEF ValidateCorpus
  <2>2. accepted'.registry = registry /\ accepted'.corpus = corpus
    BY <1>1 DEF ValidateCorpus
  <2>3. QED BY <2>1, <2>2 DEF AcceptedIsSettled
<1>2. CASE UNCHANGED accepted
  BY <1>2 DEF AcceptedIsSettled
<1>3. QED BY <1>1, <1>2 DEF GoldNext, BuildSet, Author, gold_vars

\* What a question expects of an answer is what its family's type asks for.
Typed(questions, reg) ==
  \A q \in questions : q.family # None =>
    /\ \E f \in reg.families : f.id = q.family
    /\ q.behaviour = expected_behaviour(CHOOSE f \in reg.families : f.id = q.family)

\* A file that nobody edited is typed by the registry whose hash it records.
BuiltIsTyped ==
  file \notin {None, HalfWritten} /\ ~ byhand => Typed(file.questions, file.recorded.registry)

LEMMA TypedStep ==
  ASSUME BuiltIsTyped, [GoldNext]_gold_vars
  PROVE  BuiltIsTyped'
<1>1. CASE BuildSet
  <2> SUFFICES ASSUME file' \notin {None, HalfWritten}
               PROVE  Typed(file'.questions, file'.recorded.registry)
    BY DEF BuiltIsTyped
  <2>1. _validate_against_registry(build)
    BY <1>1 DEF BuildSet, Buildable
  <2>2. Typed(build, registry)
    BY <2>1 DEF _validate_against_registry, Typed, Known, by_id, all_families
  <2>3. file' = [questions |-> build, recorded |-> [corpus |-> corpus, registry |-> registry]]
    BY <1>1 DEF BuildSet, Recorded
  <2>4. file'.questions = build /\ file'.recorded.registry = registry
    BY <2>3
  <2>5. QED BY <2>2, <2>4
<1>2. CASE ValidateCorpus
  BY <1>2 DEF ValidateCorpus, BuiltIsTyped
<1>3. CASE Author
  BY <1>3 DEF Author, BuiltIsTyped
<1>4. CASE UNCHANGED gold_vars
  BY <1>4 DEF gold_vars, BuiltIsTyped
<1>5. QED BY <1>1, <1>2, <1>3, <1>4 DEF GoldNext

LEMMA InitMet == GoldInit => AcceptedIsSettled /\ BuiltIsTyped
BY DEF GoldInit, AcceptedIsSettled, BuiltIsTyped

\* For any registries, documents and edits, what a set that passes the
\* comparison asks about is still settled or still disputed, as it was when
\* registry and documents were found valid.
THEOREM StillMet == GoldSpec => []QuestionsMeetTheirConflict
<1>1. ASSUME GoldTypeOK, AcceptedIsSettled, BuiltIsTyped PROVE QuestionsMeetTheirConflict
  <2> SUFFICES ASSUME Loads, check_provenance, ~ byhand, accepted = file.recorded,
                      NEW q \in file.questions, q.family # None
               PROVE  LET f == by_id(q.family) IN
                      IF q.behaviour = "cite_current_only"
                      THEN InForce(f) \subseteq {f.authoritative}
                           /\ corpus.status[f.authoritative] = "current"
                      ELSE InForce(f) = f.documents
    BY DEF QuestionsMeetTheirConflict
  <2> DEFINE f == by_id(q.family)
  <2>1. file.recorded = [corpus |-> corpus, registry |-> registry]
    BY DEF check_provenance, Recorded
  <2>2. file.recorded.registry = registry /\ file.recorded.corpus = corpus
    BY <2>1
  <2>3. accepted # None
    <3>1. file \notin {None, HalfWritten}
      BY DEF Loads
    <3>2. file.recorded \in [registry : Registries, corpus : Corpora]
      BY <1>1, <3>1 DEF GoldTypeOK
    <3>3. QED BY <3>2, GoldConstants
  <2>4. Settled(registry, corpus)
    BY <1>1, <2>2, <2>3 DEF AcceptedIsSettled
  <2>5. Typed(file.questions, registry)
    BY <1>1, <2>2 DEF BuiltIsTyped, Loads
  <2>6. f \in registry.families /\ q.behaviour = expected_behaviour(f)
    <3>1. \E g \in registry.families : g.id = q.family
      BY <2>5 DEF Typed
    <3>2. f = CHOOSE g \in registry.families : g.id = q.family
      BY DEF by_id, all_families
    <3>3. q.behaviour = expected_behaviour(f)
      BY <2>5, <3>2 DEF Typed
    <3>4. QED BY <3>1, <3>2, <3>3
  <2> HIDE DEF f
  <2>7. /\ f.type \in VALID_TYPES
        /\ IF f.type = "version_supersession"
           THEN InForce(f) \subseteq {f.authoritative} /\ corpus.status[f.authoritative] = "current"
           ELSE InForce(f) = f.documents
    BY <2>4, <2>6 DEF Settled, InForce
  <2>8. q.behaviour = "cite_current_only" <=> f.type = "version_supersession"
    BY <2>6, <2>7 DEF expected_behaviour, VALID_TYPES
  <2>9. QED BY <2>7, <2>8 DEF f
<1>2. QED BY <1>1, InitMet, SettledStep, TypedStep, GoldTypeCorrect, PTL DEF GoldSpec

-----------------------------------------------------------------------------
(* StoppingGate: one record for another                                    *)

\* The records, had r been s.
Swapped(records, r, s) == (records \ {r}) \cup {s}

\* Sets that differ in one element at most count accordingly.
LEMMA SwappedCount ==
  ASSUME NEW A, NEW B, NEW r, NEW s, IsFiniteSet(A), A \ {r} = B \ {s}
  PROVE  /\ IsFiniteSet(B) /\ Cardinality(A) \in Nat /\ Cardinality(B) \in Nat
         /\ (r \in A => s \in B) => Cardinality(A) <= Cardinality(B)
         /\ (s \in B => r \in A) => Cardinality(B) <= Cardinality(A)
<1> DEFINE C == A \ {r}
<1>1. IsFiniteSet(C) /\ Cardinality(C) \in Nat
  BY FS_RemoveElement, FS_CardinalityType
<1>2. /\ r \in A => Cardinality(A) = Cardinality(C) + 1
      /\ r \notin A => A = C
  BY <1>1, FS_RemoveElement, FS_CardinalityType
<1>3. (s \in B => B = C \cup {s}) /\ (s \notin B => B = C)
  OBVIOUS
<1>4. s \notin C
  OBVIOUS
<1> HIDE DEF C
<1>5. IsFiniteSet(B) /\ (s \in B => Cardinality(B) = Cardinality(C) + 1)
  BY <1>1, <1>3, <1>4, FS_AddElement
<1>6. s \notin B => B = C
  BY <1>3
<1>7. Cardinality(A) \in Nat /\ Cardinality(B) \in Nat
  BY <1>5, FS_CardinalityType
<1>8. QED BY <1>1, <1>2, <1>5, <1>6, <1>7

\* A better record of the same question.
IsBetter(r, s) ==
  /\ s.question_id = r.question_id /\ s.family_id = r.family_id
  /\ s.conflict_detected = r.conflict_detected
       \/ s.conflict_detected = Families[r.family_id].is_conflict
  /\ s.parse_failed => r.parse_failed
  /\ s.completeness = r.completeness \/ s.completeness = Whole
  /\ r.cites => s.cites
  /\ s.answer_revised = r.answer_revised /\ s.revision_rejected = r.revision_rejected
  /\ s.served_abstention = r.served_abstention

LEMMA ImprovementIsBetter ==
  ASSUME NEW r, r = [field \in AnswerFields |-> r[field]], NEW s \in Improvements(r)
  PROVE  IsBetter(r, s)
BY DEF Improvements, IsBetter, AnswerFields

\* The new record is in no other's place.
LEMMA SwappedRest ==
  ASSUME NEW records, IsRun(records), NEW r \in records, NEW s,
         s.question_id = r.question_id
  PROVE  /\ Swapped(records, r, s) \ {s} = records \ {r}
         /\ s \notin records \ {r}
         /\ s \in Swapped(records, r, s)
         /\ IsFiniteSet(records) /\ IsFiniteSet(Swapped(records, r, s))
<1>1. s \notin records \ {r}
  BY DEF IsRun
<1>2. IsFiniteSet(records) /\ IsFiniteSet(records \ {r})
  BY FS_RemoveElement DEF IsRun, IsMeasured
<1>3. IsFiniteSet((records \ {r}) \cup {s})
  BY <1>2, FS_AddElement
<1>4. QED BY <1>1, <1>2, <1>3 DEF Swapped

-----------------------------------------------------------------------------
(* StoppingGate: families                                                  *)

\* Which families there are, and how many records each has, stays.
LEMMA FamiliesStay ==
  ASSUME NEW records, IsRun(records), NEW r \in records, NEW s, IsBetter(r, s)
  PROVE  LET new == Swapped(records, r, s) IN
         /\ FamiliesOf(new) = FamiliesOf(records)
         /\ genuine(new) = genuine(records) /\ controls(new) = controls(records)
         /\ \A f : Cardinality(OfFamily(new, f)) = Cardinality(OfFamily(records, f))
<1> DEFINE new == Swapped(records, r, s)
<1>1. s.family_id = r.family_id
  BY DEF IsBetter
<1>2. {x.family_id : x \in new} = {x.family_id : x \in records}
  BY <1>1 DEF Swapped
<1>3. FamiliesOf(new) = FamiliesOf(records)
  BY <1>2 DEF FamiliesOf
<1>4. ASSUME NEW f PROVE Cardinality(OfFamily(new, f)) = Cardinality(OfFamily(records, f))
  <2> DEFINE A == OfFamily(records, f)
             B == OfFamily(new, f)
  <2>1. new \ {s} = records \ {r} /\ IsFiniteSet(records) /\ s \in new
    BY SwappedRest DEF IsBetter
  <2>2. A \ {r} = B \ {s} /\ (r \in A <=> s \in B)
    BY <1>1, <2>1 DEF OfFamily
  <2>3. IsFiniteSet(A)
    BY <2>1, FS_Subset DEF OfFamily
  <2> HIDE DEF A, B
  <2>4. Cardinality(A) <= Cardinality(B) /\ Cardinality(B) <= Cardinality(A)
        /\ Cardinality(A) \in Nat /\ Cardinality(B) \in Nat
    BY <2>2, <2>3, SwappedCount
  <2>5. Cardinality(A) = Cardinality(B)
    BY <2>4
  <2>6. QED BY <2>5 DEF A, B
<1>5. QED BY <1>3, <1>4 DEF genuine, controls

\* A genuine family that was detected still is, and a control that was not still
\* is not.
LEMMA DetectionImproves ==
  ASSUME NEW records, IsRun(records), NEW r \in records, NEW s, IsBetter(r, s)
  PROVE  LET new == Swapped(records, r, s) IN
         /\ \A f \in genuine(records) : detected_by_majority(records, f) => detected_by_majority(new, f)
         /\ \A f \in controls(records) : detected_by_majority(new, f) => detected_by_majority(records, f)
<1> DEFINE new == Swapped(records, r, s)
           Found(R, f) == {x \in OfFamily(R, f) : x.conflict_detected}
<1>1. new \ {s} = records \ {r} /\ IsFiniteSet(records) /\ s \in new /\ s.family_id = r.family_id
  BY SwappedRest DEF IsBetter
<1>2. ASSUME NEW f
      PROVE  /\ Found(records, f) \ {r} = Found(new, f) \ {s}
             /\ IsFiniteSet(Found(records, f))
             /\ Needed(new, f) = Needed(records, f)
  <2>1. Found(records, f) \ {r} = Found(new, f) \ {s}
    BY <1>1 DEF OfFamily
  <2>2. IsFiniteSet(Found(records, f))
    BY <1>1, FS_Subset DEF OfFamily
  <2>3. Cardinality(OfFamily(new, f)) = Cardinality(OfFamily(records, f))
    BY FamiliesStay
  <2>4. Needed(new, f) = Needed(records, f)
    BY <2>3 DEF Needed
  <2>5. QED BY <2>1, <2>2, <2>4
<1>3. ASSUME NEW f
      PROVE  Needed(records, f) \in Int
  <2>1. Cardinality(OfFamily(records, f)) \in Nat
    BY <1>1, FS_Subset, FS_CardinalityType DEF OfFamily
  <2>2. QED BY <2>1 DEF Needed, Min, MAJORITY
<1>4. ASSUME NEW f, Families[f].is_conflict
      PROVE  detected_by_majority(records, f) => detected_by_majority(new, f)
  <2>1. r \in Found(records, f) => s \in Found(new, f)
    BY <1>1, <1>4 DEF OfFamily, IsBetter
  <2> DEFINE A == Found(records, f)
             B == Found(new, f)
  <2>2. A \ {r} = B \ {s} /\ IsFiniteSet(A) /\ Needed(new, f) = Needed(records, f)
    BY <1>2
  <2>3. Detected(records, f) = Cardinality(A) /\ Detected(new, f) = Cardinality(B)
    BY DEF Detected
  <2> HIDE DEF A, B
  <2>4. Cardinality(A) <= Cardinality(B) /\ Cardinality(A) \in Nat /\ Cardinality(B) \in Nat
    <3>1. r \in A => s \in B
      BY <2>1 DEF A, B
    <3>2. QED BY <2>2, <3>1, SwappedCount
  <2>5. QED BY <1>3, <2>2, <2>3, <2>4 DEF detected_by_majority
<1>5. ASSUME NEW f, ~ Families[f].is_conflict
      PROVE  detected_by_majority(new, f) => detected_by_majority(records, f)
  <2>1. s \in Found(new, f) => r \in Found(records, f)
    BY <1>1, <1>5 DEF OfFamily, IsBetter
  <2> DEFINE A == Found(records, f)
             B == Found(new, f)
  <2>2. A \ {r} = B \ {s} /\ IsFiniteSet(A) /\ Needed(new, f) = Needed(records, f)
    BY <1>2
  <2>3. Detected(records, f) = Cardinality(A) /\ Detected(new, f) = Cardinality(B)
    BY DEF Detected
  <2> HIDE DEF A, B
  <2>4. Cardinality(B) <= Cardinality(A) /\ Cardinality(A) \in Nat /\ Cardinality(B) \in Nat
    <3>1. s \in B => r \in A
      BY <2>1 DEF A, B
    <3>2. QED BY <2>2, <3>1, SwappedCount
  <2>5. QED BY <1>3, <2>2, <2>3, <2>4 DEF detected_by_majority
<1>6. QED BY <1>4, <1>5 DEF genuine, controls

LEMMA CountsImprove ==
  ASSUME NEW records, IsRun(records), NEW r \in records, NEW s, IsBetter(r, s)
  PROVE  LET new == Swapped(records, r, s) IN
         /\ genuine_detected(records) \in Nat /\ genuine_detected(new) \in Nat
         /\ genuine_detected(records) <= genuine_detected(new)
         /\ controls_falsely_detected(records) \in Nat /\ controls_falsely_detected(new) \in Nat
         /\ controls_falsely_detected(new) <= controls_falsely_detected(records)
         /\ controls_falsely_detected(records) <= Cardinality(controls(records))
         /\ Cardinality(controls(records)) \in Nat
         /\ parse_failures(new) <= parse_failures(records)
         /\ parse_failures(records) \in Nat /\ parse_failures(new) \in Nat
         /\ invalid_revisions_served(records) = {} => invalid_revisions_served(new) = {}
<1> DEFINE new == Swapped(records, r, s)
<1>1. new \ {s} = records \ {r} /\ IsFiniteSet(records) /\ s \in new
  BY SwappedRest DEF IsBetter
<1>2. IsFiniteSet(genuine(records)) /\ IsFiniteSet(controls(records))
  <2> DEFINE family == [x \in records |-> x.family_id]
  <2>1. family \in Surjection(records, {x.family_id : x \in records})
    BY DEF Surjection
  <2>2. IsFiniteSet({x.family_id : x \in records})
    BY <1>1, <2>1, FS_Surjection
  <2>3. IsFiniteSet(FamiliesOf(records))
    BY <2>2, FS_Subset DEF FamiliesOf
  <2>4. QED BY <2>3, FS_Subset DEF genuine, controls
<1>3. genuine(new) = genuine(records) /\ controls(new) = controls(records)
  BY FamiliesStay
<1>4. /\ genuine_detected(records) \in Nat /\ genuine_detected(new) \in Nat
      /\ genuine_detected(records) <= genuine_detected(new)
  <2> DEFINE A == {f \in genuine(records) : detected_by_majority(records, f)}
             B == {f \in genuine(records) : detected_by_majority(new, f)}
  <2>1. A \subseteq B
    BY DetectionImproves
  <2>2. IsFiniteSet(A) /\ IsFiniteSet(B)
    BY <1>2, FS_Subset
  <2>3. Cardinality(A) \in Nat /\ Cardinality(B) \in Nat /\ Cardinality(A) <= Cardinality(B)
    BY <2>1, <2>2, FS_Subset, FS_CardinalityType
  <2>4. QED BY <1>3, <2>3 DEF genuine_detected
<1>5. /\ controls_falsely_detected(records) \in Nat /\ controls_falsely_detected(new) \in Nat
      /\ controls_falsely_detected(new) <= controls_falsely_detected(records)
      /\ controls_falsely_detected(records) <= Cardinality(controls(records))
      /\ Cardinality(controls(records)) \in Nat
  <2> DEFINE A == {f \in controls(records) : detected_by_majority(records, f)}
             B == {f \in controls(records) : detected_by_majority(new, f)}
  <2>1. B \subseteq A /\ A \subseteq controls(records)
    BY DetectionImproves
  <2>2. IsFiniteSet(A) /\ IsFiniteSet(B)
    BY <1>2, FS_Subset
  <2>3. /\ Cardinality(A) \in Nat /\ Cardinality(B) \in Nat /\ Cardinality(B) <= Cardinality(A)
        /\ Cardinality(A) <= Cardinality(controls(records)) /\ Cardinality(controls(records)) \in Nat
    BY <1>2, <2>1, <2>2, FS_Subset, FS_CardinalityType
  <2>4. QED BY <1>3, <2>3 DEF controls_falsely_detected
<1>6. /\ parse_failures(new) <= parse_failures(records)
      /\ parse_failures(records) \in Nat /\ parse_failures(new) \in Nat
  <2> DEFINE A == {x \in records : x.parse_failed}
             B == {x \in new : x.parse_failed}
  <2>1. A \ {r} = B \ {s} /\ (s \in B => r \in A)
    BY <1>1 DEF IsBetter
  <2>2. IsFiniteSet(A)
    BY <1>1, FS_Subset
  <2>3. Cardinality(A) \in Nat /\ Cardinality(B) \in Nat /\ Cardinality(B) <= Cardinality(A)
    BY <2>1, <2>2, SwappedCount
  <2>4. QED BY <2>3 DEF parse_failures
<1>7. ASSUME invalid_revisions_served(records) = {}
      PROVE  invalid_revisions_served(new) = {}
  <2>1. structurally_invalid(s) => structurally_invalid(r)
    BY DEF structurally_invalid, IsBetter
  <2>2. QED BY <1>1, <1>7, <2>1 DEF invalid_revisions_served
<1>8. QED BY <1>4, <1>5, <1>6, <1>7

-----------------------------------------------------------------------------
(* StoppingGate: completeness                                              *)

\* A greater quotient, rounded down, is not less.
LEMMA DivMonotone ==
  ASSUME NEW a \in Int, NEW b \in Int, NEW n \in Nat, NEW m \in Nat, n > 0, m > 0, a * m <= b * n
  PROVE  a \div n <= b \div m
<1> DEFINE p == a \div n
           q == b \div m
<1>1. p \in Int /\ q \in Int /\ p * n <= a /\ b < q * m + m
  BY DivBounds
<1> HIDE DEF p, q
<1>2. (p * n) * m <= a * m
  BY <1>1
<1>3. b * n < (q * m + m) * n
  BY <1>1
<1>4. (p * n) * m = (p * m) * n /\ (q * m + m) * n = ((q + 1) * m) * n
  BY <1>1
<1>5. p * m < (q + 1) * m
  BY <1>1, <1>2, <1>3, <1>4
<1>6. p < q + 1
  BY <1>1, <1>5
<1>7. p <= q
  BY <1>1, <1>6
<1>8. QED BY <1>7 DEF p, q

\* A part of a whole, k times, is at most k.
LEMMA DivRange ==
  ASSUME NEW a \in Int, NEW n \in Nat, n > 0, NEW k \in Nat, 0 <= a, a <= k * n
  PROVE  0 <= a \div n /\ a \div n <= k
<1> DEFINE p == a \div n
<1>1. p \in Int /\ p * n <= a /\ a < p * n + n
  BY DivBounds
<1> HIDE DEF p
<1>2. 0 < (p + 1) * n /\ p * n <= k * n
  BY <1>1
<1>3. 0 < p + 1
  BY <1>1, <1>2
<1>4. p <= k
  BY <1>1, <1>2
<1>5. QED BY <1>1, <1>3, <1>4 DEF p

\* group_level of the completeness, written out.
Measured(records) == {x \in records : x.completeness # Undefined}
ScoredGroups(records) == {x.family_id : x \in Measured(records)}
OfGroup(records, g) == {x \in records : x.family_id = g /\ x.completeness # Undefined}
Complete(records, g) == [x \in OfGroup(records, g) |-> x.completeness]
Mean(records, g) ==
  (12 * Sum(Complete(records, g), OfGroup(records, g))) \div Cardinality(OfGroup(records, g))
Means(records) == [g \in ScoredGroups(records) |-> Mean(records, g)]
Total12(records) == Sum(Means(records), ScoredGroups(records))

LEMMA CompletenessReads ==
  ASSUME NEW records, NEW baseline
  PROVE  CompletenessHolds(records, baseline) <=>
           /\ ScoredGroups(records) # {} /\ ScoredGroups(baseline) # {}
           /\ Total12(records) * Cardinality(ScoredGroups(baseline))
                - Total12(baseline) * Cardinality(ScoredGroups(records))
              >= - Tolerance * Cardinality(ScoredGroups(records)) * Cardinality(ScoredGroups(baseline))
BY DEF CompletenessHolds, DeltaKnown, group_level, GroupsOf, GroupMean, Scale, SumFunction,
       Sum, Total12, Means, Mean, Complete, OfGroup, ScoredGroups, Measured

\* A mean of 1.
Top == 12 * Whole

\* A group's mean is between 0 and 1.
LEMMA MeanRange ==
  ASSUME NEW records, IsMeasured(records), NEW g
  PROVE  /\ IsFiniteSet(OfGroup(records, g))
         /\ \A x \in OfGroup(records, g) : Complete(records, g)[x] \in 0 .. Whole
         /\ g \in ScoredGroups(records) <=> OfGroup(records, g) # {}
         /\ LET n == Cardinality(OfGroup(records, g))
                sum == Sum(Complete(records, g), OfGroup(records, g))
            IN /\ n \in Nat /\ sum \in Int /\ 0 <= sum /\ sum <= Whole * n
               /\ g \in ScoredGroups(records) => n > 0 /\ Mean(records, g) \in 0 .. Top
<1> DEFINE G == OfGroup(records, g)
           v == Complete(records, g)
           n == Cardinality(G)
           sum == Sum(v, G)
<1>1. IsFiniteSet(G) /\ n \in Nat /\ (G # {} => n > 0)
  <2>1. IsFiniteSet(G)
    BY FS_Subset DEF IsMeasured, OfGroup
  <2>2. QED BY <2>1, FS_CardinalityType, FS_EmptySet
<1>0. Whole \in Nat /\ Top \in Nat
  BY GateConstants DEF Top
<1>2. \A x \in G : v[x] \in 0 .. Whole
  BY DEF IsMeasured, OfGroup, Complete
<1>3. g \in ScoredGroups(records) <=> G # {}
  BY DEF ScoredGroups, Measured, OfGroup
<1>4. sum \in Int /\ 0 <= sum /\ sum <= Whole * n
  <2> HIDE DEF G, v
  <2>1. \A x \in G : v[x] \in Int /\ 1 * v[x] <= Whole /\ 1 * v[x] >= 0
    BY <1>0, <1>2
  <2>2. sum \in Int
    BY <1>1, <2>1, SumStep
  <2> DEFINE one == 1
             zero == 0
  <2>3. /\ one \in Int /\ zero \in Int /\ Whole \in Int
        /\ \A x \in G : v[x] \in Int /\ one * v[x] <= Whole /\ one * v[x] >= zero
    BY <1>0, <2>1
  <2> HIDE DEF one, zero
  <2>4. one * Sum(v, G) <= Whole * n
    BY <1>1, <2>3, SumBounded
  <2>5. one * Sum(v, G) >= zero * n
    BY <1>1, <2>3, SumBounded
  <2>6. QED BY <1>0, <1>1, <2>2, <2>4, <2>5 DEF one, zero
<1>5. ASSUME g \in ScoredGroups(records) PROVE n > 0 /\ Mean(records, g) \in 0 .. Top
  <2>1. n > 0
    BY <1>1, <1>3, <1>5
  <2> HIDE DEF n, sum
  <2>2. 12 * sum \in Int /\ 0 <= 12 * sum /\ 12 * sum <= Top * n /\ (12 * sum) \div n \in Int
    <3>1. 12 * (Whole * n) = (12 * Whole) * n /\ Whole * n \in Int
      BY <1>0, <1>1
    <3>2. QED BY <1>1, <1>4, <2>1, <3>1 DEF Top
  <2>3. 0 <= (12 * sum) \div n /\ (12 * sum) \div n <= Top
    BY <1>0, <1>1, <2>1, <2>2, DivRange
  <2>4. (12 * sum) \div n \in 0 .. Top
    BY <1>0, <2>2, <2>3
  <2>5. Mean(records, g) = (12 * sum) \div n
    BY DEF Mean, n, sum
  <2>6. QED BY <2>1, <2>4, <2>5
<1>6. QED BY <1>1, <1>2, <1>3, <1>4, <1>5

\* So is each summand of the total, which is then at most one for each group.
LEMMA TotalRange ==
  ASSUME NEW records, IsMeasured(records)
  PROVE  /\ IsFiniteSet(ScoredGroups(records)) /\ Cardinality(ScoredGroups(records)) \in Nat
         /\ \A g \in ScoredGroups(records) : Means(records)[g] = Mean(records, g)
                                         /\ Means(records)[g] \in 0 .. Top
         /\ Total12(records) \in Int
         /\ Total12(records) <= Top * Cardinality(ScoredGroups(records))
<1> DEFINE G == ScoredGroups(records)
           f == Means(records)
<1>1. IsFiniteSet(G)
  <2> DEFINE family == [x \in Measured(records) |-> x.family_id]
  <2>1. IsFiniteSet(Measured(records))
    BY FS_Subset DEF IsMeasured, Measured
  <2>2. family \in Surjection(Measured(records), G)
    BY DEF Surjection, ScoredGroups
  <2>3. QED BY <2>1, <2>2, FS_Surjection
<1>2. \A g \in G : f[g] = Mean(records, g) /\ f[g] \in 0 .. Top
  BY MeanRange DEF Means
<1> HIDE DEF G, f
<1>0. Top \in Nat
  BY GateConstants DEF Top
<1>3. Cardinality(G) \in Nat
  BY <1>1, FS_CardinalityType
<1>4. \A g \in G : f[g] \in Int /\ f[g] <= Top
  BY <1>0, <1>2
<1>5. Sum(f, G) \in Int
  BY <1>1, <1>4, SumStep
<1> DEFINE one == 1
<1>6. one \in Int /\ Top \in Int /\ \A g \in G : one * f[g] <= Top
  BY <1>0, <1>4
<1> HIDE DEF one
<1>7. one * Sum(f, G) <= Top * Cardinality(G)
  BY <1>1, <1>4, <1>6, SumBounded
<1>8. Sum(f, G) <= Top * Cardinality(G)
  BY <1>0, <1>3, <1>5, <1>7 DEF one
<1>9. QED BY <1>1, <1>2, <1>3, <1>5, <1>8 DEF G, f, Total12

\* What one better record does to the mean of a group.
LEMMA MeanImproves ==
  ASSUME NEW records, IsRun(records), NEW r \in records, NEW s, IsBetter(r, s)
  PROVE  LET new == Swapped(records, r, s) IN
         /\ IsMeasured(new)
         /\ ScoredGroups(records) \subseteq ScoredGroups(new)
         /\ ScoredGroups(new) \subseteq ScoredGroups(records) \cup {r.family_id}
         /\ \A g \in ScoredGroups(records) : Mean(records, g) <= Mean(new, g)
         /\ \A g \in ScoredGroups(new) \ ScoredGroups(records) : Mean(new, g) = Top
<1> DEFINE new == Swapped(records, r, s)
<1>1. /\ new \ {s} = records \ {r} /\ s \notin records \ {r} /\ s \in new
      /\ IsFiniteSet(new) /\ IsMeasured(records)
  BY SwappedRest DEF IsBetter, IsRun
<1>2. /\ s.family_id = r.family_id
      /\ r.completeness \in (0 .. Whole) \cup {Undefined}
      /\ s.completeness = r.completeness \/ s.completeness = Whole
      /\ Undefined \notin 0 .. Whole /\ Whole \in 0 .. Whole
      /\ Whole \in Nat /\ Top \in Nat
  BY <1>1, GateConstants DEF IsBetter, IsMeasured, Top
<1>3. IsMeasured(new)
  BY <1>1, <1>2 DEF IsMeasured, Swapped
<1>4. ASSUME NEW g
      PROVE  /\ OfGroup(records, g) \ {r} = OfGroup(new, g) \ {s}
             /\ r \in OfGroup(records, g) => s \in OfGroup(new, g) /\ r.completeness <= s.completeness
                                             /\ r.completeness \in Int /\ s.completeness \in Int
             /\ r \notin OfGroup(records, g) /\ s \in OfGroup(new, g) =>
                    s.completeness = Whole /\ g = r.family_id
  BY <1>1, <1>2 DEF OfGroup
<1>5. ASSUME NEW g
      PROVE  /\ g \in ScoredGroups(records) => g \in ScoredGroups(new) /\ Mean(records, g) <= Mean(new, g)
             /\ g \in ScoredGroups(new) /\ g \notin ScoredGroups(records) => Mean(new, g) = Top /\ g = r.family_id
  <2> DEFINE A == OfGroup(records, g)
             B == OfGroup(new, g)
             C == A \ {r}
             v == Complete(records, g)
             w == Complete(new, g)
             n == Cardinality(A)
             m == Cardinality(B)
             a == Sum(v, A)
             b == Sum(w, B)
  <2>1. /\ IsFiniteSet(A) /\ n \in Nat /\ a \in Int /\ 0 <= a /\ a <= Whole * n
        /\ IsFiniteSet(B) /\ m \in Nat /\ b \in Int /\ 0 <= b /\ b <= Whole * m
        /\ g \in ScoredGroups(records) <=> A # {}
        /\ g \in ScoredGroups(new) <=> B # {}
        /\ g \in ScoredGroups(records) => n > 0 /\ Mean(records, g) \in 0 .. Top
        /\ g \in ScoredGroups(new) => m > 0 /\ Mean(new, g) \in 0 .. Top
        /\ \A x \in A : v[x] \in 0 .. Whole
        /\ \A x \in B : w[x] \in 0 .. Whole
    BY <1>1, <1>3, MeanRange
  <2>2. Mean(records, g) = (12 * a) \div n /\ Mean(new, g) = (12 * b) \div m
    BY DEF Mean
  <2>3. /\ C = B \ {s} /\ s \notin C
        /\ r \in A => s \in B /\ v[r] <= w[s] /\ v[r] \in Int /\ w[s] \in Int
        /\ r \notin A /\ s \in B => w[s] = Whole /\ g = r.family_id
        /\ \A x \in C : v[x] = w[x]
    <3>1. (\A x \in A : v[x] = x.completeness) /\ (\A x \in B : w[x] = x.completeness)
      BY DEF Complete
    <3>2. s \notin C
      BY <1>1 DEF OfGroup
    <3>3. QED BY <1>4, <3>1, <3>2
  <2> HIDE DEF A, B, v, w
  <2>4. IsFiniteSet(C) /\ Cardinality(C) \in Nat /\ Sum(v, C) = Sum(w, C) /\ Sum(v, C) \in Int
    <3>1. IsFiniteSet(C)
      BY <2>1, FS_RemoveElement
    <3>2. \A x \in C : v[x] \in Int /\ w[x] = v[x]
      BY <2>1, <2>3
    <3> HIDE DEF C
    <3>3. QED BY <3>1, <3>2, SumCongruence, SumStep, FS_CardinalityType
  <2>5. r \in A => n = Cardinality(C) + 1 /\ a = v[r] + Sum(v, C)
    <3>1. r \in A => Cardinality(C) = n - 1
      BY <2>1, FS_RemoveElement
    <3>2. \A x \in A : v[x] \in Int
      BY <2>1
    <3>3. r \in A => a = v[r] + Sum(v, A \ {r})
      BY <2>1, <3>2, SumRemove
    <3> HIDE DEF n
    <3>4. QED BY <2>1, <2>4, <3>1, <3>3
  <2>6. s \in B => m = Cardinality(C) + 1 /\ b = w[s] + Sum(w, C)
    <3>1. s \in B => Cardinality(B \ {s}) = m - 1
      BY <2>1, FS_RemoveElement
    <3>2. \A x \in B : w[x] \in Int
      BY <2>1
    <3>3. s \in B => b = w[s] + Sum(w, B \ {s})
      BY <2>1, <3>2, SumRemove
    <3>4. B \ {s} = C
      BY <2>3
    <3>5. s \in B => Cardinality(C) = m - 1 /\ b = w[s] + Sum(w, C)
      BY <3>1, <3>3, <3>4
    <3> HIDE DEF m, b, C
    <3>6. QED BY <2>1, <3>5
  <2>7. (r \notin A => A = C) /\ (s \notin B => B = C)
    BY <2>3
  <2>8. CASE s \notin B
    <3>1. A = B /\ A = C
      BY <2>3, <2>7, <2>8
    <3>2. a = b /\ n = m
      BY <2>4, <3>1
    <3> HIDE DEF a, b, n, m
    <3>3. Mean(records, g) = Mean(new, g)
      BY <2>2, <3>2
    <3>4. QED BY <2>1, <3>1, <3>3
  <2>9. CASE s \in B /\ r \in A
    <3>1. n = m /\ a <= b
      BY <2>1, <2>3, <2>4, <2>5, <2>6, <2>9
    <3>2. A # {} /\ B # {}
      BY <2>9
    <3> HIDE DEF a, b, n, m
    <3> DEFINE p == 12 * a
               q == 12 * b
    <3>3. n > 0 /\ p \in Int /\ q \in Int /\ p * n <= q * n
      BY <2>1, <3>1, <3>2
    <3> HIDE DEF p, q
    <3>4. p \div n <= q \div n
      BY <2>1, <3>3, DivMonotone
    <3>5. Mean(records, g) <= Mean(new, g)
      BY <2>2, <3>1, <3>4 DEF p, q
    <3>6. QED BY <2>1, <3>2, <3>5
  <2>10. CASE s \in B /\ r \notin A
    <3>1. m = n + 1 /\ b = a + Whole /\ A = C /\ B # {} /\ g = r.family_id
      <4>1. A = C /\ B # {} /\ g = r.family_id /\ w[s] = Whole
        BY <2>3, <2>7, <2>10
      <4>2. a = Sum(v, C) /\ n = Cardinality(C)
        BY <4>1
      <4>3. m = Cardinality(C) + 1 /\ b = w[s] + Sum(v, C)
        BY <2>4, <2>6, <2>10
      <4> HIDE DEF C, a, b, n, m
      <4>4. QED BY <1>2, <2>1, <4>1, <4>2, <4>3
    <3>2. CASE A # {}
      <4> HIDE DEF a, b, n, m
      <4> DEFINE p == 12 * a
                 q == 12 * b
      <4>1. n > 0 /\ m > 0
        BY <2>1, <3>1, <3>2
      <4>2. p * m = p * n + p /\ q * n = p * n + Top * n /\ p <= Top * n /\ p \in Int /\ q \in Int
        <5>1. Top * n = 12 * (Whole * n) /\ Whole * n \in Int
          BY <1>2, <2>1 DEF Top
        <5>2. q = p + Top /\ p \in Int /\ q \in Int /\ p <= Top * n
          BY <1>2, <2>1, <3>1, <5>1 DEF Top
        <5>3. q * n = p * n + Top * n
          BY <1>2, <2>1, <5>2
        <5>4. QED BY <2>1, <3>1, <5>2, <5>3
      <4> HIDE DEF p, q
      <4>3. p * m <= q * n
        BY <1>2, <2>1, <4>2
      <4>4. p \div n <= q \div m
        BY <2>1, <4>1, <4>2, <4>3, DivMonotone
      <4>5. Mean(records, g) <= Mean(new, g)
        BY <2>2, <4>4 DEF p, q
      <4>6. QED BY <2>1, <3>1, <3>2, <4>5
    <3>3. CASE A = {}
      <4>1. n = 0
        BY <3>3, FS_EmptySet
      <4> HIDE DEF n, m, a, b
      <4>2. a = 0 /\ b = Whole /\ m = 1
        BY <1>2, <2>1, <3>1, <4>1
      <4>3. Mean(new, g) = Top
        BY <1>2, <2>2, <4>2 DEF Top
      <4>4. QED BY <2>1, <3>1, <3>3, <4>3
    <3>4. QED BY <3>2, <3>3
  <2>11. QED BY <2>8, <2>9, <2>10
<1>6. QED BY <1>3, <1>5

\* The total grows, by a whole group's mean where there is a new group.
LEMMA TotalImproves ==
  ASSUME NEW records, IsRun(records), NEW r \in records, NEW s, IsBetter(r, s)
  PROVE  LET new == Swapped(records, r, s)
             h == Cardinality(ScoredGroups(records))
             k == Cardinality(ScoredGroups(new))
         IN /\ IsMeasured(new)
            /\ ScoredGroups(records) \subseteq ScoredGroups(new)
            /\ \/ k = h /\ Total12(records) <= Total12(new)
               \/ k = h + 1 /\ Total12(records) + Top <= Total12(new)
<1> DEFINE new == Swapped(records, r, s)
           G == ScoredGroups(records)
           H == ScoredGroups(new)
           f == Means(records)
           e == Means(new)
<1>1. /\ IsMeasured(new) /\ IsMeasured(records)
      /\ G \subseteq H /\ H \subseteq G \cup {r.family_id}
      /\ \A g \in G : Mean(records, g) <= Mean(new, g)
      /\ \A g \in H \ G : Mean(new, g) = Top
  BY MeanImproves DEF IsRun
<1>2. /\ IsFiniteSet(G) /\ Cardinality(G) \in Nat /\ IsFiniteSet(H)
      /\ \A g \in G : f[g] = Mean(records, g) /\ f[g] \in 0 .. Top
      /\ \A g \in H : e[g] = Mean(new, g) /\ e[g] \in 0 .. Top
      /\ Total12(records) = Sum(f, G) /\ Total12(new) = Sum(e, H)
  BY <1>1, TotalRange DEF Total12
<1> HIDE DEF G, H, f, e, new
<1>3. \A g \in G : f[g] \in Int /\ e[g] \in Int /\ f[g] <= e[g]
  BY <1>1, <1>2
<1>4. Sum(f, G) <= Sum(e, G) /\ Sum(f, G) \in Int /\ Sum(e, G) \in Int
  BY <1>2, <1>3, SumMonotone, SumStep
<1>5. CASE H = G
  BY <1>1, <1>2, <1>4, <1>5 DEF G, H, new
<1>6. CASE H # G
  <2> DEFINE y == r.family_id
  <2>1. y \notin G /\ H = G \cup {y} /\ e[y] = Top
    BY <1>1, <1>2, <1>6
  <2>2. Cardinality(G \cup {y}) = Cardinality(G) + 1
    BY <1>2, <2>1, FS_AddElement
  <2>3. \A g \in G \cup {y} : e[g] \in Int
    BY <1>2, <2>1
  <2> HIDE DEF y
  <2>4. Sum(e, G \cup {y}) = e[y] + Sum(e, G)
    BY <1>2, <2>1, <2>3, SumAdd
  <2>5. Cardinality(H) = Cardinality(G) + 1 /\ Sum(e, H) = Top + Sum(e, G)
    BY <2>1, <2>2, <2>4
  <2>6. QED BY <1>1, <1>2, <1>4, <2>5 DEF G, H, new
<1>7. QED BY <1>5, <1>6

\* The delta against a baseline never falls.
LEMMA CompletenessImproves ==
  ASSUME NEW records, IsRun(records), NEW r \in records, NEW s, IsBetter(r, s),
         NEW baseline, IsMeasured(baseline), CompletenessHolds(records, baseline)
  PROVE  CompletenessHolds(Swapped(records, r, s), baseline)
<1> DEFINE new == Swapped(records, r, s)
           h == Cardinality(ScoredGroups(records))
           k == Cardinality(ScoredGroups(new))
           n == Cardinality(ScoredGroups(baseline))
           T == Total12(records)
           U == Total12(new)
           B == Total12(baseline)
<1>1. /\ IsMeasured(new) /\ IsMeasured(records)
      /\ ScoredGroups(records) \subseteq ScoredGroups(new)
      /\ (k = h /\ T <= U) \/ (k = h + 1 /\ T + Top <= U)
  BY TotalImproves DEF IsRun
<1>2. /\ h \in Nat /\ k \in Nat /\ n \in Nat /\ T \in Int /\ U \in Int /\ B \in Int
      /\ B <= Top * n /\ Top \in Nat /\ Tolerance \in Nat
  BY <1>1, TotalRange, GateConstants DEF Top
<1>3. /\ ScoredGroups(records) # {} /\ ScoredGroups(baseline) # {}
      /\ T * n - B * h >= - Tolerance * h * n
  BY CompletenessReads
<1>4. ScoredGroups(new) # {}
  BY <1>1, <1>3
<1>5. SUFFICES U * n - B * k >= - Tolerance * k * n
  BY <1>3, <1>4, CompletenessReads
<1> HIDE DEF new, h, k, n, T, U, B
<1>6. CASE k = h /\ T <= U
  <2>1. T * n <= U * n /\ T * n \in Int /\ U * n \in Int
    BY <1>2, <1>6
  <2>2. B * k \in Int /\ Tolerance * k * n \in Int
    BY <1>2
  <2>3. T * n - B * k >= - (Tolerance * k * n)
    BY <1>2, <1>3, <1>6
  <2>4. QED BY <2>1, <2>2, <2>3
<1>7. CASE k = h + 1 /\ T + Top <= U
  <2>1. T * n + Top * n <= U * n
    <3>1. (T + Top) * n <= U * n
      BY <1>2, <1>7
    <3>2. (T + Top) * n = T * n + Top * n
      BY <1>2
    <3>3. QED BY <3>1, <3>2
  <2>2. B * k = B * h + B
    BY <1>2, <1>7
  <2>3. Tolerance * h * n <= Tolerance * k * n
    <3>1. h * n <= k * n /\ h * n \in Nat /\ k * n \in Nat
      BY <1>2, <1>7
    <3>2. Tolerance * (h * n) <= Tolerance * (k * n)
      BY <1>2, <3>1
    <3>3. Tolerance * h * n = Tolerance * (h * n) /\ Tolerance * k * n = Tolerance * (k * n)
      BY <1>2
    <3>4. QED BY <3>2, <3>3
  <2>4. /\ T * n \in Int /\ U * n \in Int /\ B * h \in Int /\ B * k \in Int
        /\ Tolerance * h * n \in Int /\ Tolerance * k * n \in Int
    BY <1>2
  <2>5. T * n - B * h >= - (Tolerance * h * n)
    BY <1>3, <1>2
  <2>6. QED BY <1>2, <2>1, <2>2, <2>3, <2>4, <2>5
<1>8. QED BY <1>1, <1>6, <1>7

-----------------------------------------------------------------------------
(* StoppingGate: the decision                                              *)

LEMMA DecisionImproves ==
  ASSUME NEW records, IsRun(records), NEW r \in records, NEW s, IsBetter(r, s),
         NEW baseline, IsMeasured(baseline)
  PROVE  Rank(decision(Swapped(records, r, s), baseline)) >= Rank(decision(records, baseline))
<1> DEFINE new == Swapped(records, r, s)
           d == decision(records, baseline)
           e == decision(new, baseline)
           stops(R) == \/ /\ controls(R) # {}
                          /\ controls_falsely_detected(R) = Cardinality(controls(R))
                       \/ genuine(R) # {} /\ genuine_detected(R) = 0
<1>1. /\ invalid_revisions_served(records) = {} => invalid_revisions_served(new) = {}
      /\ ~ stops(records) => ~ stops(new)
      /\ ~ Unmet(records, baseline) => ~ Unmet(new, baseline)
  <2>1. /\ genuine(new) = genuine(records) /\ controls(new) = controls(records)
    BY FamiliesStay
  <2>2. /\ genuine_detected(records) \in Nat /\ genuine_detected(new) \in Nat
        /\ genuine_detected(records) <= genuine_detected(new)
        /\ controls_falsely_detected(records) \in Nat /\ controls_falsely_detected(new) \in Nat
        /\ controls_falsely_detected(new) <= controls_falsely_detected(records)
        /\ controls_falsely_detected(records) <= Cardinality(controls(records))
        /\ Cardinality(controls(records)) \in Nat
        /\ parse_failures(new) <= parse_failures(records)
        /\ parse_failures(records) \in Nat /\ parse_failures(new) \in Nat
        /\ invalid_revisions_served(records) = {} => invalid_revisions_served(new) = {}
    BY CountsImprove
  <2>3. CompletenessHolds(records, baseline) => CompletenessHolds(new, baseline)
    BY CompletenessImproves
  <2>4. DETECTION_REQUIRED \in Nat /\ PARSE_FAILURES_ALLOWED \in Nat
    BY GateConstants
  <2> HIDE DEF new
  <2>5. ~ stops(records) => ~ stops(new)
    BY <2>1, <2>2
  <2>6. ~ Unmet(records, baseline) => ~ Unmet(new, baseline)
    BY <2>1, <2>2, <2>3, <2>4 DEF Unmet
  <2>7. QED BY <2>2, <2>5, <2>6
<1>2. ASSUME NEW R
      PROVE  decision(R, baseline) =
               IF invalid_revisions_served(R) # {} THEN "DEFECT"
               ELSE IF stops(R) THEN "STOP"
               ELSE IF Unmet(R, baseline) THEN "FAIL" ELSE "PROCEED"
  BY DEF decision
<1>3. Rank("DEFECT") = 0 /\ Rank("STOP") = 1 /\ Rank("FAIL") = 2 /\ Rank("PROCEED") = 3
  BY DEF Rank
<1>4. /\ d = IF invalid_revisions_served(records) # {} THEN "DEFECT"
               ELSE IF stops(records) THEN "STOP"
               ELSE IF Unmet(records, baseline) THEN "FAIL" ELSE "PROCEED"
      /\ e = IF invalid_revisions_served(new) # {} THEN "DEFECT"
               ELSE IF stops(new) THEN "STOP"
               ELSE IF Unmet(new, baseline) THEN "FAIL" ELSE "PROCEED"
  BY <1>2
<1> HIDE DEF new, stops, d, e
<1>5. /\ d = "DEFECT" => e \in {"DEFECT", "STOP", "FAIL", "PROCEED"}
      /\ d = "STOP" => e \in {"STOP", "FAIL", "PROCEED"}
      /\ d = "FAIL" => e \in {"FAIL", "PROCEED"}
      /\ d = "PROCEED" => e = "PROCEED"
      /\ d \in {"DEFECT", "STOP", "FAIL", "PROCEED"}
  BY <1>1, <1>4
<1>6. Rank(e) >= Rank(d)
  BY <1>3, <1>5
<1>7. QED BY <1>6 DEF d, e, new

-----------------------------------------------------------------------------

\* The gate, once taken, is that of the latest pilot.
GateIsRead ==
  /\ pilots \in Seq(Runs)
  /\ gate # Pending => pilots # <<>> /\ gate = evaluate_gate(Latest, Baseline)

LEMMA GateReads == ProtocolSpec => []GateIsRead
<1>1. ProtocolInit => GateIsRead
  BY DEF ProtocolInit, GateIsRead
<1>2. GateIsRead /\ [ProtocolNext]_protocol_vars => GateIsRead'
  <2> SUFFICES ASSUME GateIsRead, [ProtocolNext]_protocol_vars PROVE GateIsRead'
    OBVIOUS
  <2>1. CASE Gate
    BY <2>1 DEF Gate, GateIsRead, Latest
  <2>2. CASE UNCHANGED <<pilots, gate>>
    BY <2>2 DEF GateIsRead, Latest
  <2>3. \/ Gate \/ UNCHANGED <<pilots, gate>>
    BY DEF ProtocolNext, validate_design, DryRun, require_committed_protocol, require_clean_pilot,
           BuildSweep, Block, Die, Write, summarise, Goto, protocol_vars
  <2>4. QED BY <2>1, <2>2, <2>3
<1>3. QED BY <1>1, <1>2, PTL DEF ProtocolSpec

LEMMA LatestIsARun ==
  ASSUME GateIsRead, gate # Pending
  PROVE  IsRun(Latest) /\ gate = evaluate_gate(Latest, Baseline)
<1>1. pilots \in Seq(Runs) /\ pilots # <<>>
  BY DEF GateIsRead
<1>2. Len(pilots) \in 1 .. Len(pilots)
  BY <1>1
<1>3. Latest \in Runs
  BY <1>1, <1>2 DEF Latest
<1>4. QED BY <1>3, ProtocolConstants DEF GateIsRead

\* A pilot that does better at one question is never judged worse, whatever
\* the registry and thresholds are and however the other questions went
\* (stopping_gate.py GateResult.decision).
THEOREM GateMonotone == ProtocolSpec => []GateIsMonotone
<1>1. GateIsRead => GateIsMonotone
  <2> SUFFICES ASSUME GateIsRead, gate # Pending, NEW r \in Latest, NEW better \in Improvements(r)
               PROVE  Rank(decision((Latest \ {r}) \cup {better}, Baseline)) >= Rank(gate.decision)
    BY DEF GateIsMonotone
  <2>1. IsRun(Latest) /\ gate = evaluate_gate(Latest, Baseline)
    BY LatestIsARun
  <2>2. IsBetter(r, better)
    BY <2>1, ImprovementIsBetter DEF IsRun
  <2>3. Rank(decision(Swapped(Latest, r, better), Baseline)) >= Rank(decision(Latest, Baseline))
    BY <2>1, <2>2, DecisionImproves, ProtocolConstants
  <2>4. gate.decision = decision(Latest, Baseline)
    BY <2>1 DEF evaluate_gate
  <2>5. QED BY <2>3, <2>4 DEF Swapped
<1>2. QED BY <1>1, GateReads, PTL

\* Refusing one more question never raises the coverage and never lowers the
\* verifier's own errors (stopping_gate.py grounded_answer_coverage).
THEOREM RefusalsBuyNothing == ProtocolSpec => []RefusalBuysNothing
<1>1. GateIsRead => RefusalBuysNothing
  <2> DEFINE refused(r) == [r EXCEPT !.served_abstention = TRUE]
             other(r) == evaluate_gate((Latest \ {r}) \cup {refused(r)}, Baseline)
  <2> SUFFICES ASSUME GateIsRead, gate # Pending, NEW r \in claim_making(Latest)
               PROVE  /\ AtMost(other(r).coverage, gate.coverage)
                      /\ other(r).verifier_errors >= gate.verifier_errors
    BY DEF RefusalBuysNothing
  <2> DEFINE s == refused(r)
             new == Swapped(Latest, r, s)
  <2>1. IsRun(Latest) /\ gate = evaluate_gate(Latest, Baseline) /\ r \in Latest /\ ~ r.served_abstention
    BY LatestIsARun DEF claim_making
  <2>2. /\ s.question_id = r.question_id /\ s.served_abstention
        /\ s.category = r.category /\ s.expected = r.expected /\ s.retrieved = r.retrieved
    <3>1. r = [field \in AnswerFields |-> r[field]]
      BY <2>1 DEF IsRun
    <3>2. QED BY <3>1 DEF AnswerFields
  <2> HIDE DEF s
  <2>3. /\ new \ {s} = Latest \ {r} /\ s \in new /\ IsFiniteSet(Latest)
    BY <2>1, <2>2, SwappedRest
  <2> HIDE DEF new
  <2>4. Cardinality(new) = Cardinality(Latest) /\ Cardinality(Latest) \in Nat
    <3>1. /\ Cardinality(Latest) \in Nat /\ Cardinality(new) \in Nat
          /\ Cardinality(Latest) <= Cardinality(new) /\ Cardinality(new) <= Cardinality(Latest)
      BY <2>1, <2>3, SwappedCount
    <3>2. QED BY <3>1
  <2>5. /\ Cardinality(validly_cited(new)) <= Cardinality(validly_cited(Latest))
        /\ Cardinality(validly_cited(new)) \in Nat /\ Cardinality(validly_cited(Latest)) \in Nat
    <3> DEFINE A == validly_cited(Latest)
               B == validly_cited(new)
    <3>1. A \ {r} = B \ {s} /\ s \notin B
      BY <2>2, <2>3 DEF validly_cited, claim_making
    <3>2. IsFiniteSet(A)
      BY <2>3, FS_Subset DEF validly_cited, claim_making
    <3> HIDE DEF A, B
    <3>3. QED BY <3>1, <3>2, SwappedCount DEF A, B
  <2>6. Cardinality(verifier_errors(Latest)) <= Cardinality(verifier_errors(new))
    <3> DEFINE A == verifier_errors(Latest)
               B == verifier_errors(new)
    <3>1. A \ {r} = B \ {s} /\ r \notin A
      BY <2>1, <2>3 DEF verifier_errors, falsely_refused
    <3>2. IsFiniteSet(A)
      BY <2>3, FS_Subset DEF verifier_errors, falsely_refused
    <3> HIDE DEF A, B
    <3>3. QED BY <3>1, <3>2, SwappedCount DEF A, B
  <2>7. /\ gate.coverage = Rate(validly_cited(Latest), Latest)
        /\ gate.verifier_errors = Cardinality(verifier_errors(Latest))
        /\ other(r).coverage = Rate(validly_cited(new), new)
        /\ other(r).verifier_errors = Cardinality(verifier_errors(new))
    BY <2>1 DEF evaluate_gate, grounded_answer_coverage, Swapped, new, s
  <2>8. AtMost(other(r).coverage, gate.coverage)
    <3> DEFINE p == Cardinality(validly_cited(new))
               q == Cardinality(validly_cited(Latest))
               n == Cardinality(Latest)
    <3>1. /\ gate.coverage = [part |-> q, whole |-> n]
          /\ other(r).coverage = [part |-> p, whole |-> n]
      BY <2>4, <2>7 DEF Rate
    <3>2. p \in Nat /\ q \in Nat /\ n \in Nat /\ p <= q
      BY <2>4, <2>5
    <3> HIDE DEF p, q, n
    <3>3. p * n <= q * n
      BY <3>2
    <3> HIDE DEF other
    <3>4. QED BY <3>1, <3>3 DEF AtMost
  <2>9. other(r).verifier_errors >= gate.verifier_errors
    <3>1. Cardinality(verifier_errors(Latest)) \in Nat /\ Cardinality(verifier_errors(new)) \in Nat
      <4>1. IsFiniteSet(new)
        BY <2>1, <2>2, SwappedRest DEF new
      <4>2. QED BY <2>3, <4>1, FS_Subset, FS_CardinalityType DEF verifier_errors, falsely_refused
    <3> HIDE DEF other
    <3>2. QED BY <2>6, <2>7, <3>1
  <2>10. QED BY <2>8, <2>9
<1>2. QED BY <1>1, GateReads, PTL

-----------------------------------------------------------------------------
(* Protocol: the order of its steps                                        *)

Sweep == {Item(q, c) : q \in DOMAIN Questions, c \in CONDITIONS}

\* The rows of the first n passes.
Passes(n) == {Row(i, b, m) : i \in Sweep, b \in 1 .. n, m \in MODELS}

\* Each stage has behind it what the ones before it checked; the rows are
\* those of the passes that are over, and what is written and reported is
\* what was then there.
InOrder ==
  /\ block \in 0 .. REPEATS
  /\ stage \in {"declared", "frozen", "admitted", "running", "written", "reported"} => DesignHolds
  /\ stage \in {"frozen", "admitted", "running", "written", "reported"} => tree = "clean"
  /\ stage \in {"admitted", "running", "written", "reported"} => invalid_revisions_served(Latest) = {}
  /\ stage \in {"start", "declared", "frozen", "admitted"} => block = 0
  /\ stage \in {"running", "written", "reported"} => sweep = Sweep
  /\ rows = Passes(block)
  /\ IF stage \in {"written", "reported"} THEN written = rows /\ block = REPEATS ELSE written = Pending
  /\ IF stage = "reported"
     THEN report = [rule |-> apply_rules(Entries), entries |-> Entries, measures |-> stability]
     ELSE report = Pending

LEMMA Orderly == ProtocolSpec => []InOrder
<1>0. REPEATS \in Nat \ {0}
  BY ProtocolConstants
<1>1. ProtocolInit => InOrder
  <2>1. Passes(0) = {}
    BY DEF Passes
  <2>2. QED BY <1>0, <2>1 DEF ProtocolInit, InOrder
<1>2. InOrder /\ [ProtocolNext]_protocol_vars => InOrder'
  <2> SUFFICES ASSUME InOrder, [ProtocolNext]_protocol_vars PROVE InOrder'
    OBVIOUS
  <2> USE <1>0
  <2>0. /\ UNCHANGED pilots => invalid_revisions_served(Latest)' = invalid_revisions_served(Latest)
        /\ UNCHANGED <<replies, block>> => Passes(block)' = Passes(block)
        /\ UNCHANGED written => Entries' = Entries /\ stability' = stability
    <3>1. UNCHANGED pilots => invalid_revisions_served(Latest)' = invalid_revisions_served(Latest)
      BY DEF Latest, invalid_revisions_served, structurally_invalid
    <3>2. UNCHANGED <<replies, block>> => Passes(block)' = Passes(block)
      BY DEF Passes, Row, Reading, detected
    <3>3. UNCHANGED written => Entries' = Entries
      BY DEF Entries, block_result, Most, Shown
    <3>4. UNCHANGED written => stability' = stability
      BY DEF stability, Agreed, Cell
    <3>5. QED BY <3>1, <3>2, <3>3, <3>4
  <2>1. CASE Gate
    BY <2>0, <2>1 DEF Gate, InOrder
  <2>2. CASE validate_design
    BY <2>0, <2>2 DEF validate_design, Goto, InOrder
  <2>3. CASE DryRun
    BY <2>0, <2>3 DEF DryRun, Goto, InOrder
  <2>4. CASE require_committed_protocol
    BY <2>0, <2>4 DEF require_committed_protocol, Goto, InOrder
  <2>5. CASE require_clean_pilot
    BY <2>0, <2>5 DEF require_clean_pilot, Goto, InOrder
  <2>6. CASE BuildSweep
    BY <2>0, <2>6 DEF BuildSweep, InOrder, Sweep
  <2>7. CASE Block
    <3>1. Passes(block + 1) = Passes(block) \cup {Row(i, block + 1, m) : i \in Sweep, m \in MODELS}
      <4>1. 1 .. block + 1 = 1 .. block \cup {block + 1}
        BY DEF InOrder
      <4>2. QED BY <4>1 DEF Passes
    <3>2. Passes(block)' = Passes(block + 1)
      <4> DEFINE n == block + 1
      <4>1. block' = n /\ replies' = replies
        BY <2>7 DEF Block
      <4> HIDE DEF n
      <4>2. \A i, b, m : Row(i, b, m)' = Row(i, b, m)
        BY <4>1 DEF Row, Reading, detected
      <4>3. Passes(block)' = {Row(i, b, m) : i \in Sweep, b \in 1 .. n, m \in MODELS}
        BY <4>1, <4>2 DEF Passes
      <4>4. QED BY <4>3 DEF Passes, n
    <3>3. rows' = Passes(block)'
      BY <2>7, <3>1, <3>2 DEF Block, InOrder
    <3>4. block' \in 0 .. REPEATS
      BY <2>7 DEF Block, InOrder
    <3>5. QED BY <2>0, <2>7, <3>3, <3>4 DEF Block, InOrder
  <2>8. CASE Die
    BY <2>0, <2>8 DEF Die, Goto, InOrder
  <2>9. CASE Write
    BY <2>0, <2>9 DEF Write, InOrder
  <2>10. CASE summarise
    BY <2>0, <2>10 DEF summarise, InOrder
  <2>11. CASE UNCHANGED protocol_vars
    BY <2>0, <2>11 DEF protocol_vars, InOrder
  <2>12. QED
    BY <2>1, <2>2, <2>3, <2>4, <2>5, <2>6, <2>7, <2>8, <2>9, <2>10, <2>11 DEF ProtocolNext
<1>3. QED BY <1>1, <1>2, PTL DEF ProtocolSpec

\* What a row of the sweep says of its call.
LEMMA RowReads ==
  ASSUME NEW q, NEW c, NEW b, NEW m
  PROVE  LET r == Row(Item(q, c), b, m) IN
         /\ r.repeat = b /\ r.model = m /\ r.condition = c /\ r.question_id = q
         /\ r.family_id = Questions[q]
         /\ r.draft = <<q, c, 1>> /\ r.present = Retrieval(q, c)
         /\ r.pair_present = Item(q, c).pair_present
BY DEF Row, Reading, Item

\* What is written compares the models, conditions and blocks on the same
\* inputs, each call once, for any questions, chunks, models and replies
\* (verifier_protocol.py main).
THEOREM SameInput == ProtocolSpec => []ComparedOnTheSameInput
<1>1. InOrder => ComparedOnTheSameInput
  <2> SUFFICES ASSUME InOrder, written # Pending PROVE ComparedOnTheSameInput
    BY DEF ComparedOnTheSameInput
  <2>1. /\ written = Passes(REPEATS)
        /\ tree = "clean" /\ DesignHolds /\ invalid_revisions_served(Latest) = {}
    BY DEF InOrder
  <2>2. ASSUME NEW r \in written
        PROVE  \E q \in DOMAIN Questions, c \in CONDITIONS, b \in 1 .. REPEATS, m \in MODELS :
                  r = Row(Item(q, c), b, m)
    BY <2>1 DEF Passes, Sweep
  <2>3. ASSUME NEW b \in 1 .. REPEATS, NEW m \in MODELS, NEW c \in CONDITIONS, NEW q \in DOMAIN Questions
        PROVE  Cardinality({r \in Cell(m, c, q) : r.repeat = b}) = 1
    <3>1. Row(Item(q, c), b, m) \in written
      BY <2>1 DEF Passes, Sweep
    <3>2. {r \in Cell(m, c, q) : r.repeat = b} = {Row(Item(q, c), b, m)}
      BY <2>2, <3>1, RowReads DEF Cell
    <3>3. QED BY <3>2, FS_Singleton
  <2>4. ASSUME NEW r \in written, NEW s \in written, r.question_id = s.question_id, r.condition = s.condition
        PROVE  r.draft = s.draft /\ r.present = s.present
    BY <2>2, <2>4, RowReads
  <2>5. ASSUME NEW r \in written, r.condition = "oracle_pair"
        PROVE  r.present \subseteq anchor_chunks(r.family_id, r.question_id)
    <3>1. PICK q \in DOMAIN Questions, c \in CONDITIONS, b \in 1 .. REPEATS, m \in MODELS :
             r = Row(Item(q, c), b, m)
      BY <2>2
    <3>2. /\ r.present = Retrieval(q, "oracle_pair") /\ r.family_id = Questions[q] /\ r.question_id = q
      BY <2>5, <3>1, RowReads
    <3>3. QED BY <3>2 DEF Retrieval, oracle_retrieval
  <2>6. QED BY <2>1, <2>3, <2>4, <2>5 DEF ComparedOnTheSameInput
<1>2. QED BY <1>1, Orderly, PTL

-----------------------------------------------------------------------------
(* Protocol: the rules                                                     *)

\* The calls of a block, of one of its families, and the families of which
\* most calls detect or name the conflict.
Own(b, m, c) == {r \in written : r.repeat = b /\ r.model = m /\ r.condition = c}

CallsOf(b, m, c, f) ==
  {r \in written : r.repeat = b /\ r.model = m /\ r.condition = c /\ r.family_id = f}

Detecting(b, m, c) ==
  {f \in SawThePair(b, m, c) :
    Cardinality({r \in CallsOf(b, m, c, f) : r.detected})
      > Cardinality({r \in CallsOf(b, m, c, f) : ~ r.detected})}

Naming(b, m, c) ==
  {f \in SawThePair(b, m, c) :
    Cardinality({r \in CallsOf(b, m, c, f) : r.classified})
      > Cardinality({r \in CallsOf(b, m, c, f) : ~ r.classified})}

Genuine == {f \in Asked : Families[f].is_conflict}

\* Most of a set is more than what is left of it.
LEMMA MostIsMore ==
  ASSUME NEW S, IsFiniteSet(S), NEW T \in SUBSET S
  PROVE  2 * Cardinality(T) > Cardinality(S) <=> Cardinality(T) > Cardinality(S \ T)
<1>1. /\ IsFiniteSet(T) /\ IsFiniteSet(S \ T)
      /\ Cardinality(T) \in Nat /\ Cardinality(S \ T) \in Nat
  BY FS_Subset, FS_CardinalityType
<1>2. T \cup (S \ T) = S /\ T \cap (S \ T) = {}
  OBVIOUS
<1> DEFINE R == S \ T
<1> HIDE DEF R
<1>3. Cardinality(T \cup R) = Cardinality(T) + Cardinality(R) - Cardinality(T \cap R)
  BY <1>1, FS_Union DEF R
<1>4. Cardinality(T \cup R) = Cardinality(S) /\ Cardinality(T \cap R) = 0
  BY <1>2, FS_EmptySet DEF R
<1>5. Cardinality(S) = Cardinality(T) + Cardinality(R)
  BY <1>1, <1>3, <1>4 DEF R
<1>6. QED BY <1>1, <1>5 DEF R

LEMMA CallsAreFinite ==
  ASSUME written = Passes(REPEATS), NEW b, NEW m, NEW c
  PROVE  IsFiniteSet(Own(b, m, c)) /\ IsFiniteSet(Asked)
<1> DEFINE call == [q \in DOMAIN Questions |-> Row(Item(q, c), b, m)]
           calls == {Row(Item(q, c), b, m) : q \in DOMAIN Questions}
           family == [q \in DOMAIN Questions |-> Questions[q]]
<1>1. IsFiniteSet(DOMAIN Questions)
  BY ProtocolConstants
<1>2. IsFiniteSet(calls)
  <2>1. call \in Surjection(DOMAIN Questions, calls)
    BY DEF Surjection
  <2>2. QED BY <1>1, <2>1, FS_Surjection
<1>3. Own(b, m, c) \subseteq calls
  BY RowReads DEF Own, Passes, Sweep
<1>4. IsFiniteSet(Asked)
  <2>1. family \in Surjection(DOMAIN Questions, Asked)
    BY DEF Surjection, Asked
  <2>2. QED BY <1>1, <2>1, FS_Surjection
<1>5. QED BY <1>2, <1>3, <1>4, FS_Subset

\* An entry of the report counts the families its block saw the pair of.
LEMMA EntryReads ==
  ASSUME written = Passes(REPEATS), NEW b, NEW m, NEW c
  PROVE  LET e == block_result(b, m, c) IN
         /\ e.block = b /\ e.model = m /\ e.condition = c
         /\ e.genuine = Cardinality(SawThePair(b, m, c))
         /\ e.genuine_detected = Cardinality(Detecting(b, m, c))
         /\ e.genuine_classified = Cardinality(Naming(b, m, c))
<1> DEFINE own == Own(b, m, c)
           conflicts == {f \in Shown(own) : Families[f].is_conflict}
<1>1. conflicts = SawThePair(b, m, c)
  BY DEF Shown, SawThePair, Own
<1>2. ASSUME NEW f
      PROVE  /\ 2 * Cardinality({r \in own : r.family_id = f /\ r.detected})
                   > Cardinality({r \in own : r.family_id = f})
                 <=> Cardinality({r \in CallsOf(b, m, c, f) : r.detected})
                       > Cardinality({r \in CallsOf(b, m, c, f) : ~ r.detected})
             /\ 2 * Cardinality({r \in own : r.family_id = f /\ r.classified})
                   > Cardinality({r \in own : r.family_id = f})
                 <=> Cardinality({r \in CallsOf(b, m, c, f) : r.classified})
                       > Cardinality({r \in CallsOf(b, m, c, f) : ~ r.classified})
  <2> DEFINE S == CallsOf(b, m, c, f)
             D == {r \in S : r.detected}
             C == {r \in S : r.classified}
  <2>1. /\ S = {r \in own : r.family_id = f}
        /\ D = {r \in own : r.family_id = f /\ r.detected}
        /\ C = {r \in own : r.family_id = f /\ r.classified}
    BY DEF CallsOf, Own
  <2>2. IsFiniteSet(S)
    BY <2>1, CallsAreFinite, FS_Subset
  <2>3. S \ D = {r \in S : ~ r.detected} /\ S \ C = {r \in S : ~ r.classified}
    OBVIOUS
  <2>4. D \in SUBSET S /\ C \in SUBSET S
    OBVIOUS
  <2> HIDE DEF S, D, C
  <2>5. /\ 2 * Cardinality(D) > Cardinality(S) <=> Cardinality(D) > Cardinality(S \ D)
        /\ 2 * Cardinality(C) > Cardinality(S) <=> Cardinality(C) > Cardinality(S \ C)
    BY <2>2, <2>4, MostIsMore
  <2>6. QED BY <2>1, <2>3, <2>5 DEF S, D, C
<1>3. {f \in conflicts : 2 * Cardinality({r \in own : r.family_id = f /\ r.detected})
                            > Cardinality({r \in own : r.family_id = f})} = Detecting(b, m, c)
  BY <1>1, <1>2 DEF Detecting
<1>4. {f \in conflicts : 2 * Cardinality({r \in own : r.family_id = f /\ r.classified})
                            > Cardinality({r \in own : r.family_id = f})} = Naming(b, m, c)
  BY <1>1, <1>2 DEF Naming
<1>5. LET e == block_result(b, m, c) IN
      /\ e.block = b /\ e.model = m /\ e.condition = c
      /\ e.genuine = Cardinality(conflicts)
      /\ e.genuine_detected =
           Cardinality({f \in conflicts : 2 * Cardinality({r \in own : r.family_id = f /\ r.detected})
                                            > Cardinality({r \in own : r.family_id = f})})
      /\ e.genuine_classified =
           Cardinality({f \in conflicts : 2 * Cardinality({r \in own : r.family_id = f /\ r.classified})
                                            > Cardinality({r \in own : r.family_id = f})})
  BY DEF block_result, Most, Own
<1>6. QED BY <1>1, <1>3, <1>4, <1>5

\* The most families a block saw are some block's, and every count is bounded.
LEMMA EntriesAreBounded ==
  ASSUME written = Passes(REPEATS)
  PROVE  LET n == genuine_n(Entries) IN
         /\ n \in Nat /\ n <= Cardinality(Genuine) /\ Cardinality(Genuine) \in Nat
         /\ \A e \in Entries : /\ e.genuine \in Nat /\ e.genuine <= n
                               /\ e.genuine_detected \in Nat /\ e.genuine_classified \in Nat
         /\ \E e \in Entries : e.genuine = n
<1> DEFINE N == Cardinality(Genuine)
           G == {e.genuine : e \in Entries}
           H == {k + 1 : k \in G}
<1>1. IsFiniteSet(Genuine) /\ N \in Nat
  BY CallsAreFinite, FS_Subset, FS_CardinalityType DEF Genuine
<1>2. ASSUME NEW e \in Entries
      PROVE  /\ e.genuine \in Nat /\ e.genuine <= N
             /\ e.genuine_detected \in Nat /\ e.genuine_classified \in Nat
  <2>1. PICK b \in 1 .. REPEATS, m \in MODELS, c \in CONDITIONS : e = block_result(b, m, c)
    BY DEF Entries
  <2>2. SawThePair(b, m, c) \subseteq Genuine
    BY DEF SawThePair, Genuine
  <2>3. /\ IsFiniteSet(SawThePair(b, m, c)) /\ Cardinality(SawThePair(b, m, c)) <= N
    BY <1>1, <2>2, FS_Subset
  <2>4. IsFiniteSet(Detecting(b, m, c)) /\ IsFiniteSet(Naming(b, m, c))
    BY <2>3, FS_Subset DEF Detecting, Naming
  <2>5. QED BY <2>1, <2>3, <2>4, EntryReads, FS_CardinalityType
<1>3. G # {}
  <2>1. 1 \in 1 .. REPEATS /\ Llama \in MODELS /\ "full" \in CONDITIONS
    BY ProtocolConstants DEF CONDITIONS
  <2>2. QED BY <2>1 DEF Entries
<1>4. \A k \in G : k \in Nat /\ k <= N
  BY <1>2
<1> HIDE DEF G, N
<1>5. H \in SUBSET (1 .. N + 1) /\ H # {}
  BY <1>1, <1>3, <1>4
<1> HIDE DEF H
<1>6. \E x \in H : \A y \in H : y <= x
  <2> DEFINE bound == N + 1
  <2>1. bound \in Nat /\ H \in SUBSET (1 .. bound)
    BY <1>1, <1>5
  <2> HIDE DEF bound
  <2>2. QED BY <1>5, <2>1, Greatest
<1>7. \E x \in G : \A y \in G : x >= y
  <2>1. PICK x \in H : \A y \in H : y <= x
    BY <1>6
  <2>2. PICK k \in G : x = k + 1
    BY <2>1 DEF H
  <2>3. \A y \in G : y + 1 <= k + 1
    BY <2>1, <2>2 DEF H
  <2>4. QED BY <1>4, <2>2, <2>3
<1>8. Max(G) \in G /\ \A y \in G : Max(G) >= y
  BY <1>7 DEF Max
<1>9. (\A e \in Entries : e.genuine \in G) /\ \A k \in G : \E e \in Entries : e.genuine = k
  BY DEF G
<1>10. genuine_n(Entries) = Max(G)
  BY DEF genuine_n, G
<1>11. QED BY <1>1, <1>2, <1>4, <1>8, <1>9, <1>10 DEF N

\* One entry of each block.
LEMMA OneEntryABlock ==
  ASSUME written = Passes(REPEATS), NEW m \in MODELS, NEW c \in CONDITIONS
  PROVE  /\ IsFiniteSet(Of(Entries, m, c)) /\ Cardinality(Of(Entries, m, c)) = REPEATS
         /\ \A e \in Of(Entries, m, c) :
               e \in Entries /\ \E b \in 1 .. REPEATS : e = block_result(b, m, c)
<1> DEFINE E == Of(Entries, m, c)
           entry == [b \in 1 .. REPEATS |-> block_result(b, m, c)]
<1>1. ASSUME NEW e \in E
      PROVE  e \in Entries /\ \E b \in 1 .. REPEATS : e = block_result(b, m, c)
  <2>1. PICK b \in 1 .. REPEATS, k \in MODELS, d \in CONDITIONS : e = block_result(b, k, d)
    BY DEF Of, Entries
  <2>2. k = m /\ d = c
    BY <2>1, EntryReads DEF Of
  <2>3. QED BY <2>1, <2>2 DEF Of
<1>2. \A b \in 1 .. REPEATS : entry[b] \in E /\ entry[b] = block_result(b, m, c)
  BY EntryReads DEF Of, Entries
<1>3. \A a, b \in 1 .. REPEATS : entry[a] = entry[b] => a = b
  <2>1. ASSUME NEW a \in 1 .. REPEATS, NEW b \in 1 .. REPEATS, entry[a] = entry[b]
        PROVE  a = b
    <3>1. block_result(a, m, c).block = a /\ block_result(b, m, c).block = b
      BY EntryReads
    <3>2. QED BY <2>1, <3>1
  <2>2. QED BY <2>1
<1>4. entry \in Bijection(1 .. REPEATS, E)
  <2> HIDE DEF E
  <2>1. entry \in [1 .. REPEATS -> E]
    BY <1>2
  <2>2. \A e \in E : \E b \in 1 .. REPEATS : entry[b] = e
    BY <1>1
  <2> HIDE DEF entry
  <2>3. QED BY <1>3, <2>1, <2>2 DEF Bijection, Injection, Surjection, IsInjective
<1>5. REPEATS \in Nat \ {0}
  BY ProtocolConstants
<1>6. IsFiniteSet(1 .. REPEATS) /\ Cardinality(1 .. REPEATS) = REPEATS
  BY <1>5, FS_Interval
<1>7. IsFiniteSet(E) /\ Cardinality(E) = REPEATS
  <2> HIDE DEF E, entry
  <2>1. ExistsBijection(1 .. REPEATS, E)
    BY <1>4 DEF ExistsBijection
  <2>2. QED BY <1>6, <2>1, FS_Bijection
<1>8. QED BY <1>1, <1>7

\* The genuine families of whose questions one, in a condition, shows the pair:
\* who audits it and in which block makes no difference.
Sight(c) == {f \in Genuine : \E q \in DOMAIN Questions : Questions[q] = f /\ Item(q, c).pair_present}

LEMMA OneSight ==
  ASSUME written = Passes(REPEATS),
         NEW b \in 1 .. REPEATS, NEW m \in MODELS, NEW c \in CONDITIONS
  PROVE  SawThePair(b, m, c) = Sight(c)
<1>1. ASSUME NEW f \in Asked, NEW r \in written,
             r.repeat = b, r.model = m, r.condition = c, r.family_id = f, r.pair_present
      PROVE  \E q \in DOMAIN Questions : Questions[q] = f /\ Item(q, c).pair_present
  <2>1. PICK q \in DOMAIN Questions, d \in CONDITIONS, a \in 1 .. REPEATS, k \in MODELS :
           r = Row(Item(q, d), a, k)
    BY <1>1 DEF Passes, Sweep
  <2>2. d = c /\ Questions[q] = f /\ Item(q, d).pair_present
    BY <1>1, <2>1, RowReads
  <2>3. QED BY <2>2
<1>2. ASSUME NEW f \in Asked, NEW q \in DOMAIN Questions, Questions[q] = f, Item(q, c).pair_present
      PROVE  \E r \in written : /\ r.repeat = b /\ r.model = m /\ r.condition = c
                                /\ r.family_id = f /\ r.pair_present
  <2>1. Row(Item(q, c), b, m) \in written
    BY DEF Passes, Sweep
  <2>2. QED BY <1>2, <2>1, RowReads
<1>3. QED BY <1>1, <1>2 DEF SawThePair, Sight, Genuine

LEMMA SightIsFinite ==
  ASSUME written = Passes(REPEATS), NEW c
  PROVE  /\ IsFiniteSet(Sight(c)) /\ Cardinality(Sight(c)) \in Nat
         /\ Sight(c) \in SUBSET Asked
<1>1. IsFiniteSet(Asked) /\ Sight(c) \in SUBSET Asked
  BY CallsAreFinite DEF Sight, Genuine
<1>2. QED BY <1>1, FS_Subset, FS_CardinalityType

\* The number that the rules take half of is of the condition that showed most.
LEMMA MostFamilies ==
  ASSUME written = Passes(REPEATS)
  PROVE  LET n == genuine_n(Entries) IN
         /\ n \in Nat
         /\ \A d \in CONDITIONS : Cardinality(Sight(d)) <= n
         /\ \E d \in CONDITIONS : Cardinality(Sight(d)) = n
<1>1. /\ genuine_n(Entries) \in Nat
      /\ \A e \in Entries : e.genuine <= genuine_n(Entries)
      /\ \E e \in Entries : e.genuine = genuine_n(Entries)
  BY EntriesAreBounded
<1>2. ASSUME NEW b \in 1 .. REPEATS, NEW m \in MODELS, NEW c \in CONDITIONS
      PROVE  block_result(b, m, c).genuine = Cardinality(Sight(c)) /\ block_result(b, m, c) \in Entries
  BY EntryReads, OneSight DEF Entries
<1>3. 1 \in 1 .. REPEATS /\ Llama \in MODELS
  BY ProtocolConstants
<1>4. \A d \in CONDITIONS : Cardinality(Sight(d)) <= genuine_n(Entries)
  BY <1>1, <1>2, <1>3
<1>5. \E d \in CONDITIONS : Cardinality(Sight(d)) = genuine_n(Entries)
  <2>1. PICK e \in Entries : e.genuine = genuine_n(Entries)
    BY <1>1
  <2>2. PICK b \in 1 .. REPEATS, m \in MODELS, c \in CONDITIONS : e = block_result(b, m, c)
    BY DEF Entries
  <2>3. QED BY <1>2, <2>1, <2>2
<1>6. QED BY <1>1, <1>4, <1>5

\* A family in a block: those of each block, counted together.
LEMMA PairsAdd ==
  ASSUME NEW B, IsFiniteSet(B), NEW F, IsFiniteSet(F),
         NEW D, \A b \in B : D[b] \in SUBSET F,
         NEW count, \A b \in B : count[b] = Cardinality(D[b])
  PROVE  \A S : S = {p \in B \X F : p[2] \in D[p[1]]} =>
                IsFiniteSet(S) /\ Sum(count, B) = Cardinality(S)
<1> DEFINE S == {p \in B \X F : p[2] \in D[p[1]]}
           kind == [p \in S |-> p[1]]
<1>1. IsFiniteSet(S)
  <2>1. IsFiniteSet(B \X F)
    BY FS_Product
  <2>2. QED BY <2>1, FS_Subset
<1>2. \A p \in S : kind[p] = p[1] /\ kind[p] \in B /\ p[2] \in D[p[1]] /\ p = <<p[1], p[2]>>
  OBVIOUS
<1>3. \A b \in B : \A f \in D[b] : <<b, f>> \in S
  OBVIOUS
<1>4. ASSUME NEW b \in B, NEW W \in SUBSET S, \A p \in S : p \in W <=> kind[p] = b
      PROVE  count[b] = Cardinality(W)
  <2> DEFINE pair == [f \in D[b] |-> <<b, f>>]
  <2>1. \A f \in D[b] : pair[f] = <<b, f>> /\ pair[f] \in W
    BY <1>2, <1>3, <1>4
  <2>2. \A p \in W : p[2] \in D[b] /\ pair[p[2]] = p
    BY <1>2, <1>4, <2>1
  <2>3. \A f, g \in D[b] : pair[f] = pair[g] => f = g
    BY <2>1
  <2>4. IsFiniteSet(D[b])
    BY FS_Subset
  <2>5. pair \in [D[b] -> W]
    BY <2>1
  <2> HIDE DEF pair, S
  <2>6. pair \in Bijection(D[b], W)
    BY <2>2, <2>3, <2>5 DEF Bijection, Injection, Surjection, IsInjective
  <2>7. ExistsBijection(D[b], W)
    BY <2>6 DEF ExistsBijection
  <2>8. Cardinality(W) = Cardinality(D[b])
    BY <2>4, <2>7, FS_Bijection
  <2>9. QED BY <2>8
<1>5. \A p \in S : kind[p] \in B
  BY <1>2
<1>6. \A b \in B, W \in SUBSET S :
         (\A p \in S : p \in W <=> kind[p] = b) => count[b] = Cardinality(W)
  BY <1>4
<1> HIDE DEF S, kind
<1>7. Sum(count, B) = Cardinality(S)
  BY <1>1, <1>5, <1>6, SumOfKinds
<1>8. QED BY <1>1, <1>7 DEF S

\* The families found, and those seen, in the blocks of a model and condition.
FoundPairs(m, c) == {p \in (1 .. REPEATS) \X Asked : p[2] \in Detecting(p[1], m, c)}

SeenPairs(m, c) == {p \in (1 .. REPEATS) \X Asked : p[2] \in SawThePair(p[1], m, c)}

\* The entries of a model and condition count what its blocks found.
LEMMA FoundInBlocks ==
  ASSUME written = Passes(REPEATS), NEW m \in MODELS, NEW c \in CONDITIONS
  PROVE  /\ IsFiniteSet(FoundPairs(m, c))
         /\ Total(Of(Entries, m, c)) = Cardinality(FoundPairs(m, c))
         /\ Total(Of(Entries, m, c))
              = Sum([b \in 1 .. REPEATS |-> Cardinality(Detecting(b, m, c))], 1 .. REPEATS)
<1> DEFINE B == 1 .. REPEATS
           E == Of(Entries, m, c)
           entry == [b \in B |-> block_result(b, m, c)]
           f == [e \in E |-> e.genuine_detected]
           count == [b \in B |-> Cardinality(Detecting(b, m, c))]
           D == [b \in B |-> Detecting(b, m, c)]
           S == FoundPairs(m, c)
<1>1. REPEATS \in Nat /\ IsFiniteSet(B)
  BY ProtocolConstants, FS_Interval
<1>2. \A b \in B : /\ entry[b] = block_result(b, m, c) /\ entry[b] \in E
                   /\ entry[b].block = b /\ entry[b].genuine_detected = count[b]
  BY EntryReads DEF Of, Entries
<1>3. E = {entry[b] : b \in B}
  <2>1. \A e \in E : \E b \in B : e = entry[b]
    BY <1>2, OneEntryABlock
  <2> HIDE DEF E, entry, B
  <2>2. QED BY <1>2, <2>1
<1>4. \A a, b \in B : entry[a] = entry[b] => a = b
  <2>1. ASSUME NEW a \in B, NEW b \in B, entry[a] = entry[b] PROVE a = b
    <3>1. entry[a].block = a /\ entry[b].block = b
      BY <1>2
    <3>2. QED BY <2>1, <3>1
  <2>2. QED BY <2>1
<1>5. IsFiniteSet(Asked) /\ \A b \in B : D[b] \in SUBSET Asked /\ D[b] = Detecting(b, m, c)
  BY CallsAreFinite DEF Detecting, SawThePair
<1>6. \A b \in B : count[b] = Cardinality(D[b]) /\ count[b] \in Int
  <2>1. \A b \in B : IsFiniteSet(D[b])
    <3> HIDE DEF D, B
    <3>1. QED BY <1>5, FS_Subset
  <2>2. QED BY <2>1, FS_CardinalityType
<1>7. \A b \in B : count[b] = f[entry[b]] /\ f[entry[b]] \in Int
  BY <1>2, <1>6
<1>8. Total(E) = Sum(f, E)
  BY DEF Total, SumFunction, Sum
<1>9. S = {p \in B \X Asked : p[2] \in D[p[1]]}
  BY DEF FoundPairs
<1>10. IsFiniteSet(S) /\ Sum(count, B) = Cardinality(S)
  <2> HIDE DEF B, D, count, S
  <2>1. QED BY <1>1, <1>5, <1>6, <1>9, PairsAdd
<1> HIDE DEF B, E, entry, f, count, D
<1>11. Sum(count, B) = Sum(f, {entry[b] : b \in B})
  BY <1>1, <1>4, <1>7, SumRenamed
<1>12. Total(E) = Sum(count, B)
  BY <1>3, <1>8, <1>11
<1>13. QED BY <1>10, <1>12 DEF B, E, count

LEMMA SeenInBlocks ==
  ASSUME written = Passes(REPEATS), NEW m \in MODELS, NEW c \in CONDITIONS
  PROVE  /\ IsFiniteSet(SeenPairs(m, c))
         /\ Cardinality(SeenPairs(m, c)) = Cardinality(Sight(c)) * REPEATS
<1> DEFINE B == 1 .. REPEATS
           D == [b \in B |-> SawThePair(b, m, c)]
           k == Cardinality(Sight(c))
           count == [b \in B |-> k]
           S == SeenPairs(m, c)
<1>1. REPEATS \in Nat /\ IsFiniteSet(B) /\ Cardinality(B) = REPEATS
  BY ProtocolConstants, FS_Interval
<1>2. IsFiniteSet(Asked) /\ k \in Nat /\ \A b \in B : D[b] = Sight(c) /\ D[b] \in SUBSET Asked
  BY CallsAreFinite, OneSight, SightIsFinite
<1>3. \A b \in B : count[b] = k /\ count[b] = Cardinality(D[b])
  BY <1>2
<1>4. S = {p \in B \X Asked : p[2] \in D[p[1]]}
  BY DEF SeenPairs
<1>5. IsFiniteSet(S) /\ Sum(count, B) = Cardinality(S)
  <2> HIDE DEF B, D, count, k, S
  <2>1. QED BY <1>1, <1>2, <1>3, <1>4, PairsAdd
<1>6. Sum(count, B) = k * REPEATS
  <2> HIDE DEF B, k, count
  <2>1. QED BY <1>1, <1>2, <1>3, SumConstant
<1>7. QED BY <1>5, <1>6

\* The mean of a model is above the half of the families exactly if, over the
\* blocks, it found most of those that any condition showed.
FindsMost(m, c) ==
  \A d \in CONDITIONS : 2 * Cardinality(FoundPairs(m, c)) > Cardinality(SeenPairs(m, d))

LEMMA MostlyIsFindsMost ==
  ASSUME written = Passes(REPEATS), NEW m \in MODELS, NEW c \in CONDITIONS
  PROVE  Mostly(Entries, m, c) <=> FindsMost(m, c)
<1> DEFINE n == genuine_n(Entries)
           found == Cardinality(FoundPairs(m, c))
<1>1. n \in Nat /\ found \in Nat /\ REPEATS \in Nat \ {0}
  BY MostFamilies, FoundInBlocks, FS_CardinalityType, ProtocolConstants
<1>2. Mostly(Entries, m, c) <=> 2 * found > n * REPEATS
  BY FoundInBlocks DEF Mostly
<1>3. \A d \in CONDITIONS :
         /\ Cardinality(Sight(d)) \in Nat
         /\ Cardinality(SeenPairs(m, d)) = Cardinality(Sight(d)) * REPEATS
  BY SightIsFinite, SeenInBlocks
<1>4. PICK most \in CONDITIONS : Cardinality(Sight(most)) = n
  BY MostFamilies
<1>5. \A d \in CONDITIONS : Cardinality(Sight(d)) <= n
  BY MostFamilies
<1> HIDE DEF n, found
<1>6. ASSUME 2 * found > n * REPEATS
      PROVE  \A d \in CONDITIONS : 2 * found > Cardinality(SeenPairs(m, d))
  <2>1. SUFFICES ASSUME NEW d \in CONDITIONS PROVE 2 * found > Cardinality(SeenPairs(m, d))
    OBVIOUS
  <2> DEFINE k == Cardinality(Sight(d))
  <2>2. k \in Nat /\ k <= n /\ Cardinality(SeenPairs(m, d)) = k * REPEATS
    BY <1>3, <1>5
  <2> HIDE DEF k
  <2>3. k * REPEATS <= n * REPEATS
    BY <1>1, <2>2
  <2>4. k * REPEATS \in Nat /\ n * REPEATS \in Nat
    BY <1>1, <2>2
  <2>5. QED BY <1>1, <1>6, <2>2, <2>3, <2>4
<1>7. (\A d \in CONDITIONS : 2 * found > Cardinality(SeenPairs(m, d))) => 2 * found > n * REPEATS
  BY <1>3, <1>4
<1>8. QED BY <1>2, <1>6, <1>7 DEF FindsMost, found

\* What is found in a condition by all the models is found by each, block by
\* block: a gap between the totals is one between two entries of a block.
LEMMA GapIsOfABlock ==
  ASSUME written = Passes(REPEATS),
         Total({e \in Entries : e.condition = "oracle_pair"}) - Total({e \in Entries : e.condition = "full"})
           >= DilutionGap * REPEATS * Cardinality(MODELS)
  PROVE  \E b \in 1 .. REPEATS, m \in MODELS :
            Cardinality(Detecting(b, m, "oracle_pair"))
              >= Cardinality(Detecting(b, m, "full")) + DilutionGap
<1> DEFINE I == (1 .. REPEATS) \X MODELS
           found(c) == [i \in I |-> Cardinality(Detecting(i[1], i[2], c))]
           In(c) == {e \in Entries : e.condition = c}
           gap == [i \in I |-> found("oracle_pair")[i] - found("full")[i]]
           K == REPEATS * Cardinality(MODELS)
<1>1. /\ REPEATS \in Nat \ {0} /\ DilutionGap \in Nat /\ IsFiniteSet(MODELS)
      /\ Cardinality(MODELS) \in Nat \ {0}
  <2>1. IsFiniteSet(MODELS) /\ MODELS # {}
    BY ProtocolConstants
  <2>2. Cardinality(MODELS) \in Nat /\ Cardinality(MODELS) # 0
    BY <2>1, FS_CardinalityType, FS_EmptySet
  <2>3. QED BY <2>2, ProtocolConstants
<1>2. IsFiniteSet(I) /\ Cardinality(I) = K /\ K \in Nat \ {0}
  <2>1. IsFiniteSet(1 .. REPEATS) /\ Cardinality(1 .. REPEATS) = REPEATS
    BY <1>1, FS_Interval
  <2>2. K \in Nat \ {0}
    BY <1>1
  <2>3. QED BY <1>1, <2>1, <2>2, FS_Product
<1>3. ASSUME NEW c \in CONDITIONS
      PROVE  /\ \A i \in I : found(c)[i] = Cardinality(Detecting(i[1], i[2], c)) /\ found(c)[i] \in Nat
             /\ Total(In(c)) = Sum(found(c), I)
  <2> DEFINE entry == [i \in I |-> block_result(i[1], i[2], c)]
             f == [e \in In(c) |-> e.genuine_detected]
             count == found(c)
  <2>1. \A i \in I : i[1] \in 1 .. REPEATS /\ i[2] \in MODELS /\ i = <<i[1], i[2]>>
    OBVIOUS
  <2>2. \A i \in I : /\ entry[i].block = i[1] /\ entry[i].model = i[2]
                     /\ entry[i].genuine_detected = count[i] /\ entry[i] \in In(c)
    BY <2>1, EntryReads DEF Entries
  <2>3. \A i \in I : count[i] \in Nat
    BY <2>2, EntriesAreBounded
  <2>4. \A e \in In(c) : \E i \in I : e = entry[i]
    <3>1. SUFFICES ASSUME NEW e \in In(c) PROVE \E i \in I : e = entry[i]
      OBVIOUS
    <3>2. PICK b \in 1 .. REPEATS, m \in MODELS, d \in CONDITIONS : e = block_result(b, m, d)
      BY DEF Entries
    <3>3. d = c
      BY <3>2, EntryReads
    <3>4. <<b, m>> \in I /\ entry[<<b, m>>] = e
      BY <3>2, <3>3
    <3>5. QED BY <3>4
  <2>5. \A i, j \in I : entry[i] = entry[j] => i = j
    <3>1. ASSUME NEW i \in I, NEW j \in I, entry[i] = entry[j] PROVE i = j
      <4>1. i[1] = j[1] /\ i[2] = j[2]
        <5> HIDE DEF I, entry
        <5>1. QED BY <2>2, <3>1
      <4>2. QED BY <2>1, <4>1
    <3>2. QED BY <3>1
  <2>6. \A i \in I : count[i] = f[entry[i]] /\ f[entry[i]] \in Int
    BY <2>2, <2>3
  <2>7. Total(In(c)) = Sum(f, In(c))
    BY DEF Total, SumFunction, Sum
  <2>8. In(c) = {entry[i] : i \in I}
    <3> HIDE DEF In, entry, I
    <3>1. QED BY <2>2, <2>4
  <2>9. Sum(count, I) = Sum(f, {entry[i] : i \in I})
    <3> HIDE DEF I, entry, f, count, In
    <3>1. QED BY <1>2, <2>5, <2>6, SumRenamed
  <2>10. Total(In(c)) = Sum(count, I)
    BY <2>7, <2>8, <2>9
  <2>11. \A i \in I : count[i] = Cardinality(Detecting(i[1], i[2], c))
    OBVIOUS
  <2>12. found(c) = count
    OBVIOUS
  <2> HIDE DEF I, In, found, count
  <2>13. QED BY <2>3, <2>10, <2>11, <2>12
<1>4. "oracle_pair" \in CONDITIONS /\ "full" \in CONDITIONS
  BY DEF CONDITIONS
<1> DEFINE oracle == found("oracle_pair")
           full == found("full")
           short == DilutionGap - 1
<1>5. /\ \A i \in I : oracle[i] \in Int /\ full[i] \in Int /\ gap[i] = oracle[i] - full[i]
      /\ Total(In("oracle_pair")) = Sum(oracle, I) /\ Total(In("full")) = Sum(full, I)
  <2>1. \A i \in I : gap[i] = oracle[i] - full[i]
    OBVIOUS
  <2> HIDE DEF I, In, found, gap
  <2>2. \A i \in I : oracle[i] \in Int /\ full[i] \in Int
    BY <1>3, <1>4 DEF oracle, full
  <2>3. Total(In("oracle_pair")) = Sum(oracle, I) /\ Total(In("full")) = Sum(full, I)
    BY <1>3, <1>4 DEF oracle, full
  <2>4. QED BY <2>1, <2>2, <2>3
<1>6. Sum(oracle, I) - Sum(full, I) >= DilutionGap * K
  <2>1. DilutionGap * REPEATS * Cardinality(MODELS) = DilutionGap * K
    BY <1>1
  <2>2. QED BY <1>5, <2>1
<1>7. Sum(gap, I) = Sum(oracle, I) - Sum(full, I)
  <2> HIDE DEF I, oracle, full, gap
  <2>1. QED BY <1>2, <1>5, SumDifference
<1>8. \E i \in I : gap[i] >= DilutionGap
  <2>1. SUFFICES ASSUME \A i \in I : ~ (gap[i] >= DilutionGap) PROVE FALSE
    OBVIOUS
  <2>2. \A i \in I : gap[i] \in Int
    BY <1>5
  <2>3. short \in Int /\ \A i \in I : 1 * gap[i] <= short
    BY <1>1, <2>1, <2>2
  <2> HIDE DEF I, gap, oracle, full, short, K
  <2>4. 1 * Sum(gap, I) <= short * Cardinality(I)
    BY <1>2, <2>2, <2>3, SumBounded
  <2>5. short * K = DilutionGap * K - K /\ DilutionGap * K \in Int /\ Sum(gap, I) \in Int
    <3>1. short * K = DilutionGap * K - K /\ DilutionGap * K \in Int
      BY <1>1, <1>2 DEF short
    <3>2. QED BY <1>2, <2>2, <3>1, SumStep
  <2>6. QED BY <1>2, <1>6, <1>7, <2>4, <2>5
<1>9. PICK i \in I : gap[i] >= DilutionGap
  BY <1>8
<1>10. /\ i[1] \in 1 .. REPEATS /\ i[2] \in MODELS
       /\ gap[i] = Cardinality(Detecting(i[1], i[2], "oracle_pair")) - Cardinality(Detecting(i[1], i[2], "full"))
       /\ oracle[i] \in Nat /\ full[i] \in Nat
       /\ oracle[i] = Cardinality(Detecting(i[1], i[2], "oracle_pair"))
       /\ full[i] = Cardinality(Detecting(i[1], i[2], "full"))
  BY <1>3, <1>4
<1>11. Cardinality(Detecting(i[1], i[2], "oracle_pair"))
         >= Cardinality(Detecting(i[1], i[2], "full")) + DilutionGap
  <2> HIDE DEF I, gap, oracle, full
  <2>1. QED BY <1>1, <1>9, <1>10
<1>12. QED BY <1>10, <1>11

\* Each of R1 to R4 is earned by the rows, for any number of blocks, models,
\* families and replies (apply_rules).
THEOREM RuleEarned == ProtocolSpec => []RuleIsEarned
<1>1. InOrder => RuleIsEarned
  <2> DEFINE n == genuine_n(Entries)
  <2> SUFFICES ASSUME InOrder, report # Pending PROVE RuleIsEarned
    BY DEF RuleIsEarned
  <2>1. written = Passes(REPEATS) /\ report.rule = apply_rules(Entries)
    BY DEF InOrder
  <2>2. Qwen \in MODELS /\ Llama \in MODELS
    BY ProtocolConstants
  <2>3. ASSUME NEW b \in 1 .. REPEATS, NEW m \in MODELS, NEW c \in CONDITIONS
        PROVE  /\ block_result(b, m, c) \in Entries
               /\ block_result(b, m, c).genuine_detected = Cardinality(Detecting(b, m, c))
               /\ block_result(b, m, c).genuine_classified = Cardinality(Naming(b, m, c))
    BY <2>1, EntryReads DEF Entries
  <2>4. ASSUME report.rule = "R1", NEW b \in 1 .. REPEATS, NEW m \in MODELS, NEW c \in CONDITIONS
        PROVE  Detecting(b, m, c) = {}
    <3>1. \A e \in Entries : e.genuine_detected = 0
      BY <2>1, <2>4 DEF apply_rules
    <3>2. Cardinality(Detecting(b, m, c)) = 0
      BY <2>3, <3>1
    <3>3. IsFiniteSet(Detecting(b, m, c))
      <4>1. Detecting(b, m, c) \subseteq Asked
        BY DEF Detecting, SawThePair
      <4>2. QED BY <2>1, <4>1, CallsAreFinite, FS_Subset
    <3>4. QED BY <3>2, <3>3, FS_EmptySet
  <2>5. ASSUME report.rule = "R2"
        PROVE  \E b \in 1 .. REPEATS, m \in MODELS :
                  Cardinality(Detecting(b, m, "oracle_pair"))
                    >= Cardinality(Detecting(b, m, "full")) + DilutionGap
    <3>1. Total({e \in Entries : e.condition = "oracle_pair"})
            - Total({e \in Entries : e.condition = "full"})
              >= DilutionGap * REPEATS * Cardinality(MODELS)
      BY <2>1, <2>5 DEF apply_rules
    <3>2. QED BY <2>1, <3>1, GapIsOfABlock
  <2>6. ASSUME report.rule = "R3"
        PROVE  \E c \in CONDITIONS :
                  /\ FindsMost(Qwen, c) /\ ~ FindsMost(Llama, c)
                  /\ \E b \in 1 .. REPEATS : ~ Detecting(b, Qwen, c) \subseteq Detecting(b, Llama, c)
    <3>1. PICK c \in CONDITIONS : Mostly(Entries, Qwen, c) /\ ~ Mostly(Entries, Llama, c)
      BY <2>1, <2>6 DEF apply_rules
    <3>2. FindsMost(Qwen, c) /\ ~ FindsMost(Llama, c)
      BY <2>1, <2>2, <3>1, MostlyIsFindsMost
    <3>3. ~ FoundPairs(Qwen, c) \subseteq FoundPairs(Llama, c)
      <4> DEFINE Q == FoundPairs(Qwen, c)
                 L == FoundPairs(Llama, c)
      <4>1. PICK d \in CONDITIONS : ~ (2 * Cardinality(L) > Cardinality(SeenPairs(Llama, d)))
        BY <3>2 DEF FindsMost
      <4>2. 2 * Cardinality(Q) > Cardinality(SeenPairs(Qwen, d))
        BY <3>2 DEF FindsMost
      <4>3. Cardinality(SeenPairs(Qwen, d)) = Cardinality(SeenPairs(Llama, d))
        BY <2>1, <2>2, SeenInBlocks
      <4>4. IsFiniteSet(Q) /\ IsFiniteSet(L) /\ IsFiniteSet(SeenPairs(Llama, d))
        BY <2>1, <2>2, FoundInBlocks, SeenInBlocks
      <4>5. Cardinality(Q) \in Nat /\ Cardinality(L) \in Nat /\ Cardinality(SeenPairs(Llama, d)) \in Nat
        BY <4>4, FS_CardinalityType
      <4> HIDE DEF Q, L
      <4>6. ~ (Cardinality(Q) <= Cardinality(L))
        BY <4>1, <4>2, <4>3, <4>5
      <4>7. ~ Q \subseteq L
        BY <4>4, <4>6, FS_Subset
      <4>8. QED BY <4>7 DEF Q, L
    <3>4. QED BY <3>2, <3>3 DEF FoundPairs
  <2>7. ASSUME report.rule = "R4"
        PROVE  \E b \in 1 .. REPEATS, m \in MODELS, c \in CONDITIONS :
                  /\ \A d \in CONDITIONS :
                        2 * Cardinality(Detecting(b, m, c)) > Cardinality(SawThePair(b, m, d))
                  /\ \E d \in CONDITIONS :
                        2 * Cardinality(Naming(b, m, c)) < Cardinality(SawThePair(b, m, d))
    <3>1. PICK e \in Entries : 2 * e.genuine_detected > n /\ 2 * e.genuine_classified < n
      BY <2>1, <2>7 DEF apply_rules
    <3>2. PICK b \in 1 .. REPEATS, m \in MODELS, c \in CONDITIONS : e = block_result(b, m, c)
      BY DEF Entries
    <3>3. 2 * Cardinality(Detecting(b, m, c)) > n /\ 2 * Cardinality(Naming(b, m, c)) < n
      BY <2>3, <3>1, <3>2
    <3>4. \A d \in CONDITIONS : SawThePair(b, m, d) = Sight(d) /\ Cardinality(Sight(d)) \in Nat
      BY <2>1, OneSight, SightIsFinite
    <3>5. /\ n \in Nat /\ \A d \in CONDITIONS : Cardinality(Sight(d)) <= n
          /\ \E d \in CONDITIONS : Cardinality(Sight(d)) = n
      BY <2>1, MostFamilies
    <3>6. Cardinality(Detecting(b, m, c)) \in Nat
      <4>1. /\ block_result(b, m, c) \in Entries
            /\ block_result(b, m, c).genuine_detected = Cardinality(Detecting(b, m, c))
        BY <2>3
      <4>2. QED BY <2>1, <4>1, EntriesAreBounded
    <3> HIDE DEF n
    <3>7. QED BY <3>3, <3>4, <3>5, <3>6
  <2>8. QED BY <2>4, <2>5, <2>6, <2>7
          DEF RuleIsEarned, Say, CallsOf, Detecting, Naming, FindsMost, FoundPairs, SeenPairs
<1>2. QED BY <1>1, Orderly, PTL

-----------------------------------------------------------------------------
(* Analysis: the computation and its inputs                                *)

\* What an admitted run holds.
Authenticated(name) ==
  Admitted(name, dirs[name], table) /\ AnswersTheSplit(dirs[name].answers)

JoinedRows == {Joined(item) : item \in DOMAIN sheet}

\* What is computed is of the inputs, which nothing writes, and each stage has
\* behind it what the ones before it checked.
Computed ==
  /\ Filed
  /\ pos \in 0 .. Len(RunNames) /\ \A i \in 1 .. pos : Authenticated(RunNames[i])
  /\ joined # {} \/ pc \in {"decide", "diagnose", "reported"} =>
       pos = Len(RunNames) /\ ~ JoinRefused /\ joined = JoinedRows
  /\ pc = "diagnose" => verdicts = Verdicts(joined)
  /\ pc = "reported" => /\ ~ SourceRefused(dirs[DiagnosticRun])
                        /\ diagnostic = by_hypothesis_group(Records(DiagnosticRun))

LEMMA InputsStay ==
  ASSUME UNCHANGED inputs
  PROVE  /\ Filed' = Filed
         /\ \A n : Authenticated(n)' = Authenticated(n)
         /\ JoinedRows' = JoinedRows /\ JoinRefused' = JoinRefused
<1>1. UNCHANGED <<dirs, table, sheet, key, first, second, agreement>>
  BY DEF inputs
<1>2. Filed' = Filed
  BY <1>1 DEF Filed
<1>3. \A n : Authenticated(n)' = Authenticated(n)
  BY <1>1 DEF Authenticated
<1>4. JoinRefused' = JoinRefused
  BY <1>1 DEF JoinRefused, RunsOf, ArmsOf
<1>5. JoinedRows' = JoinedRows
  BY <1>1 DEF JoinedRows, Joined, ArmsOf, Abstained, Record, Records, RunsOf
<1>6. QED BY <1>2, <1>3, <1>4, <1>5

LEMMA ComputedInvariant == Spec => []Computed
<1>0. RunNames \in Seq(ToSet(RunNames)) /\ Len(RunNames) \in Nat
  BY AnalysisConstants
<1>1. Init => Computed
  BY <1>0 DEF Init, Computed
<1>2. Computed /\ [Next]_vars => Computed'
  <2> SUFFICES ASSUME Computed, [Next]_vars PROVE Computed'
    OBVIOUS
  <2> USE <1>0
  <2>0. UNCHANGED inputs => /\ Filed' = Filed
                            /\ \A n : Authenticated(n)' = Authenticated(n)
                            /\ JoinedRows' = JoinedRows /\ JoinRefused' = JoinRefused
    BY InputsStay
  <2>1. ASSUME Refuse PROVE Computed'
    BY <2>0, <2>1 DEF Refuse, Computed
  <2>2. CASE FindRuns
    <3>1. CASE Refuse
      BY <2>1, <3>1
    <3>2. CASE ~ Refuse
      <4>1. /\ pc = "find" /\ pc' = "authenticate"
            /\ UNCHANGED <<inputs, pos, joined, verdicts, diagnostic>>
        BY <2>2, <3>2 DEF FindRuns
      <4>2. QED BY <2>0, <4>1 DEF Computed
    <3>3. QED BY <3>1, <3>2
  <2>3. CASE AuthenticateRun
    <3>1. CASE Refuse
      BY <2>1, <3>1
    <3>2. CASE ~ Refuse
      <4>1. /\ Authenticated(RunNames[pos + 1])
            /\ pos < Len(RunNames) /\ pos' = pos + 1 /\ UNCHANGED <<inputs, pc, joined, verdicts, diagnostic>>
            /\ pc = "authenticate"
        BY <2>3, <3>2 DEF AuthenticateRun, Authenticated
      <4>2. \A i \in 1 .. pos' : Authenticated(RunNames[i])'
        BY <2>0, <4>1 DEF Computed
      <4>3. QED BY <2>0, <4>1, <4>2 DEF Computed
    <3>3. QED BY <3>1, <3>2
  <2>4. CASE Join
    <3>1. CASE Refuse
      BY <2>1, <3>1
    <3>2. CASE ~ Refuse
      <4>1. /\ pc = "authenticate" /\ pos = Len(RunNames) /\ ~ JoinRefused
            /\ joined' = JoinedRows /\ pc' = "decide" /\ UNCHANGED <<inputs, pos, verdicts, diagnostic>>
        BY <2>4, <3>2 DEF Join, JoinedRows
      <4>2. QED BY <2>0, <4>1 DEF Computed
    <3>3. QED BY <3>1, <3>2
  <2>5. CASE Decide
    <3>1. CASE Refuse
      BY <2>1, <3>1
    <3>2. CASE ~ Refuse
      <4>1. /\ pc = "decide" /\ pc' = "diagnose" /\ UNCHANGED <<inputs, pos, joined, diagnostic>>
            /\ verdicts' = Verdicts(joined)
        BY <2>5, <3>2 DEF Decide
      <4>2. verdicts' = Verdicts(joined)'
        BY <4>1 DEF Verdicts, Records, inputs
      <4>3. QED BY <2>0, <4>1, <4>2 DEF Computed
    <3>3. QED BY <3>1, <3>2
  <2>6. CASE Diagnose
    <3>1. CASE Refuse
      BY <2>1, <3>1
    <3>2. CASE ~ Refuse
      <4>1. /\ pc = "diagnose" /\ pc' = "reported" /\ UNCHANGED <<inputs, pos, joined, verdicts>>
            /\ ~ SourceRefused(dirs[DiagnosticRun])
            /\ diagnostic' = by_hypothesis_group(Records(DiagnosticRun))
        BY <2>6, <3>2 DEF Diagnose
      <4>2. /\ ~ SourceRefused(dirs[DiagnosticRun])'
            /\ diagnostic' = by_hypothesis_group(Records(DiagnosticRun))'
        BY <4>1 DEF SourceRefused, Records, inputs
      <4>3. QED BY <2>0, <4>1, <4>2 DEF Computed
    <3>3. QED BY <3>1, <3>2
  <2>7. CASE UNCHANGED vars
    <3>1. UNCHANGED <<inputs, pc, pos, joined, verdicts, diagnostic>>
      BY <2>7 DEF vars
    <3>2. /\ Verdicts(joined)' = Verdicts(joined)
          /\ SourceRefused(dirs[DiagnosticRun])' = SourceRefused(dirs[DiagnosticRun])
          /\ by_hypothesis_group(Records(DiagnosticRun))' = by_hypothesis_group(Records(DiagnosticRun))
      BY <3>1 DEF Verdicts, SourceRefused, Records, inputs
    <3>3. QED BY <2>0, <3>1, <3>2 DEF Computed
  <2>8. QED BY <2>2, <2>3, <2>4, <2>5, <2>6, <2>7 DEF Next
<1>3. QED BY <1>1, <1>2, PTL DEF Spec

LEMMA RunsAreFinite == IsFiniteSet(ToSet(RunNames))
<1> DEFINE name == [i \in 1 .. Len(RunNames) |-> RunNames[i]]
<1>1. Len(RunNames) \in Nat /\ DOMAIN RunNames = 1 .. Len(RunNames)
  BY AnalysisConstants
<1>2. name \in Surjection(1 .. Len(RunNames), ToSet(RunNames))
  BY <1>1 DEF Surjection, ToSet
<1>3. IsFiniteSet(1 .. Len(RunNames))
  BY <1>1, FS_Interval
<1>4. QED BY <1>2, <1>3, FS_Surjection

\* Once all are authenticated, a run is the one recorded.
LEMMA RunsAreRecorded ==
  ASSUME Computed, pos = Len(RunNames), NEW n \in ToSet(RunNames)
  PROVE  /\ Authenticated(n)
         /\ n \in DOMAIN table
         /\ dirs[n].answers = table[n].answers /\ dirs[n].manifest = table[n].manifest
         /\ dirs[n].manifest.arm \in Arms
         /\ dirs[n].answers \in Seq(Records(n))
<1>1. PICK i \in 1 .. Len(RunNames) : n = RunNames[i]
  BY AnalysisConstants DEF ToSet
<1>2. Authenticated(n)
  BY <1>1 DEF Computed
<1>3. n \in DOMAIN table /\ dirs[n].answers = table[n].answers /\ dirs[n].manifest = table[n].manifest
  BY <1>2 DEF Authenticated, Admitted, Authentic
<1>4. table[n].manifest.arm \in Arms /\ table[n].answers \in Seq(ToSet(table[n].answers))
  BY <1>3 DEF Computed, Filed
<1>5. QED BY <1>2, <1>3, <1>4 DEF Records

\* A run that answers the split has one record for each question.
LEMMA AnswersOnce ==
  ASSUME NEW answers, answers \in Seq(ToSet(answers)), AnswersTheSplit(answers)
  PROVE  /\ IsFiniteSet(ToSet(answers))
         /\ \A r \in ToSet(answers) :
              /\ r.question_id \in DOMAIN QuestionSet
              /\ r.family_id = QuestionSet[r.question_id].family_id
         /\ \A q \in DOMAIN QuestionSet : \E r \in ToSet(answers) : r.question_id = q
         /\ \A r, s \in ToSet(answers) : r.question_id = s.question_id => r = s
<1> DEFINE n == Len(answers)
           id == [i \in 1 .. n |-> answers[i].question_id]
           record == [i \in 1 .. n |-> answers[i]]
<1>1. n \in Nat /\ DOMAIN answers = 1 .. n
  OBVIOUS
<1>2. ToSet(answers) = {answers[i] : i \in 1 .. n}
  BY <1>1 DEF ToSet
<1>3. /\ n = Cardinality(DOMAIN QuestionSet)
      /\ {answers[i].question_id : i \in 1 .. n} = DOMAIN QuestionSet
      /\ \A i \in 1 .. n : answers[i].family_id = QuestionSet[answers[i].question_id].family_id
  BY <1>1 DEF AnswersTheSplit, AnswersTheIds
<1>4. IsFiniteSet(1 .. n) /\ Cardinality(1 .. n) = n
  BY <1>1, FS_Interval
<1>5. id \in Surjection(1 .. n, DOMAIN QuestionSet)
  BY <1>3 DEF Surjection
<1>6. record \in Surjection(1 .. n, ToSet(answers))
  BY <1>2 DEF Surjection
<1>7. IsFiniteSet(ToSet(answers))
  BY <1>4, <1>6, FS_Surjection
<1>8. id \in Injection(1 .. n, DOMAIN QuestionSet)
  <2> HIDE DEF n, id
  <2>1. QED BY <1>3, <1>4, <1>5, FS_Surjection
<1>9. \A i, j \in 1 .. n : answers[i].question_id = answers[j].question_id => i = j
  BY <1>8 DEF Injection, IsInjective
<1>10. QED BY <1>2, <1>3, <1>7, <1>9

\* A key that leaves no code without an arm gives every arm its own code.
LEMMA KeyIsWhole ==
  ASSUME Filed, ~ JoinRefused
  PROVE  /\ DOMAIN key = Arms
         /\ \A a \in Arms : \E i \in DOMAIN sheet : key[a] = sheet[i].system
         /\ \A a, b \in Arms : key[a] = key[b] => a = b
<1> DEFINE codes == {sheet[i].system : i \in DOMAIN sheet}
<1>1. /\ Cardinality(codes) = Cardinality(Arms)
      /\ DOMAIN key \subseteq Arms /\ key \in [DOMAIN key -> codes]
      /\ \A a, b \in DOMAIN key : key[a] = key[b] => a = b
  BY DEF Filed
<1>2. \A c \in codes : \E a \in DOMAIN key : key[a] = c
  BY DEF JoinRefused, ArmsOf
<1>3. IsFiniteSet(Arms)
  BY AnalysisConstants
<1>4. IsFiniteSet(DOMAIN key)
  BY <1>1, <1>3, FS_Subset
<1> HIDE DEF codes
<1>5. key \in Surjection(DOMAIN key, codes) /\ key \in Injection(DOMAIN key, codes)
  BY <1>1, <1>2 DEF Surjection, Injection, IsInjective
<1>6. Cardinality(codes) = Cardinality(DOMAIN key)
  BY <1>4, <1>5, FS_Surjection
<1>7. DOMAIN key = Arms
  BY <1>1, <1>3, <1>6, FS_Subset
<1>8. \A a \in Arms : key[a] \in codes
  BY <1>1, <1>7
<1>9. QED BY <1>1, <1>7, <1>8 DEF codes

\* Every answer of every arm has one joined row, of its own record, item and
\* judgement, for any arms, runs, sheets and judgements (analysis.py join).
THEOREM RowsOfTheirAnswers == Spec => []RowsAreOfTheirAnswers
<1>1. Computed => RowsAreOfTheirAnswers
  <2> SUFFICES ASSUME Computed, joined # {},
                      NEW n \in ToSet(RunNames), NEW q \in DOMAIN QuestionSet
               PROVE  LET own == {r \in joined : r.arm = dirs[n].manifest.arm /\ r.question_id = q} IN
                      /\ Cardinality(own) = 1
                      /\ \A r \in own :
                           /\ r.record.question_id = q /\ r.record \in Records(n)
                           /\ sheet[r.item].question_id = q
                           /\ sheet[r.item].system = key[r.arm]
                           /\ r.score = first[r.item].score
                           /\ r.item \in DOMAIN second => r.abstained = second[r.item].abstained
    BY DEF RowsAreOfTheirAnswers
  <2> DEFINE a == dirs[n].manifest.arm
             own == {r \in joined : r.arm = a /\ r.question_id = q}
  <2>1. pos = Len(RunNames) /\ ~ JoinRefused /\ joined = JoinedRows /\ Filed
    BY DEF Computed
  <2>2. a \in Arms /\ Authenticated(n) /\ dirs[n].answers \in Seq(Records(n))
    BY <2>1, RunsAreRecorded
  <2>3. /\ DOMAIN key = Arms
        /\ \E i \in DOMAIN sheet : key[a] = sheet[i].system
        /\ \A b \in Arms : key[a] = key[b] => a = b
    BY <2>1, <2>2, KeyIsWhole
  <2>4. PICK i \in DOMAIN sheet : sheet[i].system = key[a] /\ sheet[i].question_id = q
    <3> DEFINE codes == {sheet[j].system : j \in DOMAIN sheet}
               pairs == {<<sheet[j].system, sheet[j].question_id>> : j \in DOMAIN sheet}
    <3>1. <<key[a], q>> \in codes \X DOMAIN QuestionSet
      BY <2>3
    <3>2. <<key[a], q>> \in pairs
      BY <2>1, <3>1 DEF Filed
    <3>3. QED BY <3>2
  <2>5. ASSUME NEW j \in DOMAIN sheet
        PROVE  /\ Joined(j).item = j /\ Joined(j).question_id = sheet[j].question_id
               /\ Joined(j).arm \in Arms /\ key[Joined(j).arm] = sheet[j].system
               /\ Joined(j).score = first[j].score /\ Joined(j).abstained = Abstained(j)
               /\ Joined(j).record = Record(Joined(j).arm, sheet[j].question_id)
    <3>1. ArmsOf(sheet[j].system) # {}
      BY <2>1 DEF JoinRefused
    <3>2. Joined(j).arm = CHOOSE b \in ArmsOf(sheet[j].system) : TRUE
      BY DEF Joined
    <3>3. Joined(j).arm \in ArmsOf(sheet[j].system)
      BY <3>1, <3>2
    <3>4. QED BY <2>3, <3>3 DEF Joined, ArmsOf
  <2>6. own = {Joined(i)}
    <3>1. Joined(i) \in own
      BY <2>1, <2>3, <2>4, <2>5 DEF JoinedRows
    <3>2. ASSUME NEW r \in own PROVE r = Joined(i)
      <4>1. PICK j \in DOMAIN sheet : r = Joined(j)
        BY <2>1 DEF JoinedRows
      <4>2. sheet[j].system = sheet[i].system /\ sheet[j].question_id = sheet[i].question_id
        BY <2>4, <2>5, <4>1
      <4>3. sheet[j] = sheet[i]
        BY <2>1, <4>2 DEF Filed
      <4>4. j = i
        BY <2>1, <4>3 DEF Filed
      <4>5. QED BY <4>1, <4>4
    <3>3. QED BY <3>1, <3>2
  <2>7. Joined(i).arm = a
    BY <2>3, <2>4, <2>5
  <2>8. Record(a, q).question_id = q /\ Record(a, q) \in Records(n)
    <3>1. n \in RunsOf(a) /\ IsFiniteSet(RunsOf(a)) /\ Cardinality(RunsOf(a)) <= 1
      <4>1. IsFiniteSet(RunsOf(a))
        BY RunsAreFinite, FS_Subset DEF RunsOf
      <4>2. n \in RunsOf(a) /\ ~ Cardinality(RunsOf(a)) > 1
        BY <2>1 DEF RunsOf, JoinRefused
      <4>3. Cardinality(RunsOf(a)) \in Nat
        BY <4>1, FS_CardinalityType
      <4>4. QED BY <4>1, <4>2, <4>3
    <3>2. RunsOf(a) = {n}
      <4> DEFINE R == RunsOf(a)
      <4>1. IsFiniteSet(R) /\ Cardinality(R) \in Nat /\ Cardinality(R) # 0
        BY <3>1, FS_CardinalityType, FS_EmptySet
      <4>2. Cardinality(R) = 1
        BY <3>1, <4>1
      <4> HIDE DEF R
      <4>3. \E x : R = {x}
        BY <4>1, <4>2, FS_Singleton
      <4>4. QED BY <3>1, <4>3 DEF R
    <3>3. (CHOOSE m \in RunsOf(a) : TRUE) = n
      BY <3>2
    <3>4. Record(a, q) = CHOOSE r \in Records(n) : r.question_id = q
      BY <3>2, <3>3 DEF Record
    <3>5. \E r \in Records(n) : r.question_id = q
      BY <2>2, AnswersOnce DEF Authenticated, Records
    <3>6. QED BY <3>4, <3>5
  <2>9. Cardinality(own) = 1
    BY <2>6, FS_Singleton
  <2>10. ASSUME NEW r \in own
         PROVE  /\ r.record.question_id = q /\ r.record \in Records(n)
                /\ sheet[r.item].question_id = q
                /\ sheet[r.item].system = key[r.arm]
                /\ r.score = first[r.item].score
                /\ r.item \in DOMAIN second => r.abstained = second[r.item].abstained
    <3>1. r = Joined(i)
      BY <2>6
    <3>2. r.record = Record(a, q)
      BY <2>4, <2>5, <2>7, <3>1
    <3>3. QED BY <2>4, <2>5, <2>8, <3>1, <3>2 DEF Abstained
  <2>11. QED BY <2>9, <2>10
<1>2. QED BY <1>1, ComputedInvariant, PTL

-----------------------------------------------------------------------------
(* Contrasts: a family asked again                                         *)

IsRow(r) ==
  /\ r = [item |-> r.item, arm |-> r.arm, question_id |-> r.question_id,
          group_id |-> r.group_id, expected_behaviour |-> r.expected_behaviour,
          score |-> r.score, asserts_conflict |-> r.asserts_conflict,
          abstained |-> r.abstained, record |-> r.record]
  /\ r.item \in Nat \ {0} /\ r.score \in Int

Judged(X) == IsFiniteSet(X) /\ \A r \in X : IsRow(r)

Again(r) == [r EXCEPT !.item = -r.item]

Twice(S) == S \cup {Again(r) : r \in S}

Copied(X, f) == X \cup {Again(r) : r \in {x \in X : x.group_id = f}}

LEMMA AgainReads ==
  ASSUME NEW r, IsRow(r)
  PROVE  LET s == Again(r) IN
         /\ s.item = -r.item /\ s.arm = r.arm /\ s.question_id = r.question_id
         /\ s.group_id = r.group_id /\ s.expected_behaviour = r.expected_behaviour
         /\ s.score = r.score /\ s.asserts_conflict = r.asserts_conflict
         /\ s.abstained = r.abstained /\ s.record = r.record
BY DEF Again, IsRow

\* No copy is one of the rows, and no two rows have one copy.
LEMMA CopiesAreNew ==
  ASSUME NEW r, IsRow(r), NEW s, IsRow(s)
  PROVE  Again(r) # s /\ (Again(r) = Again(s) => r = s)
<1>1. Again(r).item < 0 /\ s.item > 0
  BY AgainReads DEF IsRow
<1>2. Again(r) = Again(s) => r = s
  <2> SUFFICES ASSUME Again(r) = Again(s) PROVE r = s
    OBVIOUS
  <2>1. /\ r.arm = s.arm /\ r.question_id = s.question_id
        /\ r.group_id = s.group_id /\ r.expected_behaviour = s.expected_behaviour
        /\ r.score = s.score /\ r.asserts_conflict = s.asserts_conflict
        /\ r.abstained = s.abstained /\ r.record = s.record
    BY AgainReads
  <2>2. r.item = s.item
    <3>1. -r.item = -s.item /\ r.item \in Int /\ s.item \in Int
      BY AgainReads DEF IsRow
    <3>2. QED BY <3>1
  <2>3. QED BY <2>1, <2>2 DEF IsRow
<1>3. Again(r) # s
  <2>1. SUFFICES ASSUME Again(r) = s PROVE FALSE
    OBVIOUS
  <2>2. s.item < 0 /\ s.item > 0 /\ s.item \in Int
    BY <1>1, <2>1 DEF IsRow
  <2>3. QED BY <2>2
<1>4. QED BY <1>2, <1>3

LEMMA TwiceCounts ==
  ASSUME NEW S, Judged(S), NEW v, \A r \in Twice(S) : v[r] = r.score
  PROVE  /\ IsFiniteSet(Twice(S)) /\ Cardinality(Twice(S)) = 2 * Cardinality(S)
         /\ Sum(v, Twice(S)) = 2 * Sum(v, S)
<1> DEFINE Good == {T \in SUBSET S : /\ IsFiniteSet(Twice(T)) /\ Cardinality(Twice(T)) = 2 * Cardinality(T)
                                     /\ Sum(v, Twice(T)) = 2 * Sum(v, T)}
<1>1. IsFiniteSet(S) /\ \A r \in S : IsRow(r) /\ v[r] \in Int /\ v[Again(r)] = v[r]
  <2>1. \A r \in S : IsRow(r)
    BY DEF Judged
  <2>2. \A r \in S : v[r] = r.score /\ v[Again(r)] = Again(r).score
    BY DEF Twice
  <2>3. QED BY <2>1, <2>2, AgainReads DEF Judged, IsRow
<1>2. ASSUME NEW T \in SUBSET S, \A x \in T : T \ {x} \in Good
      PROVE  T \in Good
  <2>1. CASE T = {}
    <3>1. Twice(T) = {} /\ IsFiniteSet({}) /\ Cardinality({}) = 0
      BY <2>1, FS_EmptySet DEF Twice
    <3>2. Sum(v, {}) = 0
      BY FS_EmptySet, SumStep
    <3>3. QED BY <2>1, <3>1, <3>2
  <2>2. CASE T # {}
    <3>1. PICK x \in T : TRUE
      BY <2>2
    <3> DEFINE U == T \ {x}
               W == Twice(U)
               y == Again(x)
    <3>2. /\ IsFiniteSet(W) /\ Cardinality(W) = 2 * Cardinality(U)
          /\ Sum(v, W) = 2 * Sum(v, U)
      BY <1>2
    <3>3. IsFiniteSet(T) /\ IsFiniteSet(U) /\ Cardinality(U) \in Nat /\ Cardinality(U) = Cardinality(T) - 1
          /\ Cardinality(T) \in Nat
      BY <1>1, FS_Subset, FS_RemoveElement, FS_CardinalityType
    <3>4. Twice(T) = (W \cup {x}) \cup {y}
      BY <3>1 DEF Twice
    <3>5. x \notin W /\ y \notin W \cup {x}
      BY <1>1, <3>1, CopiesAreNew DEF Twice
    <3>6. (\A r \in (W \cup {x}) \cup {y} : v[r] \in Int) /\ v[y] = v[x] /\ v[x] \in Int
      BY <1>1, <3>1 DEF Twice
    <3>7. Sum(v, T) = v[x] + Sum(v, U) /\ Sum(v, U) \in Int
      <4>1. \A r \in T : v[r] \in Int
        BY <1>1
      <4>2. Sum(v, T) = v[x] + Sum(v, T \ {x})
        BY <3>1, <3>3, <4>1, SumRemove
      <4>3. Sum(v, U) \in Int
        BY <3>3, <4>1, SumStep
      <4>4. QED BY <4>2, <4>3
    <3> HIDE DEF U, W, y
    <3> DEFINE Z == W \cup {x}
    <3>8. IsFiniteSet(Z) /\ Cardinality(Z) = Cardinality(W) + 1 /\ Sum(v, Z) = v[x] + Sum(v, W)
      <4>1. IsFiniteSet(Z) /\ Cardinality(Z) = Cardinality(W) + 1
        BY <3>2, <3>5, FS_AddElement
      <4>2. \A r \in W \cup {x} : v[r] \in Int
        BY <3>6
      <4>3. Sum(v, W \cup {x}) = v[x] + Sum(v, W)
        BY <3>2, <3>5, <4>2, SumAdd
      <4>4. QED BY <4>1, <4>3
    <3>9. IsFiniteSet(Z \cup {y}) /\ Cardinality(Z \cup {y}) = Cardinality(Z) + 1
          /\ Sum(v, Z \cup {y}) = v[y] + Sum(v, Z)
      <4>1. y \notin Z /\ \A r \in Z \cup {y} : v[r] \in Int
        BY <3>5, <3>6
      <4> HIDE DEF Z
      <4>2. QED BY <3>8, <4>1, FS_AddElement, SumAdd
    <3>10. Twice(T) = Z \cup {y}
      BY <3>4
    <3> HIDE DEF Z
    <3>11. Cardinality(Twice(T)) = 2 * Cardinality(T)
      BY <3>2, <3>3, <3>8, <3>9, <3>10
    <3>12. Sum(v, Twice(T)) = 2 * Sum(v, T)
      BY <3>2, <3>6, <3>7, <3>8, <3>9, <3>10
    <3>13. QED BY <3>9, <3>10, <3>11, <3>12
  <2>3. QED BY <2>1, <2>2
<1> HIDE DEF Good
<1>3. \A T \in SUBSET S : T \in Good
  BY <1>1, <1>2, SubsetInduction
<1>4. S \in Good
  BY <1>3
<1>5. QED BY <1>4 DEF Good

\* The mean of a family of twice the questions is the same.
LEMMA MeanIsOfTheFamily ==
  ASSUME NEW X, Judged(X), NEW f, NEW g, NEW a
  PROVE  /\ OfFamilyAndArm(Copied(X, f), g, a) # {} <=> OfFamilyAndArm(X, g, a) # {}
         /\ FamilyMean(Copied(X, f), g, a) = FamilyMean(X, g, a)
<1> DEFINE S == OfFamilyAndArm(X, g, a)
           C == OfFamilyAndArm(Copied(X, f), g, a)
<1>1. C = IF g = f THEN Twice(S) ELSE S
  BY AgainReads DEF OfFamilyAndArm, Copied, Twice, Judged
<1>2. CASE g # f \/ S = {}
  <2>1. C = S
    BY <1>1, <1>2 DEF Twice
  <2>2. QED BY <2>1 DEF FamilyMean
<1>3. CASE g = f /\ S # {}
  <2> DEFINE v == [r \in S |-> r.score]
             w == [r \in C |-> r.score]
             n == Cardinality(S)
             s == Sum(v, S)
  <2>1. Judged(S) /\ C = Twice(S) /\ S \subseteq C
    <3>1. IsFiniteSet(S)
      BY FS_Subset DEF Judged, OfFamilyAndArm
    <3>2. QED BY <1>1, <1>3, <3>1 DEF Judged, OfFamilyAndArm, Twice
  <2>2. n \in Nat /\ n > 0
    <3>1. n \in Nat /\ n # 0
      BY <1>3, <2>1, FS_CardinalityType, FS_EmptySet DEF Judged
    <3>2. QED BY <3>1
  <2>3. \A r \in S : v[r] \in Int /\ w[r] = v[r]
    BY <2>1 DEF Judged, IsRow
  <2>4. \A r \in C : w[r] = r.score
    OBVIOUS
  <2> HIDE DEF v, w, S, C
  <2>5. Cardinality(C) = 2 * n /\ Sum(w, C) = 2 * Sum(w, S)
    BY <2>1, <2>4, TwiceCounts
  <2>6. Sum(w, S) = s /\ s \in Int
    BY <2>1, <2>3, SumCongruence, SumStep DEF Judged
  <2>7. FamilyMean(X, g, a) = (12 * s) \div n
    BY DEF FamilyMean, Scale, SumFunction, Sum, S, v
  <2>8. FamilyMean(Copied(X, f), g, a) = (12 * Sum(w, C)) \div Cardinality(C)
    BY DEF FamilyMean, Scale, SumFunction, Sum, C, w
  <2>9. (12 * (2 * s)) \div (2 * n) = (12 * s) \div n
    <3> DEFINE k == 12 * s
    <3>1. k \in Int /\ 12 * (2 * s) = 2 * k
      BY <2>6
    <3> HIDE DEF k, n
    <3>2. (2 * k) \div (2 * n) = k \div n
      BY <2>2, <3>1, DivTwice
    <3>3. QED BY <3>1, <3>2 DEF k
  <2>10. QED BY <1>3, <2>1, <2>5, <2>6, <2>7, <2>8, <2>9 DEF S, C
<1>4. QED BY <1>2, <1>3

LEMMA CopiesSelect ==
  ASSUME NEW X, Judged(X), NEW f, NEW B
  PROVE  /\ Judged(select(X, B))
         /\ select(Copied(X, f), B) = Copied(select(X, B), f)
<1>1. IsFiniteSet(select(X, B))
  BY FS_Subset DEF Judged, select
<1>2. Judged(select(X, B))
  BY <1>1 DEF Judged, select
<1>3. \A r \in X : /\ Again(r).expected_behaviour = r.expected_behaviour
  BY AgainReads DEF Judged
<1>4. select(Copied(X, f), B) = Copied(select(X, B), f)
  BY <1>3 DEF select, Copied
<1>5. QED BY <1>2, <1>4

\* Nothing but the rows of the family and its counts of them is changed.
LEMMA CopiesRead ==
  ASSUME NEW X, Judged(X), NEW f
  PROVE  /\ FamiliesIn(Copied(X, f)) = FamiliesIn(X)
         /\ {r.arm : r \in Copied(X, f)} = {r.arm : r \in X}
         /\ \A a, b : contrast(Copied(X, f), a, b) = contrast(X, a, b)
         /\ \A a : /\ {g \in FamiliesIn(Copied(X, f)) :
                         \E r \in OfFamilyAndArm(Copied(X, f), g, a) : r.asserts_conflict}
                      = {g \in FamiliesIn(X) : \E r \in OfFamilyAndArm(X, g, a) : r.asserts_conflict}
                   /\ {g \in FamiliesIn(OfArm(Copied(X, f), a)) :
                         \A r \in OfFamilyAndArm(Copied(X, f), g, a) : r.abstained}
                      = {g \in FamiliesIn(OfArm(X, a)) : \A r \in OfFamilyAndArm(X, g, a) : r.abstained}
<1> DEFINE C == Copied(X, f)
<1>1. \A r \in X : /\ Again(r).group_id = r.group_id /\ Again(r).arm = r.arm
                   /\ Again(r).asserts_conflict = r.asserts_conflict
                   /\ Again(r).abstained = r.abstained
  BY AgainReads DEF Judged
<1>2. X \subseteq C /\ \A s \in C : s \in X \/ \E r \in X : s = Again(r)
  BY DEF Copied
<1>3. \A s \in C : \E r \in X : /\ s.group_id = r.group_id /\ s.arm = r.arm
                                /\ s.asserts_conflict = r.asserts_conflict
                                /\ s.abstained = r.abstained
  BY <1>1, <1>2
<1> HIDE DEF C
<1>4. FamiliesIn(C) = FamiliesIn(X) /\ {r.arm : r \in C} = {r.arm : r \in X}
  BY <1>2, <1>3 DEF FamiliesIn
<1>5. ASSUME NEW a, NEW b PROVE contrast(C, a, b) = contrast(X, a, b)
  <2>1. \A g : /\ FamilyMean(C, g, a) = FamilyMean(X, g, a) /\ FamilyMean(C, g, b) = FamilyMean(X, g, b)
               /\ OfFamilyAndArm(C, g, a) # {} <=> OfFamilyAndArm(X, g, a) # {}
               /\ OfFamilyAndArm(C, g, b) # {} <=> OfFamilyAndArm(X, g, b) # {}
    BY MeanIsOfTheFamily DEF C
  <2>2. \A g : Difference(C, a, b, g) = Difference(X, a, b, g)
    BY <2>1 DEF Difference
  <2>3. Paired(C, a, b) = Paired(X, a, b)
    BY <1>4, <2>1 DEF Paired
  <2>4. QED BY <2>2, <2>3 DEF contrast
<1>6. ASSUME NEW a
      PROVE  /\ {g \in FamiliesIn(C) : \E r \in OfFamilyAndArm(C, g, a) : r.asserts_conflict}
                = {g \in FamiliesIn(X) : \E r \in OfFamilyAndArm(X, g, a) : r.asserts_conflict}
             /\ {g \in FamiliesIn(OfArm(C, a)) : \A r \in OfFamilyAndArm(C, g, a) : r.abstained}
                = {g \in FamiliesIn(OfArm(X, a)) : \A r \in OfFamilyAndArm(X, g, a) : r.abstained}
  <2>1. \A g : (\E r \in OfFamilyAndArm(C, g, a) : r.asserts_conflict)
                 <=> (\E r \in OfFamilyAndArm(X, g, a) : r.asserts_conflict)
    BY <1>2, <1>3 DEF OfFamilyAndArm
  <2>2. \A g : (\A r \in OfFamilyAndArm(C, g, a) : r.abstained)
                 <=> (\A r \in OfFamilyAndArm(X, g, a) : r.abstained)
    BY <1>2, <1>3 DEF OfFamilyAndArm
  <2>3. FamiliesIn(OfArm(C, a)) = FamiliesIn(OfArm(X, a))
    BY <1>2, <1>3 DEF OfArm, FamiliesIn
  <2>4. QED BY <1>4, <2>1, <2>2, <2>3
<1>7. QED BY <1>4, <1>5, <1>6 DEF C

LEMMA RowsAreJudged ==
  ASSUME Filed, ~ JoinRefused
  PROVE  Judged(JoinedRows)
<1>1. IsFiniteSet(DOMAIN sheet) /\ DOMAIN sheet \subseteq Nat \ {0}
      /\ \A i \in DOMAIN sheet : first[i].score \in Int
  BY DEF Filed, JoinRefused
<1>2. IsFiniteSet(JoinedRows)
  <2> DEFINE g == [i \in DOMAIN sheet |-> Joined(i)]
  <2>1. g \in Surjection(DOMAIN sheet, JoinedRows)
    BY DEF Surjection, JoinedRows
  <2>2. QED BY <1>1, <2>1, FS_Surjection
<1>3. \A i \in DOMAIN sheet : IsRow(Joined(i))
  BY <1>1 DEF IsRow, Joined
<1>4. QED BY <1>2, <1>3 DEF JoinedRows, Judged

\* Every verdict counts families: those of the judged answers are the same
\* when one family's questions are all asked again.
THEOREM FamilyUnit == Spec => []FamilyIsTheUnit
<1>1. Computed => FamilyIsTheUnit
  <2> SUFFICES ASSUME Computed, pc = "diagnose", NEW f
               PROVE  Verdicts(Repeated(f)) = verdicts
    BY DEF FamilyIsTheUnit
  <2>1. Filed /\ ~ JoinRefused /\ joined = JoinedRows /\ verdicts = Verdicts(joined)
    BY DEF Computed
  <2>2. Judged(joined)
    BY <2>1, RowsAreJudged
  <2> DEFINE C == Copied(joined, f)
  <2>3. Repeated(f) = C
    BY DEF Repeated, Copied, Again
  <2>4. \A B, a, b : contrast(select(C, B), a, b) = contrast(select(joined, B), a, b)
    BY <2>2, CopiesSelect, CopiesRead
  <2>5. {r.arm : r \in C} = {r.arm : r \in joined}
    BY <2>2, CopiesRead
  <2>6. ASSUME NEW B, NEW a
        PROVE  LET S == select(joined, B)
                   T == select(C, B)
               IN /\ {g \in FamiliesIn(T) : \E r \in OfFamilyAndArm(T, g, a) : r.asserts_conflict}
                     = {g \in FamiliesIn(S) : \E r \in OfFamilyAndArm(S, g, a) : r.asserts_conflict}
                  /\ {g \in FamiliesIn(OfArm(T, a)) : \A r \in OfFamilyAndArm(T, g, a) : r.abstained}
                     = {g \in FamiliesIn(OfArm(S, a)) : \A r \in OfFamilyAndArm(S, g, a) : r.abstained}
    <3>1. Judged(select(joined, B)) /\ select(C, B) = Copied(select(joined, B), f)
      BY <2>2, CopiesSelect
    <3>2. QED BY <3>1, CopiesRead
  <2> HIDE DEF C
  <2>7. H1(C) = H1(joined)
    <3> DEFINE own == select(C, SUPERSESSION)
               was == select(joined, SUPERSESSION)
               rest == {r.arm : r \in C} \ {"A"}
               P(S) == \A a \in rest : decide(contrast(S, a, "A"), DirectionH1) = "supported"
               Q(S) == \A a, b \in rest : decide_within_margin(contrast(S, a, b)).within
    <3>1. \A a, b : contrast(own, a, b) = contrast(was, a, b)
      BY <2>4
    <3>2. H1(C) = IF P(own) /\ Q(own) THEN "supported" ELSE "not supported"
      BY DEF H1
    <3>3. H1(joined) = IF P(was) /\ Q(was) THEN "supported" ELSE "not supported"
      BY <2>5 DEF H1
    <3> HIDE DEF own, was, rest
    <3>4. P(own) <=> P(was)
      BY <3>1
    <3>5. ASSUME NEW a \in rest, NEW b \in rest
          PROVE decide_within_margin(contrast(own, a, b)).within = decide_within_margin(contrast(was, a, b)).within
      BY <3>1
    <3>6. Q(own) <=> Q(was)
      BY <3>5
    <3>7. CASE P(was) /\ Q(was)
      <4>1. P(own) /\ Q(own)
        BY <3>4, <3>6, <3>7
      <4>2. H1(C) = "supported"
        BY <3>2, <4>1
      <4>3. H1(joined) = "supported"
        BY <3>3, <3>7
      <4>4. QED BY <4>2, <4>3
    <3>8. CASE ~ (P(was) /\ Q(was))
      <4>1. ~ (P(own) /\ Q(own))
        BY <3>4, <3>6, <3>8
      <4>2. H1(C) = "not supported"
        BY <3>2, <4>1
      <4>3. H1(joined) = "not supported"
        BY <3>3, <3>8
      <4>4. QED BY <4>2, <4>3
    <3>9. QED BY <3>7, <3>8
  <2>8. H2(C) = H2(joined)
    BY <2>4 DEF H2
  <2>9. H2c(C) = H2c(joined)
    <3> DEFINE T == select(C, COMPATIBLE_CONTROL)
               S == select(joined, COMPATIBLE_CONTROL)
               flagged(X, a) == {g \in FamiliesIn(X) : \E r \in OfFamilyAndArm(X, g, a) : r.asserts_conflict}
               fewer(X) == Cardinality(flagged(X, "D")) <= Cardinality(flagged(X, "B"))
    <3>1. ASSUME NEW a PROVE flagged(T, a) = flagged(S, a)
      <4>1. Judged(S) /\ T = Copied(S, f)
        BY <2>2, CopiesSelect DEF C
      <4> HIDE DEF S, T
      <4>2. flagged(Copied(S, f), a) = flagged(S, a)
        BY <4>1, CopiesRead
      <4>3. QED BY <4>1, <4>2
    <3>2. H2c(C) = IF fewer(T) THEN "not supported" ELSE "supported"
      BY DEF H2c, AnyHit
    <3>3. H2c(joined) = IF fewer(S) THEN "not supported" ELSE "supported"
      BY DEF H2c, AnyHit
    <3> HIDE DEF flagged, S, T
    <3>4. fewer(T) <=> fewer(S)
      BY <3>1
    <3>5. CASE fewer(S)
      <4>1. H2c(C) = "not supported"
        BY <3>2, <3>4, <3>5
      <4>2. H2c(joined) = "not supported"
        BY <3>3, <3>5
      <4>3. QED BY <4>1, <4>2
    <3>6. CASE ~ fewer(S)
      <4>1. H2c(C) = "supported"
        BY <3>2, <3>4, <3>6
      <4>2. H2c(joined) = "supported"
        BY <3>3, <3>6
      <4>3. QED BY <4>1, <4>2
    <3>7. QED BY <3>5, <3>6
  <2>10. H4(C) = H4(joined)
    <3> DEFINE T == select(C, GAPS)
               S == select(joined, GAPS)
               hits(X, a) == {g \in FamiliesIn(OfArm(X, a)) : \A r \in OfFamilyAndArm(X, g, a) : r.abstained}
               held(X, a) == Cardinality(hits(X, a))
               arms == {r.arm : r \in C} \ {"D"}
               P(X) == \A a \in arms : held(X, "D") > held(X, a)
    <3>1. ASSUME NEW a PROVE hits(T, a) = hits(S, a)
      BY <2>6
    <3>2. H4(C) = IF P(T) THEN "supported" ELSE "not supported"
      BY DEF H4, AllHit
    <3>3. H4(joined) = IF P(S) THEN "supported" ELSE "not supported"
      BY <2>5 DEF H4, AllHit
    <3> HIDE DEF hits, arms
    <3>4. P(T) <=> P(S)
      BY <3>1
    <3>5. CASE P(S)
      <4>1. H4(C) = "supported"
        BY <3>2, <3>4, <3>5
      <4>2. H4(joined) = "supported"
        BY <3>3, <3>5
      <4>3. QED BY <4>1, <4>2
    <3>6. CASE ~ P(S)
      <4>1. H4(C) = "not supported"
        BY <3>2, <3>4, <3>6
      <4>2. H4(joined) = "not supported"
        BY <3>3, <3>6
      <4>3. QED BY <4>1, <4>2
    <3>7. QED BY <3>5, <3>6
  <2>11. QED BY <2>1, <2>3, <2>7, <2>8, <2>9, <2>10 DEF Verdicts
<1>2. QED BY <1>1, ComputedInvariant, PTL

Differences(X, t, b) == [f \in Paired(X, t, b) |-> Difference(X, t, b, f)]

\* A contrast is of numbers: a family that carries an arm has a mean in it.
LEMMA ContrastIsOfNumbers ==
  ASSUME NEW X, Judged(X), NEW t, NEW b
  PROVE  LET P == Paired(X, t, b)
             c == contrast(X, t, b)
         IN /\ IsFiniteSet(P)
            /\ \A f \in P : /\ FamilyMean(X, f, t) \in Int /\ FamilyMean(X, f, b) \in Int
                            /\ Differences(X, t, b)[f] = FamilyMean(X, f, t) - FamilyMean(X, f, b)
            /\ c.families = Cardinality(P) /\ c.sum = Sum(Differences(X, t, b), P)
            /\ c.families \in Nat /\ c.sum \in Int /\ c.better \in Nat /\ c.worse \in Nat
<1> DEFINE P == Paired(X, t, b)
           c == contrast(X, t, b)
           d == Differences(X, t, b)
<1>1. IsFiniteSet(P)
  <2> DEFINE g == [r \in X |-> r.group_id]
  <2>1. g \in Surjection(X, FamiliesIn(X))
    BY DEF Surjection, FamiliesIn
  <2>2. IsFiniteSet(FamiliesIn(X))
    BY <2>1, FS_Surjection DEF Judged
  <2>3. QED BY <2>2, FS_Subset DEF Paired
<1>2. ASSUME NEW f, NEW a, OfFamilyAndArm(X, f, a) # {}
      PROVE  FamilyMean(X, f, a) \in Int
  <2> DEFINE S == OfFamilyAndArm(X, f, a)
             v == [r \in S |-> r.score]
             n == Cardinality(S)
  <2>1. IsFiniteSet(S) /\ \A r \in S : v[r] \in Int
    BY FS_Subset DEF Judged, OfFamilyAndArm, IsRow
  <2>2. n \in Nat /\ n > 0
    <3>1. n \in Nat /\ n # 0
      BY <1>2, <2>1, FS_CardinalityType, FS_EmptySet
    <3>2. QED BY <3>1
  <2> DEFINE s == Sum(v, S)
             k == 12 * s
  <2>3. FamilyMean(X, f, a) = k \div n
    BY DEF FamilyMean, Scale, SumFunction, Sum
  <2> HIDE DEF v, S
  <2>4. s \in Int
    BY <2>1, SumStep
  <2> HIDE DEF s
  <2>5. k \in Int
    BY <2>4
  <2> HIDE DEF n, k
  <2>6. QED BY <2>2, <2>3, <2>5, DivBounds
<1>3. \A f \in P : /\ FamilyMean(X, f, t) \in Int /\ FamilyMean(X, f, b) \in Int
                   /\ d[f] = FamilyMean(X, f, t) - FamilyMean(X, f, b)
  BY <1>2 DEF Paired, Differences, Difference
<1>4. c.families = Cardinality(P) /\ c.sum = Sum(d, P)
  BY DEF contrast, Differences, SumFunction, Sum
<1>5. c.families \in Nat /\ c.better \in Nat /\ c.worse \in Nat
  <2> DEFINE B == {f \in P : Difference(X, t, b, f) > 0}
             W == {f \in P : Difference(X, t, b, f) < 0}
  <2>1. IsFiniteSet(B) /\ IsFiniteSet(W)
    BY <1>1, FS_Subset
  <2>2. c.better = Cardinality(B) /\ c.worse = Cardinality(W)
    BY DEF contrast
  <2>3. QED BY <1>1, <1>4, <2>1, <2>2, FS_CardinalityType
<1> HIDE DEF d
<1>6. c.sum \in Int
  <2>1. \A f \in P : d[f] \in Int
    BY <1>3
  <2> HIDE DEF P
  <2>2. Sum(d, P) \in Int
    BY <1>1, <2>1, SumStep
  <2>3. QED BY <1>4, <2>2
<1>7. QED BY <1>1, <1>3, <1>4, <1>5, <1>6 DEF d

\* The arms of a contrast swapped.
LEMMA ContrastSwapped ==
  ASSUME NEW X, Judged(X), NEW t, NEW b
  PROVE  LET c == contrast(X, t, b)
             s == contrast(X, b, t)
         IN s.families = c.families /\ s.sum = -c.sum /\ s.better = c.worse /\ s.worse = c.better
<1> DEFINE P == Paired(X, t, b)
           c == contrast(X, t, b)
           s == contrast(X, b, t)
           d == Differences(X, t, b)
           e == Differences(X, b, t)
<1>1. /\ IsFiniteSet(P)
      /\ \A f \in P : FamilyMean(X, f, t) \in Int /\ FamilyMean(X, f, b) \in Int
      /\ \A f \in P : d[f] = FamilyMean(X, f, t) - FamilyMean(X, f, b)
      /\ c.families = Cardinality(P) /\ c.sum = Sum(d, P)
  BY ContrastIsOfNumbers
<1>2. Paired(X, b, t) = P
  BY DEF Paired
<1>3. /\ \A f \in P : e[f] = FamilyMean(X, f, b) - FamilyMean(X, f, t)
      /\ s.families = Cardinality(P) /\ s.sum = Sum(e, P)
  BY <1>2, ContrastIsOfNumbers
<1>4. c.better = Cardinality({f \in P : Difference(X, t, b, f) > 0})
      /\ c.worse = Cardinality({f \in P : Difference(X, t, b, f) < 0})
      /\ s.better = Cardinality({f \in P : Difference(X, b, t, f) > 0})
      /\ s.worse = Cardinality({f \in P : Difference(X, b, t, f) < 0})
  BY <1>2 DEF contrast
<1> HIDE DEF P, c, s, d, e
<1>5. /\ {f \in P : Difference(X, b, t, f) > 0} = {f \in P : Difference(X, t, b, f) < 0}
      /\ {f \in P : Difference(X, b, t, f) < 0} = {f \in P : Difference(X, t, b, f) > 0}
  BY <1>1 DEF Difference
<1>6. Sum(e, P) = -Sum(d, P)
  <2> DEFINE minus == -1
             zero == 0
  <2>1. \A f \in P : d[f] \in Int /\ e[f] = minus * d[f] + zero * d[f]
    BY <1>1, <1>3
  <2>2. minus \in Int /\ zero \in Int
    OBVIOUS
  <2> HIDE DEF minus, zero
  <2>3. Sum(e, P) = minus * Sum(d, P) + zero * Sum(d, P)
    BY <1>1, <2>1, <2>2, SumLinear
  <2>4. Sum(d, P) \in Int
    BY <1>1, <2>1, SumStep
  <2>5. QED BY <2>3, <2>4 DEF minus, zero
<1>7. QED BY <1>1, <1>3, <1>4, <1>5, <1>6 DEF c, s

\* The sums with each family left out count every family in all but its own.
LEMMA FoldsSum ==
  ASSUME NEW X, Judged(X), NEW t, NEW b
  PROVE  LET c == contrast(X, t, b)
             folds == leave_one_family_out(X, t, b)
         IN SumFunction([f \in DOMAIN folds |-> folds[f].sum]) = (c.families - 1) * c.sum
<1> DEFINE P == Paired(X, t, b)
           c == contrast(X, t, b)
           d == Differences(X, t, b)
           folds == leave_one_family_out(X, t, b)
           h == [f \in P |-> folds[f].sum]
           n == Cardinality(P)
           S == Sum(d, P)
<1>1. /\ IsFiniteSet(P)
      /\ \A f \in P : FamilyMean(X, f, t) \in Int /\ FamilyMean(X, f, b) \in Int
      /\ \A f \in P : d[f] = FamilyMean(X, f, t) - FamilyMean(X, f, b)
      /\ c.families = n /\ c.sum = S
  BY ContrastIsOfNumbers
<1>2. \A f \in P : d[f] \in Int
  BY <1>1
<1>3. ASSUME NEW f \in P
      PROVE  h[f] = S - d[f]
  <2> DEFINE R == {r \in X : r.group_id # f}
             e == Differences(R, t, b)
             Q == P \ {f}
  <2>1. h[f] = contrast(R, t, b).sum
    BY DEF leave_one_family_out
  <2>2. Judged(R)
    BY FS_Subset DEF Judged
  <2>3. \A g, a : g # f => OfFamilyAndArm(R, g, a) = OfFamilyAndArm(X, g, a)
    BY DEF OfFamilyAndArm
  <2>4. FamiliesIn(R) = FamiliesIn(X) \ {f}
    BY DEF FamiliesIn
  <2>5. Paired(R, t, b) = Q
    BY <2>3, <2>4 DEF Paired
  <2>6. \A g \in Q : e[g] = d[g]
    BY <2>3, <2>5 DEF Differences, Difference, FamilyMean
  <2>7. contrast(R, t, b).sum = Sum(e, Q)
    BY <2>2, <2>5, ContrastIsOfNumbers
  <2> HIDE DEF P, R, d, e
  <2>8. IsFiniteSet(Q) /\ \A g \in Q : d[g] \in Int /\ e[g] = d[g]
    BY <1>1, <1>2, <2>6, FS_Subset
  <2> HIDE DEF Q
  <2>9. Sum(d, Q) = Sum(e, Q) /\ Sum(d, Q) \in Int
    BY <2>8, SumCongruence, SumStep
  <2>10. Sum(d, P) = d[f] + Sum(d, Q)
    BY <1>1, <1>2, SumRemove DEF Q
  <2>11. d[f] \in Int
    BY <1>2
  <2> HIDE DEF h
  <2>12. QED BY <2>1, <2>7, <2>9, <2>10, <2>11
<1>4. SumFunction([f \in DOMAIN folds |-> folds[f].sum]) = Sum(h, P)
  BY DEF leave_one_family_out, SumFunction, Sum
<1> HIDE DEF P, d, h, folds, c
<1>5. S \in Int /\ n \in Nat
  BY <1>1, <1>2, SumStep, FS_CardinalityType
<1> HIDE DEF S
<1> DEFINE all == [f \in P |-> S]
<1>6. Sum(all, P) = S * n
  <2>1. \A f \in P : all[f] = S
    OBVIOUS
  <2> HIDE DEF all
  <2>2. QED BY <1>1, <1>5, <2>1, SumConstant
<1>7. \A f \in P : all[f] \in Int /\ d[f] \in Int /\ h[f] = all[f] - d[f]
  BY <1>2, <1>3, <1>5
<1> HIDE DEF all
<1>8. IsFiniteSet(P)
  BY <1>1
<1>9. Sum(h, P) = Sum(all, P) - Sum(d, P)
  BY <1>7, <1>8, SumDifference
<1>10. Sum(h, P) = S * n - S
  BY <1>5, <1>6, <1>9 DEF S
<1>11. S * n - S = (n - 1) * S
  BY <1>5
<1>12. QED BY <1>1, <1>4, <1>10, <1>11 DEF c, folds

\* The rules read one contrast alike: whatever is supported is outside the
\* margin on the treatment's side, and swapping the arms mirrors what is read.
THEOREM RulesAgreeing == Spec => []RulesAgree
<1>1. Computed => RulesAgree
  <2> SUFFICES ASSUME Computed, pc = "diagnose",
                      NEW own \in {select(joined, SUPERSESSION), select(joined, LIVE_DISAGREEMENT)},
                      NEW a, NEW b
               PROVE  LET c == contrast(own, a, b)
                          margin == decide_within_margin(c)
                          swapped == decide_within_margin(contrast(own, b, a))
                          folds == leave_one_family_out(own, a, b)
                      IN /\ decide(c, 1) = "supported" =>
                              /\ ~ margin.within /\ margin.higher = "treatment"
                              /\ decide(contrast(own, b, a), 1) # "supported"
                         /\ swapped = [margin EXCEPT !.higher = Mirror(margin.higher)]
                         /\ SumFunction([f \in DOMAIN folds |-> folds[f].sum])
                              = (c.families - 1) * c.sum
    BY DEF RulesAgree
  <2> DEFINE c == contrast(own, a, b)
             s == contrast(own, b, a)
             margin == decide_within_margin(c)
             swapped == decide_within_margin(s)
  <2>1. Judged(own)
    <3>1. Judged(joined)
      BY RowsAreJudged DEF Computed
    <3>2. QED BY <3>1, CopiesSelect
  <2>2. c.families \in Nat /\ c.sum \in Int /\ c.better \in Nat /\ c.worse \in Nat
    BY <2>1, ContrastIsOfNumbers
  <2>3. s.families = c.families /\ s.sum = -c.sum /\ s.better = c.worse /\ s.worse = c.better
    BY <2>1, ContrastSwapped
  <2>4. LET folds == leave_one_family_out(own, a, b) IN
        SumFunction([f \in DOMAIN folds |-> folds[f].sum]) = (c.families - 1) * c.sum
    BY <2>1, FoldsSum
  <2> HIDE DEF c, s
  <2>5. swapped = [margin EXCEPT !.higher = Mirror(margin.higher)]
    <3>1. ExceedsInSize(s) <=> ExceedsInSize(c)
      BY <2>2, <2>3 DEF ExceedsInSize, Magnitude, Scale
    <3>2. QED BY <2>2, <2>3, <3>1 DEF decide_within_margin, Mirror
  <2>6. ASSUME decide(c, 1) = "supported"
        PROVE  ~ margin.within /\ margin.higher = "treatment" /\ decide(s, 1) # "supported"
    <3>1. Exceeds(c)
      BY <2>6 DEF decide
    <3>2. c.sum > 0 /\ ExceedsInSize(c) /\ ~ Exceeds(s)
      BY <2>2, <2>3, <3>1 DEF Exceeds, ExceedsInSize, Magnitude, Scale
    <3>3. QED BY <3>2 DEF decide, decide_within_margin
  <2>7. QED BY <2>4, <2>5, <2>6 DEF c, s
<1>2. QED BY <1>1, ComputedInvariant, PTL

\* Records of different questions are as many as their questions.
LEMMA RecordsCountQuestions ==
  ASSUME NEW R, IsFiniteSet(R), NEW Q,
         \A r, s \in R : r.question_id = s.question_id => r = s,
         Q = {r.question_id : r \in R}
  PROVE  Cardinality(R) = Cardinality(Q)
<1> DEFINE g == [r \in R |-> r.question_id]
<1>1. g \in Bijection(R, Q)
  BY DEF Bijection, Injection, Surjection, IsInjective
<1>2. QED BY <1>1, FS_Bijection DEF ExistsBijection

\* The diagnostic counts, in each group, the frozen questions that the question
\* set places in it, each once, for any runs and declared families
\* (by_hypothesis_group).
THEOREM DiagnosticWhole == Spec => []DiagnosticIsWhole
<1>1. Computed => DiagnosticIsWhole
  <2> SUFFICES ASSUME Computed, pc = "reported" PROVE DiagnosticIsWhole
    BY DEF DiagnosticIsWhole
  <2> DEFINE S == Records(DiagnosticRun)
             frozen == ToSet(table[DiagnosticRun].answers)
             fam(q) == QuestionSet[q].family_id
             placed(g) == {q \in DOMAIN QuestionSet : fam(q) \in DOMAIN Declared /\ DiagnosticGroup[Declared[fam(q)]] = g}
             recorded(q) == CHOOSE r \in frozen : r.question_id = q
             right(q) == recorded(q).relationship = Declared[fam(q)]
             shown(q) == \E c, d \in recorded(q).retrieved :
                           c.doc # d.doc /\ {c, d} \subseteq anchor_chunks(fam(q), q)
  <2>1. /\ Filed /\ ~ SourceRefused(dirs[DiagnosticRun])
        /\ diagnostic = by_hypothesis_group(S)
    BY DEF Computed
  <2>2. /\ Admitted(DiagnosticRun, dirs[DiagnosticRun], table)
        /\ AnswersTheSplit(dirs[DiagnosticRun].answers)
    BY <2>1 DEF SourceRefused
  <2>3. /\ S = frozen /\ \A r \in S : IsFiniteSet(r.retrieved)
        /\ dirs[DiagnosticRun].answers \in Seq(ToSet(dirs[DiagnosticRun].answers))
    BY <2>1, <2>2 DEF Admitted, Authentic, Filed, Records
  <2>4. /\ IsFiniteSet(S)
        /\ \A r \in S : r.question_id \in DOMAIN QuestionSet /\ r.family_id = fam(r.question_id)
        /\ \A q \in DOMAIN QuestionSet : \E r \in S : r.question_id = q
        /\ \A r, s \in S : r.question_id = s.question_id => r = s
    BY <2>2, <2>3, AnswersOnce DEF Records
  <2>5. \A q \in DOMAIN QuestionSet : recorded(q) \in S /\ recorded(q).question_id = q
    BY <2>3, <2>4
  <2>6. \A r \in S : recorded(r.question_id) = r
    BY <2>4, <2>5
  <2> HIDE DEF S, frozen, recorded
  <2>7. ASSUME NEW g \in Groups
        PROVE  /\ diagnostic[g].all.questions = Cardinality(placed(g))
               /\ diagnostic[g].all.exact = Cardinality({q \in placed(g) : right(q)})
               /\ diagnostic[g].restricted.questions = Cardinality({q \in placed(g) : shown(q)})
    <3> DEFINE R == InGroup(S, g)
               E == {r \in R : r.relationship = Declared[r.family_id]}
               P == {r \in R : PairPresent(r)}
               kinds == {r.family_id : r \in R}
               c == [f \in kinds |-> Cardinality({r \in R : r.family_id = f /\ r.relationship = Declared[f]})]
    <3>1. R \subseteq S /\ E \subseteq S /\ P \subseteq S
      BY DEF InGroup, Registered
    <3>2. IsFiniteSet(R) /\ IsFiniteSet(E) /\ IsFiniteSet(P)
      BY <2>4, <3>1, FS_Subset
    <3>3. /\ diagnostic[g].all.questions = Cardinality(R)
          /\ diagnostic[g].restricted.questions = Cardinality(P)
          /\ diagnostic[g].all.exact = Sum(c, kinds)
      <4>1. diagnostic[g] = [all |-> summarise_group(R), restricted |-> summarise_group(P)]
        BY <2>1 DEF by_hypothesis_group
      <4>2. /\ summarise_group(R).questions = Cardinality(R)
            /\ summarise_group(P).questions = Cardinality(P)
        BY DEF summarise_group
      <4>3. \A f : {r \in {x \in R : x.family_id = f} : r.relationship = Declared[f]}
                     = {r \in R : r.family_id = f /\ r.relationship = Declared[f]}
        OBVIOUS
      <4>4. summarise_group(R).exact = Sum(c, kinds)
        BY <4>3 DEF summarise_group, SumFunction, Sum
      <4>5. QED BY <4>1, <4>2, <4>4
    <3>4. Sum(c, kinds) = Cardinality(E)
      <4> DEFINE kind == [r \in E |-> r.family_id]
                 name == [r \in R |-> r.family_id]
      <4>1. name \in Surjection(R, kinds)
        BY DEF Surjection
      <4>2. IsFiniteSet(kinds)
        BY <3>2, <4>1, FS_Surjection
      <4>3. \A f : {r \in R : r.family_id = f /\ r.relationship = Declared[f]} = {r \in E : kind[r] = f}
        OBVIOUS
      <4>4. \A r \in E : kind[r] \in kinds
        OBVIOUS
      <4>5. ASSUME NEW f \in kinds, NEW W \in SUBSET E, \A r \in E : r \in W <=> kind[r] = f
            PROVE  c[f] = Cardinality(W)
        <5>1. W = {r \in E : kind[r] = f}
          BY <4>5
        <5>2. QED BY <4>3, <5>1
      <4>6. IsFiniteSet(E)
        BY <3>2
      <4> HIDE DEF c, kind, kinds, E
      <4>7. QED BY <4>2, <4>4, <4>5, <4>6, SumOfKinds
    <3>5. \A r \in S : r \in R <=> r.question_id \in placed(g)
      BY <2>4 DEF InGroup, Registered
    <3>6. \A r \in S : r \in E <=> r.question_id \in {q \in placed(g) : right(q)}
      BY <2>4, <2>6, <3>1, <3>5
    <3>7. \A r \in S : r \in P <=> r.question_id \in {q \in placed(g) : shown(q)}
      <4>1. ASSUME NEW r \in S
            PROVE  PairPresent(r) <=> shown(r.question_id)
        <5> DEFINE A == anchor_chunks(r.family_id, r.question_id)
                   both == A \cap r.retrieved
                   docs == {x.doc : x \in both}
                   doc == [x \in both |-> x.doc]
        <5>1. recorded(r.question_id) = r /\ r.family_id = fam(r.question_id) /\ IsFiniteSet(r.retrieved)
          BY <2>3, <2>4, <2>6
        <5>2. IsFiniteSet(both)
          BY <5>1, FS_Subset
        <5>3. doc \in Surjection(both, docs)
          BY DEF Surjection
        <5>4. IsFiniteSet(docs)
          BY <5>2, <5>3, FS_Surjection
        <5>5. PairPresent(r) <=> \E x, y \in docs : x # y
          <6>1. PairPresent(r) <=> Cardinality(docs) >= 2
            BY DEF PairPresent, pair_is_present
          <6> HIDE DEF docs
          <6>2. QED BY <5>4, <6>1, AtLeastTwo
        <5>6. (\E x, y \in docs : x # y) <=> \E x, y \in both : x.doc # y.doc
          OBVIOUS
        <5>7. shown(r.question_id) <=> \E x, y \in r.retrieved : x.doc # y.doc /\ {x, y} \subseteq A
          BY <5>1
        <5> HIDE DEF A
        <5>8. (\E x, y \in both : x.doc # y.doc)
                <=> \E x, y \in r.retrieved : x.doc # y.doc /\ {x, y} \subseteq A
          OBVIOUS
        <5>9. QED BY <5>5, <5>6, <5>7, <5>8
      <4> HIDE DEF shown, placed
      <4>2. QED BY <3>1, <3>5, <4>1
    <3>8. ASSUME NEW T \in SUBSET S, NEW Q \in SUBSET DOMAIN QuestionSet,
                 \A r \in S : r \in T <=> r.question_id \in Q
          PROVE  Cardinality(T) = Cardinality(Q)
      <4>1. Q = {r.question_id : r \in T}
        BY <2>4, <3>8
      <4>2. IsFiniteSet(T)
        BY <2>4, FS_Subset
      <4>3. QED BY <2>4, <4>1, <4>2, RecordsCountQuestions
    <3>9. Cardinality(R) = Cardinality(placed(g))
      BY <3>1, <3>5, <3>8
    <3>10. Cardinality(E) = Cardinality({q \in placed(g) : right(q)})
      <4> DEFINE Q == {q \in placed(g) : right(q)}
      <4>1. Q \in SUBSET DOMAIN QuestionSet
        OBVIOUS
      <4> HIDE DEF Q, E
      <4>2. QED BY <3>1, <3>6, <3>8, <4>1 DEF Q
    <3>11. Cardinality(P) = Cardinality({q \in placed(g) : shown(q)})
      <4> DEFINE Q == {q \in placed(g) : shown(q)}
      <4>1. Q \in SUBSET DOMAIN QuestionSet
        OBVIOUS
      <4> HIDE DEF Q, P
      <4>2. QED BY <3>1, <3>7, <3>8, <4>1 DEF Q
    <3> HIDE DEF R, E, P, c, kinds
    <3>12. QED BY <3>3, <3>4, <3>9, <3>10, <3>11
  <2>8. QED BY <2>7 DEF DiagnosticIsWhole, recorded, frozen
<1>2. QED BY <1>1, ComputedInvariant, PTL
=============================================================================
