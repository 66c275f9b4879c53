------------------------------ MODULE Analysis ------------------------------
(***************************************************************************)
(* scripts/analyse_results.py over evaluation/analysis.py: the four frozen *)
(* runs are found by name and authenticated one after the other, the       *)
(* blinded judgements are joined to their arms and to the automatic        *)
(* records, the verdicts are taken, and the verifier's own classification  *)
(* is counted over the frozen arm D run.  Each stage may refuse.  A log    *)
(* maps an item to what was judged of it.                                  *)
(***************************************************************************)
EXTENDS Authenticity, Contrasts, Anchors, Sequences, SequencesExt

CONSTANTS
    Arms,           \* the experimental arms
    RunNames,       \* FROZEN_QUALITY_RUNS, the directories in the order read
    DiagnosticRun,  \* of them, the frozen run of arm D
    QuestionSet,    \* question -> [family_id, expected_behaviour]: the test split
    Declared,       \* registered family -> the relationship it was declared to be
    DiagnosticGroup,\* declared relationship -> the group it is reported in
    VALID_RELATIONSHIPS, CONFLICTING_RELATIONSHIPS  \* VALID_ and CONFLICTING_RELATIONSHIPS

ASSUME AnalysisConstants ==
    /\ RunNames \in Seq(ToSet(RunNames)) /\ DiagnosticRun \in ToSet(RunNames)
    /\ IsFiniteSet(Arms) /\ IsFiniteSet(DOMAIN QuestionSet)

VARIABLES
    dirs, table,    \* the run directories, and the content recorded for them
    sheet,          \* item -> [system, question_id]
    key,            \* arm -> its opaque code
    first, second,  \* the judgements of the two passes
    agreement,      \* the committed report on them: how many of how many agree
    pc, pos,
    joined, verdicts, diagnostic

inputs == <<dirs, table, sheet, key, first, second, agreement>>
vars == <<inputs, pc, pos, joined, verdicts, diagnostic>>

Nothing == "nothing"

\* The files are of the stages that write them: the recorded runs are of the
\* arms, and retrieved finitely many chunks; the sheet has one item for each
\* question under each of as many codes as there are arms; a key gives arms, if
\* not all of them, codes of their own.
Filed ==
    LET codes == {sheet[i].system : i \in DOMAIN sheet} IN
    /\ \A n \in DOMAIN table :
          /\ table[n].manifest.arm \in Arms
          /\ table[n].answers \in Seq(ToSet(table[n].answers))
          /\ \A r \in ToSet(table[n].answers) : IsFiniteSet(r.retrieved)
    /\ IsFiniteSet(DOMAIN sheet) /\ DOMAIN sheet \subseteq Nat \ {0}
    /\ \A i, j \in DOMAIN sheet : sheet[i] = sheet[j] => i = j
    /\ codes \X DOMAIN QuestionSet
          \subseteq {<<sheet[i].system, sheet[i].question_id>> : i \in DOMAIN sheet}
    /\ \A i \in DOMAIN sheet :
          sheet[i] = [system |-> sheet[i].system, question_id |-> sheet[i].question_id]
    /\ Cardinality(codes) = Cardinality(Arms)
    /\ DOMAIN key \subseteq Arms /\ key \in [DOMAIN key -> codes]
    /\ \A a, b \in DOMAIN key : key[a] = key[b] => a = b
    /\ \A i \in DOMAIN first : first[i].score \in Int

Init ==
    /\ Filed
    /\ pc = "find" /\ pos = 0
    /\ joined = {} /\ verdicts = Nothing /\ diagnostic = Nothing

Refuse ==
    /\ pc' = "refused"
    /\ UNCHANGED <<inputs, pos, joined, verdicts, diagnostic>>

---------------------------------------------------------------------------
\* quality_run_directories: all of the list, on the test split, not timing.
RunsFound ==
    \A i \in DOMAIN RunNames :
        LET m == dirs[RunNames[i]].manifest IN
        /\ m \notin {Absent, Torn, Garbled}
        /\ m.split = "test" /\ m.purpose # "performance"

FindRuns ==
    /\ pc = "find"
    /\ IF RunsFound
       THEN pc' = "authenticate" /\ UNCHANGED <<inputs, pos, joined, verdicts, diagnostic>>
       ELSE Refuse

\* check_question_identity, of the identifiers alone.
AnswersTheIds(records) ==
    /\ Len(records) = Cardinality(DOMAIN QuestionSet)
    /\ {records[i].question_id : i \in DOMAIN records} = DOMAIN QuestionSet

\* check_question_identity: every question of the split once, as itself.
AnswersTheSplit(records) ==
    /\ AnswersTheIds(records)
    /\ \A i \in DOMAIN records :
          records[i].family_id = QuestionSet[records[i].question_id].family_id

AuthenticateRun ==
    /\ pc = "authenticate" /\ pos < Len(RunNames)
    /\ LET dir == dirs[RunNames[pos + 1]] IN
       IF Admitted(RunNames[pos + 1], dir, table) /\ AnswersTheSplit(dir.answers)
       THEN pos' = pos + 1 /\ UNCHANGED <<inputs, pc, joined, verdicts, diagnostic>>
       ELSE Refuse

---------------------------------------------------------------------------
\* The arms of a code, and the runs that say they are of an arm.
ArmsOf(code) == {a \in DOMAIN key : key[a] = code}

RunsOf(arm) == {n \in ToSet(RunNames) : dirs[n].manifest.arm = arm}

Records(name) == ToSet(dirs[name].answers)

\* The automatic record of an answer, where a run supplies its arm.
Record(arm, q) ==
    IF RunsOf(arm) = {} THEN Absent
    ELSE CHOOSE r \in Records(CHOOSE n \in RunsOf(arm) : TRUE) : r.question_id = q

AbstainedFirstPass(item) == first[item].abstained

\* The re-pass decides what an item is reported as, where it has the item.
Abstained(item) ==
    IF item \in DOMAIN second THEN second[item].abstained ELSE first[item].abstained

\* An incomplete pass, two runs of one arm, a code of no arm, a question that
\* is not of the set.
JoinRefused ==
    \/ ~ (DOMAIN sheet \subseteq DOMAIN first)
    \/ \E n \in ToSet(RunNames) : Cardinality(RunsOf(dirs[n].manifest.arm)) > 1
    \/ \E item \in DOMAIN sheet :
          \/ ArmsOf(sheet[item].system) = {}
          \/ sheet[item].question_id \notin DOMAIN QuestionSet

Joined(item) ==
    LET arm == CHOOSE a \in ArmsOf(sheet[item].system) : TRUE
        q == sheet[item].question_id
    IN [item |-> item, arm |-> arm, question_id |-> q,
        group_id |-> QuestionSet[q].family_id,
        expected_behaviour |-> QuestionSet[q].expected_behaviour,
        score |-> first[item].score,
        asserts_conflict |-> first[item].asserts_conflict,
        abstained |-> Abstained(item),
        record |-> Record(arm, q)]

Join ==
    /\ pc = "authenticate" /\ pos = Len(RunNames)
    /\ IF JoinRefused THEN Refuse
       ELSE /\ joined' = {Joined(item) : item \in DOMAIN sheet}
            /\ pc' = "decide"
            /\ UNCHANGED <<inputs, pos, verdicts, diagnostic>>

\* The passes are compared over the items both have, and must agree as often
\* as the committed report says.
Shared == DOMAIN first \cap DOMAIN second

Agreeing == {i \in Shared : first[i].abstained = second[i].abstained}

AgreementRefused ==
    \/ Shared = {}
    \/ Cardinality(Agreeing) * agreement.of # agreement.agree * Cardinality(Shared)

Verdicts(judged) ==
    [H1 |-> H1(judged), H2 |-> H2(judged), H2c |-> H2c(judged),
     H3 |-> H3({Records(n) : n \in ToSet(RunNames)}), H4 |-> H4(judged)]

Decide ==
    /\ pc = "decide"
    /\ IF \/ Undecidable(joined) \/ AgreementRefused
          \/ \E n \in ToSet(RunNames) : Unmeasured(Records(n))
       THEN Refuse
       ELSE /\ verdicts' = Verdicts(joined)
            /\ pc' = "diagnose"
            /\ UNCHANGED <<inputs, pos, joined, diagnostic>>

---------------------------------------------------------------------------
\* load_diagnostic_source, after the content has been authenticated again.
SourceRefused(dir) ==
    \/ ~ Admitted(DiagnosticRun, dir, table)
    \/ dir.manifest.run_id # DiagnosticRun
    \/ dir.manifest.split # "test" \/ dir.manifest.purpose # Absent
    \/ dir.manifest.arm # "D"
    \/ \E r \in ToSet(dir.answers) : r.arm # "D"
    \/ ~ AnswersTheSplit(dir.answers)

Registered(records) == {r \in records : r.family_id \in DOMAIN Declared}

\* verifier_relationship_diagnostic refuses a record without a relationship
\* of the schema, and a family that is missing or has an uneven share.
ShapeRefused(records) ==
    LET own(f) == {r \in records : r.family_id = f} IN
    \/ \E r \in Registered(records) : r.relationship \notin VALID_RELATIONSHIPS
    \/ \E f, g \in DOMAIN Declared :
          own(f) = {} \/ Cardinality(own(f)) # Cardinality(own(g))

PairPresent(r) ==
    pair_is_present(anchor_chunks(r.family_id, r.question_id), r.retrieved)

\* A family is exact on a majority with two of its questions, or all of them.
summarise_group(records) ==
    LET of(f) == {r \in records : r.family_id = f}
        exact(f) == {r \in of(f) : r.relationship = Declared[f]}
        families == {r.family_id : r \in records}
        needed(f) == IF Cardinality(of(f)) < MAJORITY THEN Cardinality(of(f)) ELSE MAJORITY
    IN [questions |-> Cardinality(records),
        detected |-> Cardinality({r \in records : r.relationship \in CONFLICTING_RELATIONSHIPS}),
        exact |-> SumFunction([f \in families |-> Cardinality(exact(f))]),
        majority |-> Cardinality({f \in families : Cardinality(exact(f)) >= needed(f)})]

InGroup(records, group) ==
    {r \in Registered(records) : DiagnosticGroup[Declared[r.family_id]] = group}

Groups == {DiagnosticGroup[d] : d \in DOMAIN DiagnosticGroup}

by_hypothesis_group(records) ==
    [g \in Groups |->
        [all |-> summarise_group(InGroup(records, g)),
         restricted |-> summarise_group({r \in InGroup(records, g) : PairPresent(r)})]]

Diagnose ==
    /\ pc = "diagnose"
    /\ IF SourceRefused(dirs[DiagnosticRun]) \/ ShapeRefused(Records(DiagnosticRun))
       THEN Refuse
       ELSE /\ diagnostic' = by_hypothesis_group(Records(DiagnosticRun))
            /\ pc' = "reported"
            /\ UNCHANGED <<inputs, pos, joined, verdicts>>

Next == FindRuns \/ AuthenticateRun \/ Join \/ Decide \/ Diagnose

Spec == Init /\ [][Next]_vars

---------------------------------------------------------------------------
\* Every answer of every arm has exactly one row, whatever order the sheet
\* shuffled it to, and each value in the row is of that answer: the record of
\* the run it was taken from, the first pass's score, and the re-pass's
\* abstention where there is one.  No file names another, so only the joins
\* keep them together.
RowsAreOfTheirAnswers ==
    joined # {} =>
        \A n \in ToSet(RunNames), q \in DOMAIN QuestionSet :
            LET own == {r \in joined : r.arm = dirs[n].manifest.arm /\ r.question_id = q} IN
            /\ Cardinality(own) = 1
            /\ \A r \in own :
                 /\ r.record.question_id = q /\ r.record \in Records(n)
                 /\ sheet[r.item].question_id = q
                 /\ sheet[r.item].system = key[r.arm]
                 /\ r.score = first[r.item].score
                 /\ r.item \in DOMAIN second => r.abstained = second[r.item].abstained

\* The family is the unit of every verdict on the judged answers: asking every
\* question of one family again, with the same judgements, changes none.
Repeated(f) ==
    joined \cup {[r EXCEPT !.item = -r.item] : r \in {x \in joined : x.group_id = f}}

FamilyIsTheUnit ==
    pc = "diagnose" =>
        \A f \in FamiliesIn(joined) : Verdicts(Repeated(f)) = verdicts

\* The rules agree on one pair of arms: what is supported lies outside the
\* margin in the treatment's favour, is never supported the other way round,
\* and the margin's reading is mirrored when the arms are swapped; no family
\* left out moves the mean except towards the others.
Mirror(higher) ==
    CASE higher = "treatment" -> "baseline" [] higher = "baseline" -> "treatment"
      [] OTHER -> "none"

RulesAgree ==
    pc = "diagnose" =>
        \A own \in {select(joined, SUPERSESSION), select(joined, LIVE_DISAGREEMENT)} :
        \A a, b \in {r.arm : r \in joined} :
            LET c == contrast(own, a, b)
                margin == decide_within_margin(c)
                swapped == decide_within_margin(contrast(own, b, a))
                folds == leave_one_family_out(own, a, b)
            IN /\ decide(c, 1) = "supported" =>
                    /\ ~ margin.within /\ margin.higher = "treatment"
                    /\ decide(contrast(own, b, a), 1) # "supported"
               /\ swapped = [margin EXCEPT !.higher = Mirror(margin.higher)]
               /\ SumFunction([f \in DOMAIN folds |-> folds[f].sum])
                    = (c.families - 1) * c.sum

\* What is reported of the verifier is of all of the frozen questions: each
\* group counts the questions the question set places in it, under the
\* relationship recorded for each, whatever a record says of its own family.
DiagnosticIsWhole ==
    pc = "reported" =>
        LET frozen == ToSet(table[DiagnosticRun].answers)
            placed(g) == {q \in DOMAIN QuestionSet :
                LET f == QuestionSet[q].family_id IN
                f \in DOMAIN Declared /\ DiagnosticGroup[Declared[f]] = g}
            recorded(q) == CHOOSE r \in frozen : r.question_id = q
            right(q) == recorded(q).relationship = Declared[QuestionSet[q].family_id]
            shown(q) == \E c, d \in recorded(q).retrieved :
                c.doc # d.doc /\ {c, d} \subseteq anchor_chunks(QuestionSet[q].family_id, q)
        IN \A g \in Groups :
             /\ diagnostic[g].all.questions = Cardinality(placed(g))
             /\ diagnostic[g].all.exact = Cardinality({q \in placed(g) : right(q)})
             /\ diagnostic[g].restricted.questions = Cardinality({q \in placed(g) : shown(q)})
=============================================================================
