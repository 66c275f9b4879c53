---------------------------- MODULE MCAnalysis ----------------------------
(* Three arms over twelve questions in six families; one thing at a time  *)
(* is varied: the scores of one hypothesis, the flags, the abstentions, or *)
(* one of the files the analysis reads.                                    *)
EXTENDS Analysis

ArmSet == {"A", "B", "D"}
MCRunNames == <<"A", "B", "D">>

Question(f, b) == [family_id |-> f, expected_behaviour |-> b]

MCQuestionSet ==
    [q1 |-> Question("s1", "cite_current_only"),
     q2 |-> Question("s1", "cite_current_only"),
     q3 |-> Question("s2", "cite_current_only"),
     q4 |-> Question("s2", "cite_current_only"),
     q5 |-> Question("l1", "surface_both_and_escalate"),
     q6 |-> Question("l1", "surface_both_and_escalate"),
     q7 |-> Question("l2", "prefer_stricter_and_escalate"),
     q8 |-> Question("l2", "prefer_stricter_and_escalate"),
     q9 |-> Question("c1", "answer_without_flagging_conflict"),
     q10 |-> Question("c1", "answer_without_flagging_conflict"),
     q11 |-> Question("g1", "abstain"),
     q12 |-> Question("g1", "abstain")]

Ids == DOMAIN MCQuestionSet

MCDeclared == [s1 |-> "supersession", s2 |-> "supersession",
               l1 |-> "exclusive", l2 |-> "stricter", c1 |-> "compatible"]
MCGroup == [supersession |-> "H1", exclusive |-> "H2", stricter |-> "H2", compatible |-> "controls"]

Side(d) == [doc |-> d, ordinal |-> 1]
MCFacts == [f \in DOMAIN MCDeclared |-> {{Side("x"), Side("y")}}]
MCFocal == [q \in Ids |-> IF q \in {"q1", "q5"} THEN {Side("x")} ELSE {}]

Number(q) == CHOOSE i \in 1 .. 12 :
    q = <<"q1", "q2", "q3", "q4", "q5", "q6", "q7", "q8", "q9", "q10", "q11", "q12">>[i]
Base(a) == CASE a = "A" -> 0 [] a = "B" -> 12 [] OTHER -> 24
Item(a, q) == Base(a) + Number(q)
Items == 1 .. 36
ArmOf(i) == CASE i <= 12 -> "A" [] i <= 24 -> "B" [] OTHER -> "D"
IdOf(i) == CHOOSE q \in Ids : Item(ArmOf(i), q) = i

---------------------------------------------------------------------------
Answer(a, q) ==
    LET f == MCQuestionSet[q].family_id IN
    [question_id |-> q, family_id |-> f, arm |-> a,
     served_abstention |-> q \in {"q11", "q12"},
     valid |-> 1, citation_support |-> IF q = "q1" THEN 0 ELSE 1,
     relationship |-> IF q = "q1" THEN "none" ELSE
                      IF f \in DOMAIN MCDeclared THEN MCDeclared[f] ELSE "none",
     retrieved |-> IF q = "q5" THEN {Side("x"), [doc |-> "x", ordinal |-> 2]}
                   ELSE {Side("x"), Side("y")}]

Good(a) ==
    [answers |-> [i \in 1 .. 12 |-> Answer(a, IdOf(i))],
     manifest |-> [split |-> "test", purpose |-> Absent, run_id |-> a, arm |-> a],
     summary |-> "summary"]

\* What a run directory may also hold: rerun, renamed, torn, of other
\* questions, or with two questions filed under each other's families.
Odd(a) ==
    LET g == Good(a) IN
    {[g EXCEPT !.manifest.split = "dev"],
     [g EXCEPT !.manifest.purpose = "performance"],
     [g EXCEPT !.manifest.run_id = "renamed"],
     [g EXCEPT !.manifest.arm = "A"],
     [g EXCEPT !.answers[1].arm = "B"],
     [g EXCEPT !.answers[1].relationship = Absent],
     [g EXCEPT !.answers[1].family_id = "s2"],
     [g EXCEPT !.answers[1].family_id = "s2", !.answers[3].family_id = "s1"],
     [g EXCEPT !.answers[1].family_id = "l1", !.answers[5].family_id = "s1"],
     [g EXCEPT !.answers[2].question_id = "q1"],
     [g EXCEPT !.answers = SubSeq(g.answers, 1, 11)],
     [g EXCEPT !.answers[2].citation_support = Undefined, !.answers[1].citation_support = Undefined],
     [g EXCEPT !.answers = [i \in 1 .. 12 |-> [g.answers[i] EXCEPT !.citation_support = Undefined]]]}

Damaged(a) ==
    {[Good(a) EXCEPT !.answers = x] : x \in {Absent, Torn}}
      \cup {[Good(a) EXCEPT !.manifest = x] : x \in {Absent, Torn, Garbled}}
      \cup {[Good(a) EXCEPT !.summary = "other"]}

Runs == [a \in ArmSet |-> Good(a)]

Code == [A |-> "X", B |-> "Y", D |-> "Z"]
OtherCode == [A |-> "Y", B |-> "X", D |-> "Z"]

Sheet == [i \in Items |-> [system |-> Code[ArmOf(i)], question_id |-> IdOf(i)]]
\* The sheet of another session, shuffled another way.
Swap(i) == IF i = 1 THEN 12 ELSE IF i = 12 THEN 13 ELSE IF i = 13 THEN 1 ELSE i
OtherSheet == [i \in Items |-> Sheet[Swap(i)]]

Judged(Score(_), Flag(_), Held(_)) ==
    [i \in Items |-> [score |-> Score(i), asserts_conflict |-> Flag(i), abstained |-> Held(i)]]

Two(i) == 2
No(i) == FALSE

Given(d, t, s, k, f, g) ==
    /\ dirs = d /\ table = t /\ sheet = s /\ key = k /\ first = f /\ second = g
    /\ agreement = [agree |-> Cardinality({i \in DOMAIN f \cap DOMAIN g : f[i].abstained = g[i].abstained}),
                    of |-> Cardinality(DOMAIN f \cap DOMAIN g)]

Plain == Judged(Two, No, No)

\* The answers of two arms to the questions of one hypothesis, scored at will.
VaryScores(arms, qs) ==
    \E v \in [arms \X qs -> {0, 2}] :
        LET Score(i) == IF <<ArmOf(i), IdOf(i)>> \in DOMAIN v THEN v[<<ArmOf(i), IdOf(i)>>] ELSE 1
            log == Judged(Score, No, No)
        IN Given(Runs, Runs, Sheet, Code, log, log)

VaryFlags ==
    \E set \in SUBSET {Item(a, q) : a \in {"B", "D"}, q \in {"q9", "q10"}} :
        LET Flag(i) == i \in set  log == Judged(Two, Flag, No)
        IN Given(Runs, Runs, Sheet, Code, log, log)

VaryAbstention ==
    \E set, before \in SUBSET {Item(a, q) : a \in {"B", "D"}, q \in {"q11", "q12"}} :
        LET Held(i) == i \in set  Earlier(i) == i \in before
            log == Judged(Two, No, Earlier)
        IN \E again \in {Judged(Two, No, Held),
                         [i \in Items \ {1, 24} |-> Judged(Two, No, Held)[i]],
                         [i \in {} |-> 0]} :
             Given(Runs, Runs, Sheet, Code, log, again)

VaryFiles ==
    \E s \in {Sheet, OtherSheet}, k \in {Code, OtherCode, [A |-> "X", B |-> "Y"]},
       gone \in {{}, {1}}, e \in {{}, {36}} :
        /\ dirs = Runs /\ table = Runs
        /\ sheet = s /\ key = k
        /\ first = [i \in Items \ gone |-> Plain[i]]
        /\ second = [i \in Items \ e |-> Plain[i]]
        /\ agreement \in {[agree |-> 36, of |-> 36], [agree |-> 30, of |-> 36]}

VaryRuns ==
    \E a \in ArmSet : \E x \in Odd(a) \cup Damaged(a) : \E recorded \in BOOLEAN :
        /\ recorded => x \in Odd(a)
        /\ Given([Runs EXCEPT ![a] = x],
                 IF recorded THEN [Runs EXCEPT ![a] = x] ELSE Runs, Sheet, Code, Plain, Plain)

MCInit ==
    /\ \/ VaryScores({"A", "B"}, {"q1", "q2", "q3", "q4"})
       \/ VaryScores({"B", "D"}, {"q5", "q6", "q7"})
       \/ VaryFlags \/ VaryAbstention \/ VaryFiles \/ VaryRuns
    /\ Init

MCSpec == MCInit /\ [][Next]_vars
=============================================================================
