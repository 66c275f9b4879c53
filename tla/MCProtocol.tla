----------------------------- MODULE MCProtocol -----------------------------
(* Two genuine families and two controls of three paraphrases, two models  *)
(* and two blocks.  Either the pilot is varied, as the gate judges it, or  *)
(* what the two models answer, or what may keep the protocol from running. *)
EXTENDS Protocol

Sides == {[doc |-> d, ordinal |-> 1] : d \in {"x", "y"}}
MCFacts == [f \in {"g1", "g2", "c1", "c2"} |-> {Sides}]

MCFamilies ==
    [g1 |-> [is_conflict |-> TRUE, expected |-> "exclusive"],
     g2 |-> [is_conflict |-> TRUE, expected |-> "stricter"],
     c1 |-> [is_conflict |-> FALSE, expected |-> "compatible"],
     c2 |-> [is_conflict |-> FALSE, expected |-> "compatible"]]

Ids == {"g1", "g2", "c1", "c2"} \X (1 .. 3)
MCQuestions == [q \in Ids |-> q[1]]
MCFocal == [q \in Ids |-> IF q[2] = 1 THEN {} ELSE {[doc |-> "x", ordinal |-> 1]}]

\* The retriever brings one side of g1 to every paraphrase of it.
MCFull == [q \in Ids |-> IF q[1] = "g1"
                         THEN {[doc |-> "x", ordinal |-> 1], [doc |-> "z", ordinal |-> 1]}
                         ELSE Sides]
MCRanked == [q \in Ids |-> Sides \cup {[doc |-> "z", ordinal |-> 1]}]

---------------------------------------------------------------------------
(* Pilots.  low, failed, refused: how many of the questions are short of   *)
(* completeness, unparsed, refused; seen[f]: how many of f are detected.   *)

Answer(q, seen, low, failed, refused, bad) ==
    LET n == q[2] + CASE q[1] = "g1" -> 0 [] q[1] = "g2" -> 3 [] q[1] = "c1" -> 6 [] OTHER -> 9
    IN [question_id |-> q, family_id |-> q[1],
        conflict_detected |-> q[2] <= seen[q[1]],
        parse_failed |-> n > 12 - failed,
        completeness |-> IF n > low THEN Whole ELSE IF n = 1 THEN 1 ELSE 0,
        answer_revised |-> n <= 2, revision_rejected |-> n = 2,
        served_abstention |-> n \in refused,
        cites |-> ~ (bad /\ n = 1),
        has_valid_citation_ids |-> n # 4,
        category |-> "conflict",
        expected |-> Sides, retrieved |-> MCFull[q]]

Pilot(seen, low, failed, refused, bad) ==
    {Answer(q, seen, low, failed, refused, bad) : q \in Ids}

Seen(a, b, c, d) == [g1 |-> a, g2 |-> b, c1 |-> c, c2 |-> d]
Fine == Pilot(Seen(3, 2, 0, 0), 0, 0, {}, FALSE)
MCBaseline == Fine

Pilots ==
    {Pilot(Seen(a, b, c, d), low, failed, {}, FALSE) :
        a, b, c, d \in 0 .. 3, low \in {0, 2}, failed \in {0, 2}}
    \cup {Pilot(Seen(a, a, c, c), 0, 0, refused, bad) :
        a, c \in {0, 2}, refused \in SUBSET {1, 4, 5, 12}, bad \in BOOLEAN}

Invalid(refused) == Pilot(Seen(3, 2, 0, 0), 0, 0, refused, TRUE)

MCRuns == Pilots \cup {Fine} \cup {Invalid(r) : r \in {{}, {1}}}

---------------------------------------------------------------------------
(* Models.  What a model makes of a condition, and one question at which   *)
(* it differs in the second block.                                         *)

Manner == {"silent", "detects", "misnames", "flags", "half"}

Reply(manner, q) ==
    LET f == MCFamilies[q[1]] IN
    CASE manner = "silent" -> "none"
      [] manner = "fails" -> "unparsed"
      [] manner = "half" -> IF q[1] = "g2" THEN f.expected ELSE "none"
      [] manner = "flags" -> "supersession"
      [] manner = "detects" -> f.expected
      [] OTHER -> IF f.is_conflict THEN "supersession" ELSE "none"

Deviants == {{}} \cup {{<<m, c, q>>} : m \in MODELS, c \in CONDITIONS,
                                    q \in {<<"g1", 1>>}}

\* The third paraphrase always goes undetected: the others decide.
Replies(manner, deviant) ==
    [b \in 1 .. REPEATS, m \in MODELS, c \in CONDITIONS, q \in Ids |->
        IF q[2] = 3 THEN Reply("silent", q)
        ELSE IF b = 2 /\ <<m, c, q>> \in deviant THEN
            IF manner[m, c] = "silent" THEN Reply("detects", q) ELSE Reply("silent", q)
        ELSE Reply(manner[m, c], q)]

Given(t, p, r) == tree = t /\ pilots = p /\ replies = r

AllSilent == [m \in MODELS, c \in CONDITIONS |-> "silent"]

MCInit ==
    /\ \/ \E p \in Pilots : Given("dirty", <<p>>, Replies(AllSilent, {}))
       \/ \E manner \in [MODELS \X CONDITIONS -> Manner], d \in Deviants :
             Given("clean", <<Fine>>, Replies(manner, d))
       \/ \E fails \in MODELS, c \in CONDITIONS :
             Given("clean", <<Fine>>,
                   Replies([<<m, e>> \in MODELS \X CONDITIONS |->
                               IF m = fails /\ e = c THEN "fails" ELSE "detects"], {}))
       \/ \E t \in {"clean", "dirty", "failed"}, last \in BOOLEAN, r \in {{}, {1}} :
             \/ Given(t, <<>>, Replies(AllSilent, {}))
             \/ Given(t, IF last THEN <<Fine, Invalid(r)>> ELSE <<Invalid(r), Fine>>,
                      Replies(AllSilent, {}))
    /\ ProtocolInit

MCSpec == MCInit /\ [][ProtocolNext]_protocol_vars
=============================================================================
