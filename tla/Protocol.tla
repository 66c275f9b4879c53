------------------------------ MODULE Protocol ------------------------------
(***************************************************************************)
(* scripts/verifier_protocol.py: the diagnostic over the development       *)
(* families.  Two models audit the same drafts, with the retrieved         *)
(* evidence and with the disputed pair alone, in complete blocks; the      *)
(* decision rule is computed from the rows.  The development gate, which   *)
(* summarise_arms.py prints of a pilot, is taken before or not at all.     *)
(*                                                                         *)
(* A reply is the relationship the model infers, or "unparsed".  Nothing   *)
(* is written before the last call has returned, so a block is one step    *)
(* and a call that fails ends the script with nothing written.             *)
(***************************************************************************)
EXTENDS StoppingGate, Anchors, Sequences

CONSTANTS
    Pending,
    Questions,          \* question -> its family: the development questions
    FAMILIES, PARAPHRASES, CONTROLS,    \* what the design says
    MODELS, Llama, Qwen,
    REPEATS,
    DilutionGap,        \* 3 families
    Conflicting,        \* CONFLICTING_RELATIONSHIPS
    Full,               \* question -> chunks the retriever gives it
    Ranked,             \* question -> chunks whose similarity is not negative
    Runs,               \* what the development runs of arm D may hold
    Baseline            \* the records of the pilot's arm B

ASSUME ProtocolConstants ==
    /\ \A records \in Runs : IsRun(records)
    /\ IsMeasured(Baseline)
    /\ IsFiniteSet(DOMAIN Questions)
    /\ REPEATS \in Nat \ {0} /\ DilutionGap \in Nat /\ IsFiniteSet(MODELS)
    /\ {Llama, Qwen} \subseteq MODELS

CONDITIONS == {"full", "oracle_pair"}

VARIABLES
    tree,       \* git status of RUNTIME_PATHS: clean, dirty, or failed
    pilots,     \* the records of the arm D development runs, by name
    replies,    \* what each call will answer
    stage, gate, sweep, rows, block,
    written,    \* the rows in results/diagnostics
    report      \* [rule, measures, entries]

protocol_vars == <<tree, pilots, replies, stage, gate, sweep, rows, block, written, report>>

ProtocolInit ==
    /\ pilots \in Seq(Runs)
    /\ stage = "start" /\ gate = Pending
    /\ sweep = {} /\ rows = {} /\ block = 0
    /\ written = Pending /\ report = Pending

---------------------------------------------------------------------------
Latest == pilots[Len(pilots)]

\* summarise_arms: the gate of the development run, against its arm B.
Gate ==
    /\ stage = "start" /\ gate = Pending /\ pilots # <<>>
    /\ gate' = evaluate_gate(Latest, Baseline)
    /\ UNCHANGED <<tree, pilots, replies, stage, sweep, rows, block, written, report>>

Goto(s) ==
    /\ stage' = s
    /\ UNCHANGED <<tree, pilots, replies, gate, sweep, rows, block, written, report>>

OfAFamily(f) == {q \in DOMAIN Questions : Questions[q] = f}
Asked == {Questions[q] : q \in DOMAIN Questions}

DesignHolds ==
    /\ Cardinality(Asked) = FAMILIES
    /\ \A f \in Asked : Cardinality(OfAFamily(f)) = PARAPHRASES
    /\ Cardinality({f \in Asked : ~ Families[f].is_conflict}) = CONTROLS

validate_design ==
    /\ stage = "start"
    /\ Goto(IF DesignHolds THEN "declared" ELSE "refused")

\* --dry-run prints the design and stops.
DryRun == stage = "declared" /\ Goto("printed")

\* A git that fails is a refusal, and not an empty status.
require_committed_protocol ==
    /\ stage = "declared"
    /\ Goto(IF tree = "clean" THEN "frozen" ELSE "refused")

\* The latest by name, whatever it holds, must have served nothing invalid.
require_clean_pilot ==
    /\ stage = "frozen"
    /\ Goto(IF pilots # <<>> /\ invalid_revisions_served(Latest) = {}
            THEN "admitted" ELSE "refused")

---------------------------------------------------------------------------
oracle_retrieval(q) == Ranked[q] \cap anchor_chunks(Questions[q], q)

Retrieval(q, condition) ==
    IF condition = "full" THEN Full[q] ELSE oracle_retrieval(q)

\* One draft per question and condition: the first and only generation of it.
Item(q, condition) ==
    [question_id |-> q, condition |-> condition,
     present |-> Retrieval(q, condition),
     pair_present |-> pair_is_present(anchor_chunks(Questions[q], q), Retrieval(q, condition)),
     draft |-> <<q, condition, 1>>]

BuildSweep ==
    /\ stage = "admitted"
    /\ sweep' = {Item(q, c) : q \in DOMAIN Questions, c \in CONDITIONS}
    /\ stage' = "running"
    /\ UNCHANGED <<tree, pilots, replies, gate, rows, block, written, report>>

detected(reply) == reply \in Conflicting

Reading(item, repeat, model, draft) ==
    LET reply == replies[repeat, model, item.condition, item.question_id]
        f == Questions[item.question_id]
    IN [repeat |-> repeat, model |-> model, condition |-> item.condition,
        question_id |-> item.question_id, family_id |-> f,
        is_conflict |-> Families[f].is_conflict,
        present |-> item.present, pair_present |-> item.pair_present,
        draft |-> draft,
        detected |-> detected(reply), classified |-> reply = Families[f].expected,
        inferred_relationship |-> reply, parse_failed |-> reply = "unparsed"]

\* A plausible bug: the draft is written anew in every block.
RowDraftedAgain(item, repeat, model) ==
    Reading(item, repeat, model, [item.draft EXCEPT ![3] = repeat])

Row(item, repeat, model) == Reading(item, repeat, model, item.draft)

\* A complete pass over the sweep.
Block ==
    /\ stage = "running" /\ block < REPEATS
    /\ block' = block + 1
    /\ rows' = rows \cup {Row(i, block + 1, m) : i \in sweep, m \in MODELS}
    /\ UNCHANGED <<tree, pilots, replies, stage, gate, sweep, written, report>>

\* A call that fails in the generator or in a block is not caught.
Die == stage \in {"admitted", "running"} /\ Goto("dead")

Write ==
    /\ stage = "running" /\ block = REPEATS
    /\ written' = rows /\ stage' = "written"
    /\ UNCHANGED <<tree, pilots, replies, gate, sweep, rows, block, report>>

---------------------------------------------------------------------------
Cell(m, c, q) == {r \in written : r.model = m /\ r.condition = c /\ r.question_id = q}

\* Per prompt, and never from totals.
Agreed(Value(_)) ==
    {p \in MODELS \X CONDITIONS \X DOMAIN Questions :
        Cardinality({Value(r) : r \in Cell(p[1], p[2], p[3])}) = 1}

\* The prompts whose blocks agree, of each outcome.
stability ==
    [detected |-> Agreed(LAMBDA r : r.detected),
     classified |-> Agreed(LAMBDA r : r.classified),
     parse_failed |-> Agreed(LAMBDA r : r.parse_failed),
     inferred_relationship |-> Agreed(LAMBDA r : r.inferred_relationship)]

\* The families whose disputed pair no paraphrase was shown are left out.
Shown(own) == {f \in Asked : \E r \in own : r.family_id = f /\ r.pair_present}

Most(own, f, Value(_)) ==
    2 * Cardinality({r \in own : r.family_id = f /\ Value(r)})
        > Cardinality({r \in own : r.family_id = f})

block_result(b, m, c) ==
    LET own == {r \in written : r.repeat = b /\ r.model = m /\ r.condition = c}
        conflicts == {f \in Shown(own) : Families[f].is_conflict}
        compatible == Shown(own) \ conflicts
        Detects(f) == Most(own, f, LAMBDA r : r.detected)
        Classifies(f) == Most(own, f, LAMBDA r : r.classified)
    IN [block |-> b, model |-> m, condition |-> c,
        genuine |-> Cardinality(conflicts),
        genuine_detected |-> Cardinality({f \in conflicts : Detects(f)}),
        genuine_classified |-> Cardinality({f \in conflicts : Classifies(f)}),
        controls |-> Cardinality(compatible),
        controls_false |-> Cardinality({f \in compatible : Detects(f)})]

Entries == {block_result(b, m, c) : b \in 1 .. REPEATS, m \in MODELS, c \in CONDITIONS}

Of(entries, m, c) == {e \in entries : e.model = m /\ e.condition = c}

Total(entries) == SumFunction([e \in entries |-> e.genuine_detected])

genuine_n(entries) == Max({e.genuine : e \in entries})

\* A plausible bug: half of the families is taken for most of them.
AtLeastHalf(entries, m, c) ==
    2 * Total(Of(entries, m, c)) >= genuine_n(entries) * REPEATS

\* The mean over the blocks is more than half of the families.
Mostly(entries, m, c) ==
    2 * Total(Of(entries, m, c)) > genuine_n(entries) * REPEATS

\* R1 to R5; the means of R2 are over as many entries. R0 goes into a list of
\* lines that nothing reads: no rule looks at it.
apply_rules(entries) ==
    LET In(c) == {e \in entries : e.condition = c}
        Misnamed(e) == 2 * e.genuine_classified < genuine_n(entries)
    IN IF \A e \in entries : e.genuine_detected = 0 THEN "R1"
       ELSE IF Total(In("oracle_pair")) - Total(In("full"))
                 >= DilutionGap * REPEATS * Cardinality(MODELS) THEN "R2"
       ELSE IF \E c \in CONDITIONS : Mostly(entries, Qwen, c) /\ ~ Mostly(entries, Llama, c) THEN "R3"
       ELSE IF \E e \in entries : 2 * e.genuine_detected > genuine_n(entries) /\ Misnamed(e) THEN "R4"
       ELSE "R5"

summarise ==
    /\ stage = "written"
    /\ report' = [rule |-> apply_rules(Entries), entries |-> Entries, measures |-> stability]
    /\ stage' = "reported"
    /\ UNCHANGED <<tree, pilots, replies, gate, sweep, rows, block, written>>

ProtocolNext ==
    \/ Gate \/ validate_design \/ DryRun
    \/ require_committed_protocol \/ require_clean_pilot
    \/ BuildSweep \/ Block \/ Die \/ Write \/ summarise

ProtocolSpec == ProtocolInit /\ [][ProtocolNext]_protocol_vars

---------------------------------------------------------------------------
(* The gate.                                                               *)

Rank(d) == CASE d = "DEFECT" -> 0 [] d = "STOP" -> 1 [] d = "FAIL" -> 2 [] d = "PROCEED" -> 3

\* What a better answer to the same question would have recorded.
Improvements(r) ==
    {[r EXCEPT !.conflict_detected = Families[r.family_id].is_conflict],
     [r EXCEPT !.parse_failed = FALSE],
     [r EXCEPT !.completeness = Whole],
     [r EXCEPT !.cites = TRUE]}

\* A pilot that does better at one question is never judged worse by the
\* gate, however the families, the controls, the parse failures and the
\* completeness stand (stopping_gate.py GateResult.decision).
GateIsMonotone ==
    gate # Pending =>
        \A r \in Latest : \A better \in Improvements(r) :
            Rank(decision((Latest \ {r}) \cup {better}, Baseline)) >= Rank(gate.decision)

AtMost(x, y) == x.part * y.whole <= y.part * x.whole

\* A verifier that had refused one of its answers would not have a higher
\* grounded coverage, nor fewer errors of its own, whatever that does to the
\* share of its answers that cite validly (grounded_answer_coverage).
RefusalBuysNothing ==
    gate # Pending =>
        \A r \in claim_making(Latest) :
            LET refused == [r EXCEPT !.served_abstention = TRUE]
                other == evaluate_gate((Latest \ {r}) \cup {refused}, Baseline)
            IN /\ AtMost(other.coverage, gate.coverage)
               /\ other.verifier_errors >= gate.verifier_errors

---------------------------------------------------------------------------
(* The protocol.                                                           *)

\* What is written compares the models, the conditions and the blocks on the
\* same inputs: every call exactly once, one draft for a question and
\* condition whoever audits it and when, the anchors alone in the oracle
\* condition, over a committed tree, the committed design and a latest pilot
\* that served nothing invalid (verifier_protocol.py main).
ComparedOnTheSameInput ==
    written # Pending =>
        /\ \A b \in 1 .. REPEATS, m \in MODELS, c \in CONDITIONS, q \in DOMAIN Questions :
              Cardinality({r \in Cell(m, c, q) : r.repeat = b}) = 1
        /\ \A r, s \in written :
              r.question_id = s.question_id /\ r.condition = s.condition
                => r.draft = s.draft /\ r.present = s.present
        /\ \A r \in written : r.condition = "oracle_pair" =>
              r.present \subseteq anchor_chunks(r.family_id, r.question_id)
        /\ tree = "clean" /\ DesignHolds /\ invalid_revisions_served(Latest) = {}

\* The genuine families of which a block saw the pair, and of those the ones
\* most of whose calls say so.
SawThePair(b, m, c) ==
    {f \in Asked : Families[f].is_conflict /\
        \E r \in written : r.repeat = b /\ r.model = m /\ r.condition = c
                             /\ r.family_id = f /\ r.pair_present}

Say(b, m, c, Value(_)) ==
    {f \in SawThePair(b, m, c) :
        LET calls == {r \in written : r.repeat = b /\ r.model = m /\ r.condition = c /\ r.family_id = f}
        IN Cardinality({r \in calls : Value(r)}) > Cardinality({r \in calls : ~ Value(r)})}

\* What the rules conclude is earned by the rows.  R1: in no block did a model
\* detect most calls of any genuine family whose pair it was shown.  R2, though
\* its means are over the models too: in some block one and the same model
\* detected at least the gap more families with the pair alone.  R3, decided on
\* the means over the blocks: of the genuine families of every block, as many as
\* any condition showed the pair of, Qwen detected most and Llama did not, and
\* some block has a family that Qwen detected and Llama did not in the same
\* drafts.  R4: one block of a model detected most and named fewer than half.
\* Of the controls it says nothing: no rule reads R0 (apply_rules, block_result).
RuleIsEarned ==
    report # Pending =>
        LET Detects(b, m, c) == Say(b, m, c, LAMBDA r : r.detected)
            Names(b, m, c) == Say(b, m, c, LAMBDA r : r.classified)
            Found(m, c) == {p \in (1 .. REPEATS) \X Asked : p[2] \in Detects(p[1], m, c)}
            Seen(m, c) == {p \in (1 .. REPEATS) \X Asked : p[2] \in SawThePair(p[1], m, c)}
            FindsMost(m, c) ==
                \A d \in CONDITIONS : 2 * Cardinality(Found(m, c)) > Cardinality(Seen(m, d))
        IN /\ report.rule = "R1" =>
                \A b \in 1 .. REPEATS, m \in MODELS, c \in CONDITIONS : Detects(b, m, c) = {}
           /\ report.rule = "R2" =>
                \E b \in 1 .. REPEATS, m \in MODELS :
                    Cardinality(Detects(b, m, "oracle_pair"))
                        >= Cardinality(Detects(b, m, "full")) + DilutionGap
           /\ report.rule = "R3" =>
                \E c \in CONDITIONS :
                    /\ FindsMost(Qwen, c) /\ ~ FindsMost(Llama, c)
                    /\ \E b \in 1 .. REPEATS : ~ Detects(b, Qwen, c) \subseteq Detects(b, Llama, c)
           /\ report.rule = "R4" =>
                \E b \in 1 .. REPEATS, m \in MODELS, c \in CONDITIONS :
                    /\ \A d \in CONDITIONS :
                          2 * Cardinality(Detects(b, m, c)) > Cardinality(SawThePair(b, m, d))
                    /\ \E d \in CONDITIONS :
                          2 * Cardinality(Names(b, m, c)) < Cardinality(SawThePair(b, m, d))

=============================================================================
