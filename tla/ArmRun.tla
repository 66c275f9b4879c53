------------------------------- MODULE ArmRun -------------------------------
(***************************************************************************)
(* scripts/run_arms.py: an invocation runs some of the arms A, B, C, D     *)
(* over the questions of a split, arm by arm, and Arm D verifies the very  *)
(* drafts Arm B produced.  RunWriter keeps each arm in a directory it      *)
(* appends one record to per question; the invocation publishes an index   *)
(* of its directories only after its last arm.  The process may die at any *)
(* point, and a later invocation may replay the drafts a previous Arm B    *)
(* left on disk (evaluation/replay.py, --reuse-drafts-from).               *)
(*                                                                         *)
(* Quality runs only: placement checks and rejections of performance runs  *)
(* are not in this module.  The command line is chosen at Start; one that  *)
(* the code refuses before it has written anything is no step at all.      *)
(* --arms names an arm at most once.  A directory is named by the second,  *)
(* the arm and the split: no two runs of one arm and split begin in the    *)
(* same second, which a run that calls a model cannot do.                  *)
(***************************************************************************)
EXTENDS Naturals, Sequences, FiniteSets

CONSTANTS
  Splits,         \* "dev", "test"
  Questions,      \* Questions[s]: the identifiers of a split, in order
  Texts,          \* answer texts; a second sample may be another text
  ArmSets,        \* the values of --arms explored
  MaxClock,       \* bound on the seconds that pass
  MaxRuns,        \* bound on the directories written
  MaxVersion,     \* bound on how often the index and the prompt change
  NoRun

VARIABLES
  runs,      \* results directory: run name -> what the directory holds
  latest,    \* latest_<split>.json: arm -> run name, or TornIndex
  setup,     \* the versions of the index file and of the prompt on disk
  clock,     \* the second RunWriter stamps a directory with
  pc,        \* where the invocation is
  split,     \* --split
  todo,      \* arms still to run
  exploratory, \* --d-without-b
  source,    \* --reuse-drafts-from
  using,     \* the setup the process loaded
  drafts,    \* drafts["B"]: question -> draft; empty when B was not run
  dirs,      \* directories: arm -> run name
  current,   \* the run being written
  position,  \* questions answered in the current arm
  produced   \* run_arm's drafts of the current arm

disk == <<runs, latest, setup, clock>>
proc == <<pc, split, todo, exploratory, source, using, drafts, dirs, current,
          position, produced>>
vars == <<disk, proc>>

Arms == {"A", "B", "C", "D"}

\* Mutant of NextArm: the arms in reverse.
LatestArm(arms) ==
  IF "D" \in arms THEN "D" ELSE IF "C" \in arms THEN "C"
  ELSE IF "B" \in arms THEN "B" ELSE "A"

\* sorted(args.arms, key=lambda a: (a == "D", a)): D is last.
NextArm(arms) ==
  IF "A" \in arms THEN "A" ELSE IF "B" \in arms THEN "B"
  ELSE IF "C" \in arms THEN "C" ELSE "D"

QuestionIds == UNION {{Questions[s][i] : i \in DOMAIN Questions[s]} : s \in Splits}

ASSUME RunConstants ==
  /\ Splits \subseteq {"dev", "test"} /\ Splits # {}
  /\ DOMAIN Questions = Splits
  /\ \A s \in Splits : Questions[s] \in Seq(QuestionIds) /\ Questions[s] # <<>>
  /\ \A s \in Splits : \A i, j \in DOMAIN Questions[s] :
       Questions[s][i] = Questions[s][j] => i = j
  /\ \A as \in ArmSets : as # {} /\ as \subseteq Arms
  /\ MaxClock \in Nat /\ MaxVersion \in Nat /\ MaxRuns \in Nat

\* A run directory is [records, torn, summary]: a record is [question, draft,
\* answer], a draft a text with the versions it came from, and torn says that
\* the last line of answers.jsonl is a fragment.
NoSummary == [finished |-> FALSE, isolates |-> FALSE, replayedFrom |-> NoRun]

Empty == [q \in {} |-> NoRun]

\* A dictionary with one more entry, or one replaced.
Put(f, x, v) == [y \in DOMAIN f \cup {x} |-> IF y = x THEN v ELSE f[y]]

TornIndex == [a \in {"torn"} |-> NoRun]

(***************************************************************************)
(* Reading a run back                                                      *)
(***************************************************************************)

Answered(r) == {runs[r].records[i].question : i \in DOMAIN runs[r].records}

\* read_run and load_drafts parse every line or raise.
Readable(r) == ~runs[r].torn

\* The last record of a question wins.
LastRecord(r, q) ==
  LET recs == runs[r].records
      i == CHOOSE i \in DOMAIN recs :
             /\ recs[i].question = q
             /\ \A j \in DOMAIN recs : j > i => recs[j].question # q
  IN recs[i]

\* load_drafts accepts the run: it is Arm B's, it is readable, it holds an
\* answer, and the evidence rebuilt from the index is the evidence recorded.
Replayable(r) ==
  /\ r.arm = "B"
  /\ Readable(r)
  /\ runs[r].records # <<>>
  /\ \A i \in DOMAIN runs[r].records :
       runs[r].records[i].draft.index = setup.index

\* rebuild_answer: the text of the draft is the answer that was recorded.
LoadedDrafts(r) ==
  [q \in Answered(r) |->
     [LastRecord(r, q).draft EXCEPT !.text = LastRecord(r, q).answer]]

\* replayed_baseline: the Arm B answers a replayed Arm D is compared with, or
\* none when the questions or the evidence differ.
ContrastComputed(d) ==
  LET b == runs[d].summary.replayedFrom
  IN /\ b # NoRun
     /\ b \in DOMAIN runs
     /\ Readable(b) /\ Readable(d)
     /\ Answered(b) = Answered(d)
     /\ \A q \in Answered(d) :
          LastRecord(b, q).draft.index = LastRecord(d, q).draft.index

(***************************************************************************)
(* An invocation                                                           *)
(***************************************************************************)

Idle ==
  /\ pc = "idle"
  /\ split = CHOOSE s \in Splits : TRUE
  /\ todo = {}
  /\ exploratory = FALSE
  /\ source = NoRun
  /\ using = [index |-> 0, prompt |-> 0]
  /\ drafts = Empty
  /\ dirs = Empty
  /\ current = NoRun
  /\ position = 0
  /\ produced = Empty

Init ==
  /\ runs = Empty
  /\ latest = [s \in Splits |-> Empty]
  /\ setup = [index |-> 0, prompt |-> 0]
  /\ clock = 0
  /\ Idle

\* The process ends: its memory is gone.
Exit ==
  /\ pc' = "idle"
  /\ split' = CHOOSE s \in Splits : TRUE
  /\ todo' = {}
  /\ exploratory' = FALSE
  /\ source' = NoRun
  /\ using' = [index |-> 0, prompt |-> 0]
  /\ drafts' = Empty
  /\ dirs' = Empty
  /\ current' = NoRun
  /\ position' = 0
  /\ produced' = Empty

\* The arguments are accepted, the index is loaded and the drafts to replay, if
\* any, are read back and checked.  The test split also needs
\* --i-have-frozen-everything, which is taken as given.
Start(s, arms, dWithoutB, replay) ==
  /\ pc = "idle"
  /\ s = "test" => ~dWithoutB
  /\ replay # NoRun => "B" \notin arms /\ Replayable(replay)
  /\ pc' = "arms"
  /\ split' = s
  /\ todo' = arms
  /\ exploratory' = dWithoutB
  /\ source' = replay
  /\ using' = setup
  /\ drafts' = IF replay = NoRun THEN Empty ELSE LoadedDrafts(replay)
  /\ UNCHANGED <<disk, dirs, current, position, produced>>

\* Arm D without Arm B's drafts is refused unless it is marked exploratory.
MayBegin(arm) == arm = "D" => drafts # Empty \/ exploratory

\* RunWriter.__init__: the directory is created and its manifest is written.
BeginArm ==
  LET name == [stamp |-> clock, arm |-> NextArm(todo), split |-> split]
  IN /\ pc = "arms" /\ todo # {}
     /\ MayBegin(NextArm(todo))
     /\ name \notin DOMAIN runs
     /\ Cardinality(DOMAIN runs) < MaxRuns
     /\ pc' = "answering"
     /\ current' = name
     /\ position' = 0
     /\ produced' = Empty
     /\ runs' = Put(runs, name,
          [records |-> <<>>, torn |-> FALSE, summary |-> NoSummary])
     /\ UNCHANGED <<latest, setup, clock, split, todo, exploratory, source,
                    using, drafts, dirs>>

\* Arm D was asked for without Arm B: the invocation stops, and the arms that
\* ran before D keep their directories.
RefuseArmD ==
  /\ pc = "arms" /\ todo # {}
  /\ ~MayBegin(NextArm(todo))
  /\ Exit
  /\ UNCHANGED disk

\* Mutant of Reused: every arm samples its own drafts.
NeverReused(q) == FALSE

\* Drafts are only passed to Arm D.
Reused(q) == current.arm = "D" /\ q \in DOMAIN drafts

\* One question: the draft is B's, or a new sample of the generator; Arm D may
\* serve another text than the draft; the record is appended.
AnswerQuestion(text, served) ==
  LET q == Questions[split][position + 1]
      draft == IF Reused(q) THEN drafts[q]
               ELSE [text |-> text, index |-> using.index, prompt |-> using.prompt]
      record == [question |-> q, draft |-> draft, answer |-> served]
  IN /\ pc = "answering" /\ position < Len(Questions[split])
     /\ Reused(q) => text = draft.text
     /\ current.arm # "D" => served = draft.text
     /\ runs' = [runs EXCEPT ![current].records = Append(@, record)]
     /\ position' = position + 1
     /\ produced' = Put(produced, q, draft)
     /\ UNCHANGED <<latest, setup, clock, pc, split, todo, exploratory, source,
                    using, drafts, dirs, current>>

\* Mutant of AllAnswered: the last question is not waited for.
NearlyAllAnswered == position + 1 >= Len(Questions[split])

AllAnswered == position = Len(Questions[split])

\* RunWriter.finish writes the summary; main keeps the directory and, of Arm B,
\* the drafts.
FinishArm ==
  /\ pc = "answering" /\ AllAnswered
  /\ pc' = "arms"
  /\ todo' = todo \ {current.arm}
  /\ runs' = [runs EXCEPT ![current].summary =
       [finished |-> TRUE,
        isolates |-> current.arm = "D" /\ drafts # Empty,
        replayedFrom |-> IF current.arm = "D" /\ drafts # Empty THEN source ELSE NoRun]]
  /\ dirs' = Put(dirs, current.arm, current)
  /\ drafts' = IF current.arm = "B" THEN produced ELSE drafts
  /\ current' = NoRun
  /\ position' = 0
  /\ produced' = Empty
  /\ UNCHANGED <<latest, setup, clock, split, exploratory, source, using>>

\* The run index replaces latest_<split>.json, and the invocation is over.
Publish ==
  /\ pc = "arms" /\ todo = {}
  /\ latest' = [latest EXCEPT ![split] = dirs]
  /\ Exit
  /\ UNCHANGED <<runs, setup, clock>>

(***************************************************************************)
(* The environment                                                         *)
(***************************************************************************)

\* The process dies: between two writes, while a record is appended, or while
\* the run index is rewritten.
Crash ==
  /\ pc # "idle"
  /\ \/ UNCHANGED <<runs, latest>>
     \/ /\ pc = "answering" /\ position < Len(Questions[split])
        /\ runs' = [runs EXCEPT ![current].torn = TRUE]
        /\ UNCHANGED latest
     \/ /\ pc = "arms" /\ todo = {}
        /\ latest' = [latest EXCEPT ![split] = TornIndex]
        /\ UNCHANGED runs
  /\ Exit
  /\ UNCHANGED <<setup, clock>>

Tick ==
  /\ clock < MaxClock
  /\ clock' = clock + 1
  /\ UNCHANGED <<runs, latest, setup, proc>>

\* build_index.py replaces the index file.
RebuildIndex ==
  /\ setup.index < MaxVersion
  /\ setup' = [setup EXCEPT !.index = @ + 1]
  /\ UNCHANGED <<runs, latest, clock, proc>>

\* The prompt template is edited.
EditPrompt ==
  /\ setup.prompt < MaxVersion
  /\ setup' = [setup EXCEPT !.prompt = @ + 1]
  /\ UNCHANGED <<runs, latest, clock, proc>>

Next ==
  \/ \E s \in Splits, arms \in ArmSets, e \in BOOLEAN, r \in DOMAIN runs \cup {NoRun} :
       Start(s, arms, e, r)
  \/ BeginArm
  \/ RefuseArmD
  \/ \E text, served \in Texts : AnswerQuestion(text, served)
  \/ FinishArm
  \/ Publish
  \/ Crash
  \/ Tick
  \/ RebuildIndex
  \/ EditPrompt

Spec == Init /\ [][Next]_vars

(***************************************************************************)
(* Properties                                                              *)
(***************************************************************************)
RunName == [stamp : Nat, arm : Arms, split : Splits]
Setup == [index : Nat, prompt : Nat]
Draft == [text : Texts, index : Nat, prompt : Nat]
Record == [question : QuestionIds, draft : Draft, answer : Texts]
Summary ==
  [finished : BOOLEAN, isolates : BOOLEAN, replayedFrom : RunName \cup {NoRun}]
Run == [records : Seq(Record), torn : BOOLEAN, summary : Summary]

\* What the results directory and the invocation hold: a directory named in an
\* index or in the invocation's memory exists.
TypeOK ==
  /\ DOMAIN runs \subseteq RunName /\ runs \in [DOMAIN runs -> Run]
  /\ DOMAIN latest = Splits
  /\ \A s \in Splits : latest[s] # TornIndex =>
       /\ DOMAIN latest[s] \subseteq Arms
       /\ latest[s] \in [DOMAIN latest[s] -> DOMAIN runs]
  /\ setup \in Setup /\ clock \in Nat
  /\ pc \in {"idle", "arms", "answering"}
  /\ split \in Splits
  /\ todo \subseteq Arms
  /\ exploratory \in BOOLEAN
  /\ source \in DOMAIN runs \cup {NoRun}
  /\ using \in Setup
  /\ DOMAIN drafts \subseteq QuestionIds /\ drafts \in [DOMAIN drafts -> Draft]
  /\ DOMAIN dirs \subseteq Arms /\ dirs \in [DOMAIN dirs -> DOMAIN runs]
  /\ current \in DOMAIN runs \cup {NoRun}
  /\ pc = "answering" => current \in DOMAIN runs /\ current.split = split
  /\ position \in Nat
  /\ DOMAIN produced \subseteq QuestionIds /\ produced \in [DOMAIN produced -> Draft]

Published(s, a) == latest[s] # TornIndex /\ a \in DOMAIN latest[s]

Complete(r) ==
  /\ runs[r].summary.finished /\ ~runs[r].torn
  /\ [i \in DOMAIN runs[r].records |-> runs[r].records[i].question]
       = Questions[r.split]

\* A published index names finished runs only: each of the arm and the split it
\* is published under, answering every question of the split once, in order,
\* however many invocations died on the way (run_arms.py:499).
PublishedRunsAreComplete ==
  \A s \in Splits, a \in Arms :
    Published(s, a) =>
      LET r == latest[s][a]
      IN r.arm = a /\ r.split = s /\ Complete(r)

\* The contrast of the experiment isolates verification: where an index publishes
\* both B and D, every answer of D started from the very draft B served, over the
\* same evidence and prompt (run_arms.py:371).
PublishedContrastIsPaired ==
  \A s \in Splits :
    Published(s, "B") /\ Published(s, "D") =>
      LET b == runs[latest[s]["B"]].records
          d == runs[latest[s]["D"]].records
      IN /\ runs[latest[s]["D"]].summary.isolates
         /\ Len(b) = Len(d)
         /\ \A i \in DOMAIN d : d[i].draft = b[i].draft /\ d[i].draft.text = b[i].answer

\* When the summary compares a replayed Arm D with the Arm B run it names, every
\* draft of D is that run's answer, even if that run died half-way
\* (summarise_arms.py:75).
ReplayedContrastIsPaired ==
  \A d \in DOMAIN runs :
    runs[d].summary.finished /\ ContrastComputed(d) =>
      \A i \in DOMAIN runs[d].records :
        LET rec == runs[d].records[i]
            b == LastRecord(runs[d].summary.replayedFrom, rec.question)
        IN rec.draft.text = b.answer /\ rec.draft.index = b.draft.index

\* "Stated in the run rather than inferred from it later" (run_arms.py:182): a
\* replayed Arm D that declares it isolates verification replayed the source's
\* answer to every question.
IsolationClaimIsTrue ==
  \A d \in DOMAIN runs :
    runs[d].summary.isolates /\ runs[d].summary.replayedFrom # NoRun =>
      \A i \in DOMAIN runs[d].records :
        runs[d].records[i].question \in Answered(runs[d].summary.replayedFrom)

=============================================================================
