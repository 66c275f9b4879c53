---------------------------- MODULE ArmRunProofs ----------------------------
(***************************************************************************)
(* Theorems about ArmRun, for every set of questions, any arms asked for,  *)
(* and any number of invocations, runs, crashes, rebuilds and edits.       *)
(***************************************************************************)
EXTENDS ArmRun, CountingLemmas, TLAPS

USE RunConstants DEF RunConstants

-----------------------------------------------------------------------------
(* Dictionaries, lists and the last record of a question                   *)

LEMMA PutEntries ==
  ASSUME NEW f, NEW x, NEW v
  PROVE  /\ DOMAIN Put(f, x, v) = DOMAIN f \cup {x}
         /\ Put(f, x, v)[x] = v
         /\ \A y \in DOMAIN f : y # x => Put(f, x, v)[y] = f[y]
BY DEF Put

LEMMA PutType ==
  ASSUME NEW X, NEW V, NEW f, f \in [DOMAIN f -> V], DOMAIN f \subseteq X,
         NEW x \in X, NEW v \in V
  PROVE  LET g == Put(f, x, v)
         IN DOMAIN g \subseteq X /\ g \in [DOMAIN g -> V]
BY DEF Put

LEMMA QuestionsType ==
  ASSUME NEW s \in Splits
  PROVE  /\ Questions[s] \in Seq(QuestionIds) /\ Len(Questions[s]) \in Nat \ {0}
         /\ DOMAIN Questions[s] = 1..Len(Questions[s])
         /\ \A i \in 1..Len(Questions[s]) : Questions[s][i] \in QuestionIds
<1>1. Questions[s] \in Seq(QuestionIds) /\ Questions[s] # <<>>
  OBVIOUS
<1>2. QED BY <1>1

\* What is answered has a last record, which is of the question.
LEMMA LastRecordType ==
  ASSUME TypeOK, NEW r \in DOMAIN runs, NEW q \in Answered(r)
  PROVE  LastRecord(r, q) \in Record /\ LastRecord(r, q).question = q
<1> DEFINE recs == runs[r].records
           S == {i \in DOMAIN recs : recs[i].question = q}
<1>1. recs \in Seq(Record)
  BY DEF TypeOK, Run
<1>2. S # {} /\ S \in SUBSET (1..Len(recs)) /\ Len(recs) \in Nat
  BY <1>1 DEF Answered
<1>3. \E i \in S : \A j \in S : j <= i
  BY <1>2, Greatest
<1>4. PICK i \in S : \A j \in S : j <= i
  BY <1>3
<1>5. \A j \in DOMAIN recs : j > i => recs[j].question # q
  <2> SUFFICES ASSUME NEW j \in DOMAIN recs, j > i, recs[j].question = q PROVE FALSE
    OBVIOUS
  <2>1. j \in S /\ j \in Nat /\ i \in Nat
    BY <1>2
  <2>2. QED BY <1>4, <2>1
<1> DEFINE last == CHOOSE k \in DOMAIN recs :
                     /\ recs[k].question = q
                     /\ \A j \in DOMAIN recs : j > k => recs[j].question # q
<1>6. last \in DOMAIN recs /\ recs[last].question = q
  BY <1>4, <1>5
<1>7. LastRecord(r, q) = recs[last]
  BY DEF LastRecord
<1> HIDE DEF last
<1>8. QED BY <1>1, <1>6, <1>7

\* Replaying turns a recorded answer into the draft.
LEMMA LoadedType ==
  ASSUME TypeOK, NEW r \in DOMAIN runs
  PROVE  /\ DOMAIN LoadedDrafts(r) = Answered(r)
         /\ DOMAIN LoadedDrafts(r) \subseteq QuestionIds
         /\ LoadedDrafts(r) \in [DOMAIN LoadedDrafts(r) -> Draft]
         /\ \A q \in Answered(r) :
              /\ LoadedDrafts(r)[q].text = LastRecord(r, q).answer
              /\ LoadedDrafts(r)[q].index = LastRecord(r, q).draft.index
<1>1. ASSUME NEW q \in Answered(r)
      PROVE  LET d == [LastRecord(r, q).draft EXCEPT !.text = LastRecord(r, q).answer]
             IN /\ q \in QuestionIds /\ d \in Draft
                /\ d.text = LastRecord(r, q).answer
                /\ d.index = LastRecord(r, q).draft.index
  <2>1. /\ LastRecord(r, q).draft \in Draft /\ LastRecord(r, q).answer \in Texts
        /\ q \in QuestionIds
    BY LastRecordType DEF Record
  <2>2. QED BY <2>1 DEF Draft
<1>2. QED BY <1>1 DEF LoadedDrafts

-----------------------------------------------------------------------------
(* Type correctness                                                        *)

LEMMA NextArmIsLeft ==
  ASSUME NEW arms \in SUBSET Arms, arms # {}
  PROVE  /\ NextArm(arms) \in arms
         /\ NextArm(arms) = "D" => "B" \notin arms
BY DEF NextArm, Arms

\* The record of a question just answered.
Draws(text) ==
  LET q == Questions[split][position + 1]
  IN IF Reused(q) THEN drafts[q]
     ELSE [text |-> text, index |-> using.index, prompt |-> using.prompt]

LEMMA AnswerFacts ==
  ASSUME TypeOK, NEW text \in Texts, NEW served \in Texts, AnswerQuestion(text, served)
  PROVE  LET q == Questions[split][position + 1]
             record == [question |-> q, draft |-> Draws(text), answer |-> served]
             x == runs[current]
         IN /\ pc = "answering" /\ current \in DOMAIN runs
            /\ position + 1 \in 1..Len(Questions[split])
            /\ q \in QuestionIds /\ Draws(text) \in Draft
            /\ record \in Record
            /\ DOMAIN runs' = DOMAIN runs /\ runs' = [r \in DOMAIN runs |-> runs'[r]]
            /\ \A r \in DOMAIN runs : r # current => runs'[r] = runs[r]
            /\ runs'[current] \in Run
            /\ runs'[current].records = Append(x.records, record)
            /\ runs'[current].torn = x.torn /\ runs'[current].summary = x.summary
            /\ position' = position + 1
            /\ produced' = Put(produced, q, Draws(text))
            /\ current.arm # "D" => served = Draws(text).text
            /\ UNCHANGED <<latest, setup, clock, pc, split, todo, exploratory, source,
                           using, drafts, dirs, current>>
<1> DEFINE q == Questions[split][position + 1]
           record == [question |-> q, draft |-> Draws(text), answer |-> served]
           x == runs[current]
           new == [x EXCEPT !.records = Append(x.records, record)]
<1>1. pc = "answering" /\ current \in DOMAIN runs /\ x \in Run
  BY DEF AnswerQuestion, TypeOK
<1>2. position + 1 \in 1..Len(Questions[split]) /\ q \in QuestionIds
  BY QuestionsType DEF AnswerQuestion, TypeOK
<1>3. Draws(text) \in Draft
  BY <1>2 DEF Draws, Reused, Draft, Setup, TypeOK
<1>4. record \in Record
  BY <1>2, <1>3 DEF Record
<1>5. runs' = [runs EXCEPT ![current] = new]
  BY DEF AnswerQuestion, Draws
<1>6. /\ new \in Run /\ new.records = Append(x.records, record)
      /\ new.torn = x.torn /\ new.summary = x.summary
  <2> HIDE DEF record
  <2>1. Append(x.records, record) \in Seq(Record)
    BY <1>1, <1>4 DEF Run
  <2>2. QED BY <1>1, <2>1 DEF Run
<1> HIDE DEF new
<1>7. /\ DOMAIN runs' = DOMAIN runs /\ runs'[current] = new
      /\ runs' = [r \in DOMAIN runs |-> runs'[r]]
      /\ \A r \in DOMAIN runs : r # current => runs'[r] = runs[r]
  BY <1>1, <1>5 DEF TypeOK
<1>8. QED BY <1>1, <1>2, <1>3, <1>4, <1>6, <1>7 DEF AnswerQuestion, Draws

LEMMA FinishFacts ==
  ASSUME TypeOK, FinishArm
  PROVE  LET x == runs[current]
             replays == current.arm = "D" /\ drafts # Empty
         IN /\ pc = "answering" /\ current \in DOMAIN runs
            /\ position = Len(Questions[split])
            /\ DOMAIN runs' = DOMAIN runs
            /\ \A r \in DOMAIN runs : r # current => runs'[r] = runs[r]
            /\ runs'[current] \in Run
            /\ runs'[current].records = x.records /\ runs'[current].torn = x.torn
            /\ runs'[current].summary.finished
            /\ runs'[current].summary.isolates = replays
            /\ runs'[current].summary.replayedFrom = IF replays THEN source ELSE NoRun
            /\ dirs' = Put(dirs, current.arm, current)
            /\ drafts' = IF current.arm = "B" THEN produced ELSE drafts
            /\ pc' = "arms" /\ todo' = todo \ {current.arm}
            /\ UNCHANGED <<latest, setup, clock, split, exploratory, source, using>>
<1> DEFINE x == runs[current]
           replays == current.arm = "D" /\ drafts # Empty
           summary == [finished |-> TRUE, isolates |-> replays,
                       replayedFrom |-> IF replays THEN source ELSE NoRun]
           new == [x EXCEPT !.summary = summary]
<1>1. pc = "answering" /\ current \in DOMAIN runs /\ x \in Run
  BY DEF FinishArm, TypeOK
<1>2. summary \in Summary
  BY DEF Summary, TypeOK
<1>3. runs' = [runs EXCEPT ![current] = new]
  BY DEF FinishArm
<1>4. /\ new \in Run /\ new.records = x.records /\ new.torn = x.torn
      /\ new.summary = summary
  <2> HIDE DEF summary
  <2>1. QED BY <1>1, <1>2 DEF Run
<1> HIDE DEF new
<1>5. /\ DOMAIN runs' = DOMAIN runs /\ runs'[current] = new
      /\ \A r \in DOMAIN runs : r # current => runs'[r] = runs[r]
  BY <1>1, <1>3 DEF TypeOK
<1>6. /\ summary.finished /\ summary.isolates = replays
      /\ summary.replayedFrom = IF replays THEN source ELSE NoRun
  OBVIOUS
<1> HIDE DEF summary
<1>7. /\ position = Len(Questions[split])
      /\ dirs' = Put(dirs, current.arm, current)
      /\ drafts' = IF current.arm = "B" THEN produced ELSE drafts
      /\ pc' = "arms" /\ todo' = todo \ {current.arm}
      /\ UNCHANGED <<latest, setup, clock, split, exploratory, source, using>>
  BY DEF FinishArm, AllAnswered
<1> HIDE DEF replays
<1>8. QED BY <1>1, <1>4, <1>5, <1>6, <1>7 DEF replays

LEMMA ExitType ==
  ASSUME Exit
  PROVE  /\ pc' = "idle" /\ split' \in Splits /\ todo' = {} /\ exploratory' \in BOOLEAN
         /\ source' = NoRun /\ using' \in Setup /\ current' = NoRun /\ position' \in Nat
         /\ DOMAIN drafts' = {} /\ drafts' \in [{} -> Draft]
         /\ DOMAIN dirs' = {} /\ \A V : dirs' \in [{} -> V]
         /\ DOMAIN produced' = {} /\ produced' \in [{} -> Draft]
<1>1. Splits # {}
  OBVIOUS
<1>2. QED BY <1>1 DEF Exit, Empty, Setup

\* The process part of TypeOK.
ProcessTypeOK ==
  /\ pc \in {"idle", "arms", "answering"}
  /\ split \in Splits
  /\ todo \subseteq Arms
  /\ exploratory \in BOOLEAN
  /\ source \in DOMAIN runs \cup {NoRun}
  /\ using \in Setup
  /\ DOMAIN drafts \subseteq QuestionIds /\ drafts \in [DOMAIN drafts -> Draft]
  /\ DOMAIN dirs \subseteq Arms /\ dirs \in [DOMAIN dirs -> DOMAIN runs]
  /\ current \in DOMAIN runs \cup {NoRun}
  /\ pc = "answering" => current \in DOMAIN runs /\ current.split = split
  /\ position \in Nat
  /\ DOMAIN produced \subseteq QuestionIds /\ produced \in [DOMAIN produced -> Draft]

\* The published indexes.
LatestTypeOK ==
  /\ DOMAIN latest = Splits
  /\ \A s \in Splits : latest[s] # TornIndex =>
       /\ DOMAIN latest[s] \subseteq Arms
       /\ latest[s] \in [DOMAIN latest[s] -> DOMAIN runs]

RunsTypeOK == DOMAIN runs \subseteq RunName /\ runs \in [DOMAIN runs -> Run]

LEMMA TypeOKParts ==
  TypeOK <=> /\ RunsTypeOK /\ LatestTypeOK /\ ProcessTypeOK
             /\ setup \in Setup /\ clock \in Nat
BY DEF TypeOK, RunsTypeOK, LatestTypeOK, ProcessTypeOK

\* Directories are never removed, so what names one goes on naming one.
LEMMA MoreRuns ==
  ASSUME TypeOK, DOMAIN runs \subseteq DOMAIN runs'
  PROVE  /\ UNCHANGED latest => LatestTypeOK'
         /\ UNCHANGED proc => ProcessTypeOK'
         /\ Exit => ProcessTypeOK'
<1>1. UNCHANGED latest => LatestTypeOK'
  BY DEF TypeOK, LatestTypeOK
<1>2. ASSUME UNCHANGED proc PROVE ProcessTypeOK'
  BY <1>2 DEF TypeOK, ProcessTypeOK, proc
<1>3. ASSUME Exit PROVE ProcessTypeOK'
  BY <1>3, ExitType DEF ProcessTypeOK
<1>4. QED BY <1>1, <1>2, <1>3

LEMMA InitTypeOK == Init => TypeOK
<1> SUFFICES ASSUME Init PROVE TypeOK
  OBVIOUS
<1>1. DOMAIN runs = {} /\ RunsTypeOK
  BY DEF Init, Empty, RunsTypeOK
<1>2. LatestTypeOK
  BY DEF Init, Empty, LatestTypeOK
<1>3. ProcessTypeOK
  BY DEF Init, Idle, Empty, ProcessTypeOK, Setup
<1>4. QED BY <1>1, <1>2, <1>3, TypeOKParts DEF Init, Setup

LEMMA BeginFacts ==
  ASSUME TypeOK, BeginArm
  PROVE  LET name == [stamp |-> clock, arm |-> NextArm(todo), split |-> split]
         IN /\ pc = "arms" /\ todo # {} /\ name \notin DOMAIN runs /\ name \in RunName
            /\ name.arm = NextArm(todo) /\ name.split = split
            /\ MayBegin(NextArm(todo))
            /\ DOMAIN runs' = DOMAIN runs \cup {name}
            /\ \A r \in DOMAIN runs : runs'[r] = runs[r]
            /\ runs'[name] = [records |-> <<>>, torn |-> FALSE, summary |-> NoSummary]
            /\ runs'[name] \in Run
            /\ DOMAIN runs' \subseteq RunName /\ runs' \in [DOMAIN runs' -> Run]
            /\ pc' = "answering" /\ current' = name /\ position' = 0 /\ produced' = Empty
            /\ UNCHANGED <<latest, setup, clock, split, todo, exploratory, source,
                           using, drafts, dirs>>
<1> DEFINE name == [stamp |-> clock, arm |-> NextArm(todo), split |-> split]
           new == [records |-> <<>>, torn |-> FALSE, summary |-> NoSummary]
<1>1. name \in RunName /\ name.arm = NextArm(todo) /\ name.split = split
  BY NextArmIsLeft DEF BeginArm, TypeOK, RunName
<1>2. new \in Run
  BY DEF Run, NoSummary, Summary
<1>3. runs' = Put(runs, name, new) /\ name \notin DOMAIN runs
  BY DEF BeginArm
<1> HIDE DEF name, new
<1>4. /\ DOMAIN runs' = DOMAIN runs \cup {name} /\ runs'[name] = new
      /\ \A r \in DOMAIN runs : runs'[r] = runs[r]
  <2>1. \A r \in DOMAIN runs : r # name
    BY <1>3
  <2>2. /\ DOMAIN Put(runs, name, new) = DOMAIN runs \cup {name}
        /\ Put(runs, name, new)[name] = new
        /\ \A r \in DOMAIN runs : r # name => Put(runs, name, new)[r] = runs[r]
    BY DEF Put
  <2>3. QED BY <1>3, <2>1, <2>2
<1>5. /\ pc = "arms" /\ todo # {} /\ MayBegin(NextArm(todo))
      /\ pc' = "answering" /\ current' = name /\ position' = 0 /\ produced' = Empty
      /\ UNCHANGED <<latest, setup, clock, split, todo, exploratory, source,
                     using, drafts, dirs>>
  BY DEF BeginArm, name
<1>6. DOMAIN runs' \subseteq RunName /\ runs' \in [DOMAIN runs' -> Run]
  <2>1. DOMAIN runs \subseteq RunName /\ runs \in [DOMAIN runs -> Run]
    BY DEF TypeOK
  <2>2. LET g == Put(runs, name, new) IN DOMAIN g \subseteq RunName /\ g \in [DOMAIN g -> Run]
    BY <1>1, <1>2, <2>1, PutType
  <2>3. QED BY <1>3, <2>2
<1>7. QED BY <1>1, <1>2, <1>3, <1>4, <1>5, <1>6 DEF name, new

LEMMA CrashFacts ==
  ASSUME TypeOK, Crash
  PROVE  /\ pc # "idle" /\ Exit /\ DOMAIN runs' = DOMAIN runs
         /\ \A r \in DOMAIN runs : (pc = "answering" /\ r = current) \/ runs'[r] = runs[r]
         /\ \A r \in DOMAIN runs : /\ runs'[r] \in Run
                                   /\ runs'[r].records = runs[r].records
                                   /\ runs'[r].summary = runs[r].summary
         /\ \A s \in Splits : latest'[s] = latest[s] \/ latest'[s] = TornIndex
         /\ DOMAIN latest' = Splits
         /\ UNCHANGED <<setup, clock>>
<1>1. CASE UNCHANGED <<runs, latest>>
  BY <1>1 DEF Crash, TypeOK
<1>2. CASE /\ pc = "answering"
           /\ runs' = [runs EXCEPT ![current].torn = TRUE]
           /\ UNCHANGED latest
  <2> DEFINE new == [runs[current] EXCEPT !.torn = TRUE]
  <2>1. current \in DOMAIN runs /\ runs[current] \in Run
    BY <1>2 DEF TypeOK
  <2>2. /\ new \in Run /\ new.records = runs[current].records
        /\ new.summary = runs[current].summary
    BY <2>1 DEF Run
  <2>3. runs' = [runs EXCEPT ![current] = new]
    BY <1>2
  <2> HIDE DEF new
  <2>4. QED BY <1>2, <2>1, <2>2, <2>3 DEF Crash, TypeOK
<1>3. CASE latest' = [latest EXCEPT ![split] = TornIndex] /\ UNCHANGED runs
  BY <1>3 DEF Crash, TypeOK
<1>4. QED BY <1>1, <1>2, <1>3 DEF Crash

LEMMA NextTypeOK == TypeOK /\ [Next]_vars => TypeOK'
<1> SUFFICES ASSUME TypeOK, [Next]_vars PROVE TypeOK'
  OBVIOUS
<1> DEFINE Goal == /\ RunsTypeOK' /\ LatestTypeOK' /\ ProcessTypeOK'
                   /\ setup' \in Setup /\ clock' \in Nat
<1>0. SUFFICES Goal
  BY DEF TypeOK, RunsTypeOK, LatestTypeOK, ProcessTypeOK
<1>a. RunsTypeOK /\ setup \in Setup /\ clock \in Nat
  BY DEF TypeOK, RunsTypeOK
<1>b. UNCHANGED runs => RunsTypeOK'
  BY <1>a DEF RunsTypeOK
<1>1. ASSUME NEW s \in Splits, NEW arms \in ArmSets, NEW e \in BOOLEAN,
             NEW r \in DOMAIN runs \cup {NoRun}, Start(s, arms, e, r)
      PROVE  Goal
  <2>1. /\ pc' = "arms" /\ split' = s /\ todo' = arms /\ exploratory' = e /\ source' = r
        /\ using' = setup /\ drafts' = (IF r = NoRun THEN Empty ELSE LoadedDrafts(r))
        /\ UNCHANGED <<runs, latest, setup, clock, dirs, current, position, produced>>
    BY <1>1 DEF Start, disk
  <2>2. DOMAIN drafts' \subseteq QuestionIds /\ drafts' \in [DOMAIN drafts' -> Draft]
    <3>1. CASE r = NoRun
      BY <2>1, <3>1 DEF Empty
    <3>2. CASE r # NoRun
      BY <2>1, <3>2, LoadedType
    <3>3. QED BY <3>1, <3>2
  <2>3. ProcessTypeOK'
    BY <2>1, <2>2 DEF TypeOK, ProcessTypeOK
  <2>4. QED BY <1>a, <1>b, <2>1, <2>3, MoreRuns
<1>2. CASE BeginArm
  <2>1. RunsTypeOK'
    BY <1>2, BeginFacts DEF RunsTypeOK
  <2>2. ProcessTypeOK'
    <3> DEFINE name == [stamp |-> clock, arm |-> NextArm(todo), split |-> split]
    <3>1. /\ DOMAIN runs' = DOMAIN runs \cup {name} /\ name.split = split
          /\ pc' = "answering" /\ current' = name /\ position' = 0 /\ produced' = Empty
          /\ UNCHANGED <<split, todo, exploratory, source, using, drafts, dirs>>
      BY <1>2, BeginFacts
    <3> HIDE DEF name
    <3>2. DOMAIN produced' \subseteq QuestionIds /\ produced' \in [DOMAIN produced' -> Draft]
      BY <3>1 DEF Empty
    <3>3. DOMAIN dirs' \subseteq Arms /\ dirs' \in [DOMAIN dirs' -> DOMAIN runs']
      BY <3>1 DEF TypeOK
    <3>4. QED BY <3>1, <3>2, <3>3 DEF TypeOK, ProcessTypeOK
  <2>3. QED BY <1>2, <1>a, <2>1, <2>2, BeginFacts, MoreRuns
<1>3. CASE RefuseArmD
  BY <1>3, <1>a, <1>b, MoreRuns DEF RefuseArmD, disk
<1>4. ASSUME NEW text \in Texts, NEW served \in Texts, AnswerQuestion(text, served)
      PROVE  Goal
  <2>1. RunsTypeOK'
    <3>1. \A r \in DOMAIN runs : runs'[r] \in Run
      BY <1>4, AnswerFacts DEF TypeOK
    <3>2. DOMAIN runs' = DOMAIN runs /\ runs' = [r \in DOMAIN runs' |-> runs'[r]]
      BY <1>4, AnswerFacts
    <3>3. QED BY <3>1, <3>2 DEF RunsTypeOK, TypeOK
  <2>2. DOMAIN produced' \subseteq QuestionIds /\ produced' \in [DOMAIN produced' -> Draft]
    <3> DEFINE q == Questions[split][position + 1]
    <3>1. produced' = Put(produced, q, Draws(text)) /\ q \in QuestionIds /\ Draws(text) \in Draft
      BY <1>4, AnswerFacts
    <3>2. DOMAIN produced \subseteq QuestionIds /\ produced \in [DOMAIN produced -> Draft]
      BY DEF TypeOK
    <3> HIDE DEF q
    <3>3. QED BY <3>1, <3>2, PutType
  <2>3. ProcessTypeOK'
    <3>1. /\ DOMAIN runs' = DOMAIN runs /\ position' = position + 1
          /\ UNCHANGED <<pc, split, todo, exploratory, source, using, drafts, dirs, current>>
      BY <1>4, AnswerFacts
    <3>2. QED BY <2>2, <3>1 DEF TypeOK, ProcessTypeOK
  <2>4. DOMAIN runs' = DOMAIN runs /\ UNCHANGED <<latest, setup, clock>>
    BY <1>4, AnswerFacts
  <2>5. QED BY <1>a, <2>1, <2>3, <2>4, MoreRuns
<1>5. CASE FinishArm
  <2>1. RunsTypeOK'
    <3>1. \A r \in DOMAIN runs : runs'[r] \in Run
      BY <1>5, FinishFacts DEF TypeOK
    <3>2. DOMAIN runs' = DOMAIN runs /\ runs' = [r \in DOMAIN runs' |-> runs'[r]]
      BY <1>5, FinishFacts DEF FinishArm, TypeOK
    <3>3. QED BY <3>1, <3>2 DEF RunsTypeOK, TypeOK
  <2>2. DOMAIN dirs' \subseteq Arms /\ dirs' \in [DOMAIN dirs' -> DOMAIN runs]
    <3>1. current.arm \in Arms /\ current \in DOMAIN runs
      BY <1>5, FinishFacts DEF TypeOK, RunName
    <3>2. dirs' = Put(dirs, current.arm, current)
      BY <1>5, FinishFacts
    <3>3. DOMAIN dirs \subseteq Arms /\ dirs \in [DOMAIN dirs -> DOMAIN runs]
      BY DEF TypeOK
    <3>4. QED BY <3>1, <3>2, <3>3, PutType
  <2>3. ProcessTypeOK'
    <3>1. /\ DOMAIN runs' = DOMAIN runs
          /\ drafts' = drafts \/ drafts' = produced
          /\ pc' = "arms" /\ todo' \subseteq Arms
          /\ UNCHANGED <<split, exploratory, source, using>>
      BY <1>5, FinishFacts DEF TypeOK
    <3>2. current' = NoRun /\ position' = 0 /\ produced' = Empty
      BY <1>5 DEF FinishArm
    <3>3. QED BY <2>2, <3>1, <3>2 DEF TypeOK, ProcessTypeOK, Empty
  <2>4. DOMAIN runs' = DOMAIN runs /\ UNCHANGED <<latest, setup, clock>>
    BY <1>5, FinishFacts
  <2>5. QED BY <1>a, <2>1, <2>3, <2>4, MoreRuns
<1>6. CASE Publish
  <2>1. UNCHANGED <<runs, setup, clock>> /\ Exit /\ latest' = [latest EXCEPT ![split] = dirs]
    BY <1>6 DEF Publish
  <2>2. LatestTypeOK'
    BY <2>1 DEF TypeOK, LatestTypeOK
  <2>3. QED BY <1>a, <1>b, <2>1, <2>2, MoreRuns
<1>7. CASE Crash
  <2>1. RunsTypeOK'
    <3>1. runs' = [r \in DOMAIN runs' |-> runs'[r]]
      BY <1>7 DEF Crash, TypeOK
    <3>2. QED BY <1>7, <3>1, CrashFacts DEF RunsTypeOK, TypeOK
  <2>2. LatestTypeOK'
    BY <1>7, CrashFacts DEF TypeOK, LatestTypeOK
  <2>3. Exit /\ DOMAIN runs' = DOMAIN runs /\ UNCHANGED <<setup, clock>>
    BY <1>7, CrashFacts
  <2>4. QED BY <1>a, <2>1, <2>2, <2>3, MoreRuns
<1>8. CASE Tick
  BY <1>8, <1>a, <1>b, MoreRuns DEF Tick
<1>9. CASE RebuildIndex
  BY <1>9, <1>a, <1>b, MoreRuns DEF RebuildIndex, Setup
<1>10. CASE EditPrompt
  BY <1>10, <1>a, <1>b, MoreRuns DEF EditPrompt, Setup
<1>11. CASE UNCHANGED vars
  BY <1>11, <1>a, <1>b, MoreRuns DEF vars, disk
<1> HIDE DEF Goal
<1>12. QED BY <1>1, <1>2, <1>3, <1>4, <1>5, <1>6, <1>7, <1>8, <1>9, <1>10, <1>11 DEF Next

\* THEOREM: whatever dies or is edited in between, every directory an index or an
\* invocation names exists and holds well-formed records (run_arms.py).
THEOREM TypeCorrect == Spec => []TypeOK
<1>1. QED BY InitTypeOK, NextTypeOK, PTL DEF Spec

-----------------------------------------------------------------------------
(* The inductive invariant                                                 *)

\* The run being written: its records are those of the first questions, its
\* drafts are remembered, and it has not been summarised.
Written ==
  pc = "answering" =>
    LET x == runs[current]
    IN /\ todo # {} /\ current.arm = NextArm(todo)
       /\ ~x.summary.finished /\ ~x.torn
       /\ position <= Len(Questions[split]) /\ Len(x.records) = position
       /\ DOMAIN produced = {Questions[split][i] : i \in 1..position}
       /\ \A i \in 1..position :
            LET q == Questions[split][i]
                rec == x.records[i]
            IN /\ rec.question = q
               /\ produced[q] = rec.draft
               /\ current.arm # "D" => rec.answer = rec.draft.text
               /\ current.arm = "D" /\ q \in DOMAIN drafts => rec.draft = drafts[q]

\* The directories the invocation has finished.
Collected ==
  /\ \A a \in DOMAIN dirs : dirs[a].arm = a /\ dirs[a].split = split /\ Complete(dirs[a])
  /\ pc = "idle" => DOMAIN dirs = {} /\ source = NoRun

\* The drafts kept of Arm B, which runs before D.
Baseline ==
  /\ "B" \in DOMAIN dirs =>
       LET b == runs[dirs["B"]].records
       IN /\ DOMAIN drafts = {Questions[split][i] : i \in 1..Len(Questions[split])}
          /\ \A i \in 1..Len(Questions[split]) :
               drafts[Questions[split][i]] = b[i].draft /\ b[i].draft.text = b[i].answer
  /\ "D" \in DOMAIN dirs => "B" \notin todo

\* Every answer of d started from the draft b served.
Paired(b, d) ==
  LET bs == runs[b].records
      ds == runs[d].records
  IN /\ runs[d].summary.isolates
     /\ Len(bs) = Len(ds)
     /\ \A i \in DOMAIN ds : ds[i].draft = bs[i].draft /\ ds[i].draft.text = bs[i].answer

PairedDirs ==
  "B" \in DOMAIN dirs /\ "D" \in DOMAIN dirs => Paired(dirs["B"], dirs["D"])

\* The drafts of a replay are those of the source, which nobody writes to.
Sourced ==
  source # NoRun =>
    /\ source \in DOMAIN runs /\ drafts = LoadedDrafts(source)
    /\ "B" \notin todo /\ "B" \notin DOMAIN dirs
    /\ pc = "answering" => source # current

\* What a finished replay started from.
Replays(d) ==
  LET b == runs[d].summary.replayedFrom
  IN /\ b \in DOMAIN runs
     /\ pc = "answering" => b # current
     /\ \A i \in DOMAIN runs[d].records :
          LET rec == runs[d].records[i]
          IN rec.question \in Answered(b) =>
               /\ rec.draft.text = LastRecord(b, rec.question).answer
               /\ rec.draft.index = LastRecord(b, rec.question).draft.index

FromTheSource ==
  \A d \in DOMAIN runs :
    runs[d].summary.finished /\ runs[d].summary.replayedFrom # NoRun => Replays(d)

-----------------------------------------------------------------------------
(* What a step may touch                                                   *)

LEMMA Kinds ==
  ASSUME [Next]_vars
  PROVE  \/ \E s \in Splits, arms \in ArmSets, e \in BOOLEAN, r \in DOMAIN runs \cup {NoRun} :
              Start(s, arms, e, r)
         \/ BeginArm
         \/ \E text, served \in Texts : AnswerQuestion(text, served)
         \/ FinishArm
         \/ Publish \/ Crash \/ RefuseArmD
         \/ UNCHANGED <<runs, latest, proc>>
<1>1. CASE RefuseArmD
  BY <1>1
<1>2. CASE Tick \/ RebuildIndex \/ EditPrompt \/ UNCHANGED vars
  BY <1>2 DEF Tick, RebuildIndex, EditPrompt, vars, disk
<1>3. QED BY <1>1, <1>2 DEF Next

LEMMA Exits ==
  ASSUME Publish \/ Crash \/ RefuseArmD
  PROVE  /\ pc' = "idle" /\ DOMAIN dirs' = {} /\ source' = NoRun
         /\ Exit /\ (Crash \/ UNCHANGED runs)
BY ExitType DEF Publish, Crash, RefuseArmD, disk

LEMMA StartFacts ==
  ASSUME NEW s, NEW arms, NEW e, NEW r, Start(s, arms, e, r)
  PROVE  /\ pc = "idle" /\ pc' = "arms" /\ split' = s /\ todo' = arms /\ source' = r
         /\ drafts' = (IF r = NoRun THEN Empty ELSE LoadedDrafts(r))
         /\ r # NoRun => "B" \notin arms
         /\ UNCHANGED <<runs, latest, setup, dirs, current, position, produced>>
BY DEF Start, disk

\* Only the run being written changes, and nothing is removed.
LEMMA OnlyCurrentChanges ==
  ASSUME TypeOK, [Next]_vars
  PROVE  /\ DOMAIN runs \subseteq DOMAIN runs'
         /\ \A r \in DOMAIN runs : (pc = "answering" /\ r = current) \/ runs'[r] = runs[r]
<1> DEFINE Goal == /\ DOMAIN runs \subseteq DOMAIN runs'
                   /\ \A r \in DOMAIN runs :
                        (pc = "answering" /\ r = current) \/ runs'[r] = runs[r]
<1>0. UNCHANGED runs => Goal
  OBVIOUS
<1>1. ASSUME NEW s \in Splits, NEW arms \in ArmSets, NEW e \in BOOLEAN,
             NEW r \in DOMAIN runs \cup {NoRun}, Start(s, arms, e, r)
      PROVE  Goal
  BY <1>0, <1>1, StartFacts
<1>2. CASE BeginArm
  <2>1. /\ DOMAIN runs \subseteq DOMAIN runs'
        /\ \A r \in DOMAIN runs : runs'[r] = runs[r]
    BY <1>2, BeginFacts
  <2>2. QED BY <2>1
<1>3. ASSUME NEW text \in Texts, NEW served \in Texts, AnswerQuestion(text, served) PROVE Goal
  BY <1>3, AnswerFacts
<1>4. CASE FinishArm
  BY <1>4, FinishFacts
<1>5. CASE Crash
  BY <1>5, CrashFacts
<1>6. CASE Publish
  BY <1>0, <1>6 DEF Publish
<1>7. CASE RefuseArmD
  BY <1>0, <1>7 DEF RefuseArmD, disk
<1>8. CASE UNCHANGED <<runs, latest, proc>>
  BY <1>0, <1>8
<1>9. QED BY <1>1, <1>2, <1>3, <1>4, <1>5, <1>6, <1>7, <1>8, Kinds

\* A summarised run is final.
LEMMA FinishedIsFinal ==
  ASSUME TypeOK, Written, [Next]_vars, NEW r \in DOMAIN runs, runs[r].summary.finished
  PROVE  r \in DOMAIN runs' /\ runs'[r] = runs[r]
<1>1. pc = "answering" => r # current
  BY DEF Written
<1>2. QED BY <1>1, OnlyCurrentChanges

-----------------------------------------------------------------------------
(* What is published is complete                                           *)

LEMMA NextWritten == TypeOK /\ Written /\ [Next]_vars => Written'
<1> SUFFICES ASSUME TypeOK, Written, [Next]_vars, pc' = "answering" PROVE Written'
  BY DEF Written
<1>1. CASE BeginArm
  <2> DEFINE name == [stamp |-> clock, arm |-> NextArm(todo), split |-> split]
  <2>1. /\ todo # {} /\ name.arm = NextArm(todo)
        /\ runs'[name] = [records |-> <<>>, torn |-> FALSE, summary |-> NoSummary]
        /\ current' = name /\ position' = 0 /\ produced' = Empty
        /\ UNCHANGED <<split, todo, drafts>>
    BY <1>1, BeginFacts
  <2> HIDE DEF name
  <2>2. Len(Questions[split]) \in Nat /\ 1..0 = {}
    BY QuestionsType DEF TypeOK
  <2>3. /\ ~runs'[name].summary.finished /\ ~runs'[name].torn
        /\ Len(runs'[name].records) = 0
    BY <2>1 DEF NoSummary
  <2>4. DOMAIN produced' = {Questions[split][i] : i \in 1..0}
    BY <2>1, <2>2 DEF Empty
  <2>5. QED BY <2>1, <2>2, <2>3, <2>4 DEF Written
<1>2. ASSUME NEW text \in Texts, NEW served \in Texts, AnswerQuestion(text, served)
      PROVE  Written'
  <2> DEFINE q == Questions[split][position + 1]
             record == [question |-> q, draft |-> Draws(text), answer |-> served]
             x == runs[current]
             y == runs'[current]
             n == position + 1
  <2>1. /\ pc = "answering" /\ n \in 1..Len(Questions[split])
        /\ y.records = Append(x.records, record)
        /\ y.torn = x.torn /\ y.summary = x.summary
        /\ position' = n /\ produced' = Put(produced, q, Draws(text))
        /\ current.arm # "D" => served = Draws(text).text
        /\ UNCHANGED <<split, todo, drafts, current>>
    BY <1>2, AnswerFacts
  <2>2. x.records \in Seq(Record) /\ position \in Nat /\ split \in Splits
    BY <2>1 DEF TypeOK, Run
  <2>3. /\ todo # {} /\ current.arm = NextArm(todo)
        /\ ~x.summary.finished /\ ~x.torn
        /\ position <= Len(Questions[split]) /\ Len(x.records) = position
        /\ DOMAIN produced = {Questions[split][i] : i \in 1..position}
    BY <2>1 DEF Written
  <2>4. /\ n <= Len(Questions[split]) /\ Len(y.records) = n
        /\ y.records[n] = record
        /\ \A i \in 1..position : y.records[i] = x.records[i]
    <3> HIDE DEF record, x
    <3>1. QED BY <2>1, <2>2, <2>3, QuestionsType
  <2>5. 1..n = 1..position \cup {n}
    BY <2>2
  <2>6. DOMAIN produced' = {Questions[split][i] : i \in 1..n}
    <3>1. DOMAIN produced' = DOMAIN produced \cup {q}
      BY <2>1 DEF Put
    <3> HIDE DEF n
    <3>2. q = Questions[split][n]
      BY DEF n
    <3>3. QED BY <2>3, <2>5, <3>1, <3>2
  <2>7. ASSUME NEW i \in 1..n
        PROVE  LET p == Questions[split][i]
                   rec == y.records[i]
               IN /\ rec.question = p
                  /\ produced'[p] = rec.draft
                  /\ current.arm # "D" => rec.answer = rec.draft.text
                  /\ current.arm = "D" /\ p \in DOMAIN drafts => rec.draft = drafts[p]
    <3>1. CASE i \in 1..position
      <4>1. Questions[split][i] # q
        <5>1. i \in 1..Len(Questions[split]) /\ i # n
          BY <2>1, <2>2, <2>3, <3>1, QuestionsType
        <5>2. QED BY <2>1, <2>2, <5>1, QuestionsType
      <4>2. Questions[split][i] \in DOMAIN produced
        BY <2>3, <3>1
      <4>3. produced'[Questions[split][i]] = produced[Questions[split][i]]
        BY <2>1, <4>1, <4>2 DEF Put
      <4>4. LET p == Questions[split][i]
                rec == x.records[i]
            IN /\ rec.question = p
               /\ produced[p] = rec.draft
               /\ current.arm # "D" => rec.answer = rec.draft.text
               /\ current.arm = "D" /\ p \in DOMAIN drafts => rec.draft = drafts[p]
        BY <2>1, <3>1 DEF Written
      <4>5. QED BY <2>4, <3>1, <4>3, <4>4
    <3>2. CASE i = n
      <4>1. produced'[q] = Draws(text)
        BY <2>1 DEF Put
      <4>2. current.arm = "D" /\ q \in DOMAIN drafts => Draws(text) = drafts[q]
        BY DEF Draws, Reused
      <4>3. QED BY <2>1, <2>4, <3>2, <4>1, <4>2
    <3>3. QED BY <2>5, <3>1, <3>2
  <2>8. ~y.summary.finished /\ ~y.torn
    BY <2>1, <2>3
  <2>9. /\ current' = current /\ position' = n /\ split' = split
        /\ todo' = todo /\ drafts' = drafts
    BY <2>1
  <2> HIDE DEF x, n, q, record
  <2>10. QED BY <2>3, <2>4, <2>6, <2>7, <2>8, <2>9 DEF Written
<1>3. CASE UNCHANGED <<runs, latest, proc>>
  BY <1>3 DEF Written, proc
<1>4. ASSUME NEW s, NEW arms, NEW e, NEW r, Start(s, arms, e, r) PROVE FALSE
  BY <1>4, StartFacts
<1>5. CASE FinishArm
  BY <1>5, FinishFacts
<1>6. CASE Publish \/ Crash \/ RefuseArmD
  BY <1>6, Exits
<1>7. QED BY <1>1, <1>2, <1>3, <1>4, <1>5, <1>6, Kinds

\* The arm that has just been answered is complete once it is summarised.
LEMMA FinishedIsComplete ==
  ASSUME TypeOK, Written, FinishArm, NEW r \in DOMAIN runs, r = current
  PROVE  Complete(r)' /\ r.split = split /\ r.arm = NextArm(todo) /\ r.arm \in todo
<1>1. /\ pc = "answering" /\ position = Len(Questions[split])
      /\ runs'[r].records = runs[r].records /\ runs'[r].torn = runs[r].torn
      /\ runs'[r].summary.finished
  BY FinishFacts
<1>2. /\ todo # {} /\ r.arm = NextArm(todo) /\ ~runs[r].torn
      /\ Len(runs[r].records) = position
      /\ \A i \in 1..position : runs[r].records[i].question = Questions[split][i]
  BY <1>1 DEF Written
<1>3. r.split = split /\ split \in Splits /\ todo \in SUBSET Arms
  BY <1>1 DEF TypeOK
<1>4. runs[r].records \in Seq(Record)
  BY DEF TypeOK, Run
<1>5. DOMAIN runs[r].records = DOMAIN Questions[split] /\ DOMAIN Questions[split] = 1..position
  BY <1>1, <1>2, <1>3, <1>4, QuestionsType
<1>6. [i \in DOMAIN runs[r].records |-> runs[r].records[i].question] = Questions[split]
  <2>1. Questions[split] = [i \in 1..position |-> Questions[split][i]]
    BY <1>3, <1>5, QuestionsType
  <2>2. QED BY <1>2, <1>5, <2>1
<1>7. r.arm \in todo
  BY <1>2, <1>3, NextArmIsLeft
<1>8. QED BY <1>1, <1>2, <1>3, <1>6, <1>7 DEF Complete

LEMMA NextCollected == TypeOK /\ Written /\ Collected /\ [Next]_vars => Collected'
<1> SUFFICES ASSUME TypeOK, Written, Collected, [Next]_vars PROVE Collected'
  OBVIOUS
<1>a. ASSUME NEW a \in DOMAIN dirs
      PROVE  /\ dirs[a] \in DOMAIN runs /\ dirs[a].arm = a /\ dirs[a].split = split
             /\ Complete(dirs[a]) /\ runs'[dirs[a]] = runs[dirs[a]]
  <2>1. /\ dirs[a] \in DOMAIN runs /\ dirs[a].arm = a /\ dirs[a].split = split
        /\ Complete(dirs[a]) /\ runs[dirs[a]].summary.finished
    BY DEF Collected, TypeOK, Complete
  <2>2. QED BY <2>1, FinishedIsFinal
<1>b. ASSUME UNCHANGED <<dirs, split>>, pc' = "idle" => pc = "idle" /\ source' = source
      PROVE  Collected'
  <2>1. ASSUME NEW a \in DOMAIN dirs'
        PROVE  dirs'[a].arm = a /\ dirs'[a].split = split' /\ Complete(dirs[a])'
    <3>1. PICK r \in DOMAIN runs : r = dirs[a]
      BY <1>a, <1>b, <2>1
    <3>2. r.arm = a /\ r.split = split /\ Complete(r) /\ runs'[r] = runs[r]
      BY <1>a, <1>b, <2>1, <3>1
    <3>3. Complete(r)'
      BY <3>2 DEF Complete
    <3>4. dirs'[a] = r /\ split' = split
      BY <1>b, <3>1
    <3>5. QED BY <3>2, <3>3, <3>4 DEF Complete
  <2>2. pc' = "idle" => DOMAIN dirs' = {} /\ source' = NoRun
    BY <1>b DEF Collected
  <2>3. QED BY <2>1, <2>2 DEF Collected
<1>1. ASSUME NEW s, NEW arms, NEW e, NEW r, Start(s, arms, e, r) PROVE Collected'
  BY <1>1, StartFacts DEF Collected
<1>2. CASE BeginArm
  BY <1>2, <1>b, BeginFacts
<1>3. ASSUME NEW text \in Texts, NEW served \in Texts, AnswerQuestion(text, served)
      PROVE  Collected'
  BY <1>3, <1>b, AnswerFacts
<1>4. CASE FinishArm
  <2>1. /\ pc = "answering" /\ current \in DOMAIN runs
        /\ pc' = "arms" /\ split' = split /\ dirs' = Put(dirs, current.arm, current)
    BY <1>4, FinishFacts
  <2>2. PICK r \in DOMAIN runs : r = current
    BY <2>1
  <2>3. Complete(r)' /\ r.split = split
    BY <1>4, <2>2, FinishedIsComplete
  <2>4. ASSUME NEW a \in DOMAIN dirs'
        PROVE  dirs'[a].arm = a /\ dirs'[a].split = split /\ Complete(dirs[a])'
    <3>1. CASE a = r.arm
      <4>1. dirs'[a] = r
        BY <2>1, <2>2, <3>1 DEF Put
      <4>2. Complete(dirs[a])'
        BY <2>3, <4>1 DEF Complete
      <4>3. dirs'[a].arm = a /\ dirs'[a].split = split
        BY <2>3, <3>1, <4>1
      <4>4. QED BY <4>2, <4>3
    <3>2. CASE a # r.arm
      <4>1. a \in DOMAIN dirs /\ dirs'[a] = dirs[a]
        BY <2>1, <2>2, <2>4, <3>2 DEF Put
      <4>2. PICK d \in DOMAIN runs : d = dirs[a]
        BY <1>a, <4>1
      <4>3. d.arm = a /\ d.split = split /\ Complete(d) /\ runs'[d] = runs[d]
        BY <1>a, <4>1, <4>2
      <4>4. Complete(d)'
        BY <4>3 DEF Complete
      <4>5. QED BY <4>1, <4>2, <4>3, <4>4 DEF Complete
    <3>3. QED BY <3>1, <3>2
  <2>5. QED BY <2>1, <2>4 DEF Collected
<1>5. CASE Publish \/ Crash \/ RefuseArmD
  BY <1>5, Exits DEF Collected
<1>6. CASE UNCHANGED <<runs, latest, proc>>
  BY <1>6, <1>b DEF proc
<1>7. QED BY <1>1, <1>2, <1>3, <1>4, <1>5, <1>6, Kinds

\* An index that changes is torn, or becomes the directories of the invocation.
LEMMA LatestChanges ==
  ASSUME TypeOK, [Next]_vars, NEW s \in Splits
  PROVE  \/ latest'[s] = latest[s]
         \/ latest'[s] = TornIndex
         \/ s = split /\ latest'[s] = dirs /\ UNCHANGED runs
<1> DEFINE Goal == \/ latest'[s] = latest[s]
                   \/ latest'[s] = TornIndex
                   \/ s = split /\ latest'[s] = dirs /\ UNCHANGED runs
<1>1. CASE Publish
  BY <1>1 DEF Publish, TypeOK
<1>2. CASE Crash
  BY <1>2, CrashFacts
<1>3. CASE UNCHANGED latest
  BY <1>3
<1>4. ASSUME NEW t, NEW arms, NEW e, NEW r, Start(t, arms, e, r) PROVE UNCHANGED latest
  BY <1>4, StartFacts
<1>5. CASE BeginArm
  BY <1>5, BeginFacts
<1>6. ASSUME NEW text \in Texts, NEW served \in Texts, AnswerQuestion(text, served)
      PROVE  UNCHANGED latest
  BY <1>6, AnswerFacts
<1>7. CASE FinishArm
  BY <1>7, FinishFacts
<1>8. CASE RefuseArmD
  BY <1>8 DEF RefuseArmD, disk
<1>9. QED BY <1>1, <1>2, <1>3, <1>4, <1>5, <1>6, <1>7, <1>8, Kinds

LEMMA NextPublished ==
  TypeOK /\ Written /\ Collected /\ PublishedRunsAreComplete /\ [Next]_vars
  => PublishedRunsAreComplete'
<1> SUFFICES ASSUME TypeOK, Written, Collected, PublishedRunsAreComplete, [Next]_vars,
                    NEW s \in Splits, NEW a \in Arms,
                    latest'[s] # TornIndex, a \in DOMAIN latest'[s]
             PROVE  /\ latest'[s][a].arm = a /\ latest'[s][a].split = s
                    /\ Complete(latest[s][a])'
  BY DEF PublishedRunsAreComplete, Published
<1>1. PICK r : r = latest'[s][a]
  OBVIOUS
<1>2. /\ r \in DOMAIN runs /\ r.arm = a /\ r.split = s /\ Complete(r)
  <2>1. CASE latest'[s] = latest[s]
    BY <1>1, <2>1 DEF PublishedRunsAreComplete, Published, TypeOK
  <2>2. CASE s = split /\ latest'[s] = dirs
    BY <1>1, <2>2 DEF Collected, TypeOK
  <2>3. QED BY <2>1, <2>2, LatestChanges
<1>3. runs'[r] = runs[r]
  BY <1>2, FinishedIsFinal DEF Complete
<1>4. QED BY <1>1, <1>2, <1>3 DEF Complete

LEMMA InitInv ==
  Init => Written /\ Collected /\ Baseline /\ PairedDirs /\ Sourced /\ FromTheSource
BY DEF Init, Idle, Empty, Written, Collected, Baseline, PairedDirs, Sourced, FromTheSource

\* THEOREM: an index only ever names finished runs of its split that answer every
\* question once and in order, whichever invocations died on the way
\* (run_arms.py:499).
THEOREM PublishedComplete == Spec => []PublishedRunsAreComplete
<1>1. Init => PublishedRunsAreComplete
  BY DEF Init, Empty, PublishedRunsAreComplete, Published
<1>2. QED
  BY <1>1, InitInv, TypeCorrect, NextWritten, NextCollected, NextPublished, PTL DEF Spec

-----------------------------------------------------------------------------
(* The published contrast is paired                                        *)

\* What is left to do when an arm is finished.
LEMMA NextBaseline ==
  TypeOK /\ Written /\ Collected /\ Baseline /\ [Next]_vars => Baseline'
<1> SUFFICES ASSUME TypeOK, Written, Collected, Baseline, [Next]_vars PROVE Baseline'
  OBVIOUS
<1>a. ASSUME "B" \in DOMAIN dirs
      PROVE  dirs["B"] \in DOMAIN runs /\ runs'[dirs["B"]] = runs[dirs["B"]]
  <2>1. dirs["B"] \in DOMAIN runs /\ runs[dirs["B"]].summary.finished
    BY <1>a DEF Collected, TypeOK, Complete
  <2>2. QED BY <2>1, FinishedIsFinal
<1>b. ASSUME UNCHANGED <<dirs, split, todo, drafts>> PROVE Baseline'
  BY <1>a, <1>b DEF Baseline
<1>1. ASSUME NEW s, NEW arms, NEW e, NEW r, Start(s, arms, e, r) PROVE Baseline'
  <2>1. DOMAIN dirs' = {}
    BY <1>1, StartFacts DEF Collected
  <2>2. QED BY <2>1 DEF Baseline
<1>2. CASE BeginArm
  BY <1>2, <1>b, BeginFacts
<1>3. ASSUME NEW text \in Texts, NEW served \in Texts, AnswerQuestion(text, served)
      PROVE  Baseline'
  BY <1>3, <1>b, AnswerFacts
<1>4. CASE FinishArm
  <2>1. /\ pc = "answering" /\ position = Len(Questions[split]) /\ split' = split
        /\ dirs' = Put(dirs, current.arm, current) /\ todo' = todo \ {current.arm}
        /\ drafts' = IF current.arm = "B" THEN produced ELSE drafts
    BY <1>4, FinishFacts
  <2>2. PICK r \in DOMAIN runs : r = current
    BY <1>4, FinishFacts
  <2>3. r.arm = NextArm(todo) /\ r.arm \in todo /\ todo \in SUBSET Arms
    BY <1>4, <2>2, FinishedIsComplete DEF TypeOK
  <2>4. "D" \in DOMAIN dirs' => "B" \notin todo'
    <3>1. CASE r.arm = "D"
      BY <2>1, <2>2, <2>3, <3>1, NextArmIsLeft
    <3>2. CASE r.arm # "D"
      BY <2>1, <2>2, <3>2 DEF Baseline, Put
    <3>3. QED BY <3>1, <3>2
  <2>5. ASSUME "B" \in DOMAIN dirs'
        PROVE  LET b == runs'[dirs'["B"]].records
               IN /\ DOMAIN drafts' = {Questions[split][i] : i \in 1..Len(Questions[split])}
                  /\ \A i \in 1..Len(Questions[split]) :
                       /\ drafts'[Questions[split][i]] = b[i].draft
                       /\ b[i].draft.text = b[i].answer
    <3>1. CASE r.arm = "B"
      <4>1. dirs'["B"] = r /\ drafts' = produced
        BY <2>1, <2>2, <3>1 DEF Put
      <4>2. runs'[r].records = runs[r].records
        BY <1>4, <2>2, FinishFacts
      <4>3. /\ DOMAIN produced = {Questions[split][i] : i \in 1..position}
            /\ \A i \in 1..position :
                 LET rec == runs[r].records[i]
                 IN produced[Questions[split][i]] = rec.draft /\ rec.answer = rec.draft.text
        BY <2>1, <2>2, <3>1 DEF Written
      <4>4. QED BY <2>1, <4>1, <4>2, <4>3
    <3>2. CASE r.arm # "B"
      <4>1. "B" \in DOMAIN dirs /\ dirs'["B"] = dirs["B"] /\ drafts' = drafts
        BY <2>1, <2>2, <2>5, <3>2 DEF Put
      <4>2. runs'[dirs["B"]] = runs[dirs["B"]]
        BY <1>a, <4>1
      <4>3. QED BY <4>1, <4>2 DEF Baseline
    <3>3. QED BY <3>1, <3>2
  <2>6. QED BY <2>1, <2>4, <2>5 DEF Baseline
<1>5. CASE Publish \/ Crash \/ RefuseArmD
  BY <1>5, Exits DEF Baseline
<1>6. CASE UNCHANGED <<runs, latest, proc>>
  BY <1>6, <1>b DEF proc
<1>7. QED BY <1>1, <1>2, <1>3, <1>4, <1>5, <1>6, Kinds

LEMMA NextPairedDirs ==
  /\ TypeOK /\ Written /\ Collected /\ Baseline /\ PairedDirs /\ [Next]_vars
  => PairedDirs'
<1> SUFFICES ASSUME TypeOK, Written, Collected, Baseline, PairedDirs, [Next]_vars,
                    "B" \in DOMAIN dirs', "D" \in DOMAIN dirs'
             PROVE  Paired(dirs["B"], dirs["D"])'
  BY DEF PairedDirs
<1>a. ASSUME UNCHANGED dirs PROVE Paired(dirs["B"], dirs["D"])'
  <2>1. \A a \in DOMAIN dirs : dirs[a] \in DOMAIN runs /\ runs[dirs[a]].summary.finished
    BY DEF Collected, TypeOK, Complete
  <2>2. /\ runs'[dirs["B"]] = runs[dirs["B"]]
        /\ runs'[dirs["D"]] = runs[dirs["D"]]
    BY <1>a, <2>1, FinishedIsFinal
  <2>3. Paired(dirs["B"], dirs["D"])
    BY <1>a DEF PairedDirs
  <2>4. QED BY <1>a, <2>2, <2>3 DEF Paired
<1>1. ASSUME NEW s, NEW arms, NEW e, NEW r, Start(s, arms, e, r)
      PROVE  Paired(dirs["B"], dirs["D"])'
  BY <1>1, <1>a, StartFacts
<1>2. CASE BeginArm
  BY <1>2, <1>a, BeginFacts
<1>3. ASSUME NEW text \in Texts, NEW served \in Texts, AnswerQuestion(text, served)
      PROVE  Paired(dirs["B"], dirs["D"])'
  BY <1>3, <1>a, AnswerFacts
<1>4. CASE FinishArm
  <2>1. /\ pc = "answering" /\ position = Len(Questions[split])
        /\ dirs' = Put(dirs, current.arm, current)
    BY <1>4, FinishFacts
  <2>2. PICK r \in DOMAIN runs : r = current
    BY <1>4, FinishFacts
  <2>3. r.arm \in todo /\ r.split = split
    BY <1>4, <2>2, FinishedIsComplete
  <2>4. CASE r.arm = "D"
    <3>1. "B" \in DOMAIN dirs /\ dirs'["B"] = dirs["B"] /\ dirs'["D"] = r
      BY <2>1, <2>2, <2>4 DEF Put
    <3>2. PICK b \in DOMAIN runs : b = dirs["B"]
      BY <3>1 DEF TypeOK
    <3>3. b.split = split /\ Complete(b) /\ runs[b].summary.finished
      BY <3>1, <3>2 DEF Collected, Complete
    <3>4. runs'[b] = runs[b] /\ runs[b].records \in Seq(Record) /\ runs[r].records \in Seq(Record)
      BY <3>3, FinishedIsFinal DEF TypeOK, Run
    <3>5. split \in Splits /\ Len(Questions[split]) \in Nat \ {0}
      BY QuestionsType DEF TypeOK
    <3>6. Len(runs[b].records) = Len(Questions[split])
      <4>1. DOMAIN runs[b].records = DOMAIN Questions[split]
        BY <3>3 DEF Complete
      <4>2. QED BY <3>4, <3>5, <4>1, QuestionsType
    <3>7. /\ DOMAIN drafts = {Questions[split][i] : i \in 1..Len(Questions[split])}
          /\ \A i \in 1..Len(Questions[split]) :
               /\ drafts[Questions[split][i]] = runs[b].records[i].draft
               /\ runs[b].records[i].draft.text = runs[b].records[i].answer
      BY <3>1, <3>2 DEF Baseline
    <3>8. /\ Len(runs[r].records) = position
          /\ \A i \in 1..position : Questions[split][i] \in DOMAIN drafts
               => runs[r].records[i].draft = drafts[Questions[split][i]]
      BY <2>1, <2>2, <2>4 DEF Written
    <3>9. /\ runs'[r].records = runs[r].records
          /\ drafts # Empty => runs'[r].summary.isolates
      BY <1>4, <2>2, <2>4, FinishFacts
    <3>10. drafts # Empty
      <4>1. 1 \in 1..Len(Questions[split])
        BY <3>5
      <4>2. Questions[split][1] \in DOMAIN drafts
        BY <3>7, <4>1
      <4>3. QED BY <4>2 DEF Empty
    <3>11. Paired(b, r)'
      <4>1. DOMAIN runs[r].records = 1..Len(Questions[split])
        BY <2>1, <3>4, <3>8
      <4>2. \A i \in DOMAIN runs[r].records :
              /\ runs[r].records[i].draft = runs[b].records[i].draft
              /\ runs[r].records[i].draft.text = runs[b].records[i].answer
        BY <2>1, <3>7, <3>8, <4>1
      <4>3. Len(runs[b].records) = Len(runs[r].records)
        BY <2>1, <3>6, <3>8
      <4>4. QED BY <3>4, <3>9, <3>10, <4>2, <4>3 DEF Paired
    <3>12. QED BY <3>1, <3>2, <3>11 DEF Paired
  <2>5. CASE r.arm # "D"
    <3>1. "D" \in DOMAIN dirs
      BY <2>1, <2>2, <2>5 DEF Put
    <3>2. r.arm # "B"
      BY <2>3, <3>1 DEF Baseline
    <3>3. "B" \in DOMAIN dirs /\ dirs'["B"] = dirs["B"] /\ dirs'["D"] = dirs["D"]
      BY <2>1, <2>2, <2>5, <3>2 DEF Put
    <3>4. PICK b \in DOMAIN runs, d \in DOMAIN runs : b = dirs["B"] /\ d = dirs["D"]
      BY <3>1, <3>3 DEF TypeOK
    <3>5. runs[b].summary.finished /\ runs[d].summary.finished /\ Paired(b, d)
      BY <3>1, <3>3, <3>4 DEF Collected, Complete, PairedDirs
    <3>6. runs'[b] = runs[b] /\ runs'[d] = runs[d]
      BY <3>5, FinishedIsFinal
    <3>7. Paired(b, d)'
      BY <3>5, <3>6 DEF Paired
    <3>8. QED BY <3>3, <3>4, <3>7 DEF Paired
  <2>6. QED BY <2>4, <2>5
<1>5. CASE Publish \/ Crash \/ RefuseArmD
  BY <1>5, Exits
<1>6. CASE UNCHANGED <<runs, latest, proc>>
  BY <1>6, <1>a DEF proc
<1>7. QED BY <1>1, <1>2, <1>3, <1>4, <1>5, <1>6, Kinds

LEMMA NextContrast ==
  /\ TypeOK /\ Written /\ Collected /\ PairedDirs
  /\ PublishedRunsAreComplete /\ PublishedContrastIsPaired /\ [Next]_vars
  => PublishedContrastIsPaired'
<1> SUFFICES ASSUME TypeOK, Written, Collected, PairedDirs,
                    PublishedRunsAreComplete, PublishedContrastIsPaired, [Next]_vars,
                    NEW s \in Splits, latest'[s] # TornIndex,
                    "B" \in DOMAIN latest'[s], "D" \in DOMAIN latest'[s]
             PROVE  Paired(latest[s]["B"], latest[s]["D"])'
  BY DEF PublishedContrastIsPaired, Published, Paired
<1>1. PICK b, d : b = latest'[s]["B"] /\ d = latest'[s]["D"]
  OBVIOUS
<1>2. /\ b \in DOMAIN runs /\ d \in DOMAIN runs /\ Paired(b, d)
      /\ runs[b].summary.finished /\ runs[d].summary.finished
  <2>1. CASE latest'[s] = latest[s]
    <3>1. Paired(b, d)
      BY <1>1, <2>1 DEF PublishedContrastIsPaired, Published, Paired
    <3>2. b \in DOMAIN runs /\ d \in DOMAIN runs
      BY <1>1, <2>1 DEF TypeOK
    <3>3. Complete(b) /\ Complete(d)
      BY <1>1, <2>1 DEF PublishedRunsAreComplete, Published, Arms
    <3>4. QED BY <3>1, <3>2, <3>3 DEF Complete
  <2>2. CASE latest'[s] = dirs
    BY <1>1, <2>2 DEF PairedDirs, Collected, TypeOK, Complete
  <2>3. QED BY <2>1, <2>2, LatestChanges
<1>3. runs'[b] = runs[b] /\ runs'[d] = runs[d]
  BY <1>2, FinishedIsFinal
<1>4. Paired(b, d)'
  BY <1>2, <1>3 DEF Paired
<1>5. QED BY <1>1, <1>4 DEF Paired

\* THEOREM: where an index publishes both B and D, every answer of D started from
\* the very draft B served, in whatever order the arms were asked for and
\* whatever changed or died in between (run_arms.py:371).
THEOREM ContrastIsPaired == Spec => []PublishedContrastIsPaired
<1>1. Init => PublishedContrastIsPaired /\ PublishedRunsAreComplete
  BY DEF Init, Empty, PublishedContrastIsPaired, PublishedRunsAreComplete, Published
<1>2. QED
  BY <1>1, InitInv, TypeCorrect, NextWritten, NextCollected, NextPublished, NextBaseline,
     NextPairedDirs, NextContrast, PTL DEF Spec

-----------------------------------------------------------------------------
(* A replayed contrast is paired                                           *)

\* What is read back of a run that nobody wrote to is what it was.
LEMMA ReadBackSame ==
  ASSUME NEW CONSTANT r, runs'[r] = runs[r]
  PROVE  /\ Answered(r)' = Answered(r)
         /\ \A q : LastRecord(r, q)' = LastRecord(r, q)
         /\ LoadedDrafts(r)' = LoadedDrafts(r)
BY DEF Answered, LastRecord, LoadedDrafts

\* A directory that exists is not begun again.
LEMMA BegunAfresh ==
  ASSUME TypeOK, [Next]_vars, pc' = "answering"
  PROVE  (pc = "answering" /\ current' = current) \/ current' \notin DOMAIN runs
<1> DEFINE Goal == (pc = "answering" /\ current' = current) \/ current' \notin DOMAIN runs
<1>1. CASE BeginArm
  BY <1>1, BeginFacts
<1>2. ASSUME NEW text \in Texts, NEW served \in Texts, AnswerQuestion(text, served) PROVE Goal
  BY <1>2, AnswerFacts
<1>3. CASE UNCHANGED <<runs, latest, proc>>
  BY <1>3 DEF proc
<1>4. ASSUME NEW s, NEW arms, NEW e, NEW r, Start(s, arms, e, r) PROVE FALSE
  BY <1>4, StartFacts
<1>5. CASE FinishArm
  BY <1>5, FinishFacts
<1>6. CASE Publish \/ Crash \/ RefuseArmD
  BY <1>6, Exits
<1>7. QED BY <1>1, <1>2, <1>3, <1>4, <1>5, <1>6, Kinds

LEMMA NextSourced ==
  TypeOK /\ Written /\ Collected /\ Sourced /\ [Next]_vars => Sourced'
<1> SUFFICES ASSUME TypeOK, Written, Collected, Sourced, [Next]_vars, source' # NoRun
             PROVE  Sourced'
  BY DEF Sourced
<1>a. ASSUME UNCHANGED <<source, drafts>>, "B" \notin todo', "B" \notin DOMAIN dirs'
      PROVE  Sourced'
  <2>1. PICK b \in DOMAIN runs : b = source
    BY <1>a DEF Sourced
  <2>2. (pc = "answering" => b # current) /\ drafts = LoadedDrafts(b)
    BY <1>a, <2>1 DEF Sourced
  <2>3. b \in DOMAIN runs' /\ runs'[b] = runs[b]
    BY <2>2, OnlyCurrentChanges
  <2>4. LoadedDrafts(b)' = LoadedDrafts(b)
    BY <2>3, ReadBackSame
  <2>5. pc' = "answering" => b # current'
    BY <2>1, <2>2, BegunAfresh
  <2>6. source' = b /\ drafts' = LoadedDrafts(b)'
    BY <1>a, <2>1, <2>2, <2>4
  <2>7. LoadedDrafts(source)' = LoadedDrafts(b)'
    BY <2>6 DEF LoadedDrafts, LastRecord, Answered
  <2>8. QED BY <1>a, <2>3, <2>5, <2>6, <2>7 DEF Sourced
<1>b. ASSUME UNCHANGED <<source, drafts, todo, dirs>> PROVE Sourced'
  BY <1>a, <1>b DEF Sourced
<1>1. ASSUME NEW s \in Splits, NEW arms \in ArmSets, NEW e \in BOOLEAN,
             NEW r \in DOMAIN runs \cup {NoRun}, Start(s, arms, e, r)
      PROVE  Sourced'
  <2>1. /\ pc = "idle" /\ pc' = "arms" /\ todo' = arms /\ source' = r /\ r \in DOMAIN runs
        /\ drafts' = LoadedDrafts(r) /\ "B" \notin arms /\ UNCHANGED <<runs, dirs>>
    BY <1>1, StartFacts
  <2>2. "B" \notin DOMAIN dirs'
    BY <2>1 DEF Collected
  <2>3. LoadedDrafts(source)' = LoadedDrafts(r)
    BY <2>1 DEF LoadedDrafts, LastRecord, Answered
  <2>4. QED BY <2>1, <2>2, <2>3 DEF Sourced
<1>2. CASE BeginArm
  BY <1>2, <1>b, BeginFacts
<1>3. ASSUME NEW text \in Texts, NEW served \in Texts, AnswerQuestion(text, served)
      PROVE  Sourced'
  BY <1>3, <1>b, AnswerFacts
<1>4. CASE FinishArm
  <2>1. /\ pc = "answering" /\ dirs' = Put(dirs, current.arm, current)
        /\ todo' = todo \ {current.arm} /\ source' = source
        /\ drafts' = IF current.arm = "B" THEN produced ELSE drafts
    BY <1>4, FinishFacts
  <2>2. PICK r \in DOMAIN runs : r = current
    BY <1>4, FinishFacts
  <2>3. r.arm \in todo
    BY <1>4, <2>2, FinishedIsComplete
  <2>4. "B" \notin todo /\ "B" \notin DOMAIN dirs
    BY <2>1 DEF Sourced
  <2>5. QED BY <1>a, <2>1, <2>2, <2>3, <2>4 DEF Put
<1>5. CASE Publish \/ Crash \/ RefuseArmD
  BY <1>5, Exits
<1>6. CASE UNCHANGED <<runs, latest, proc>>
  BY <1>6, <1>b DEF proc
<1>7. QED BY <1>1, <1>2, <1>3, <1>4, <1>5, <1>6, Kinds

\* A run that becomes finished is the one being written, at FinishArm.
LEMMA BecomesFinished ==
  ASSUME TypeOK, [Next]_vars, NEW d \in DOMAIN runs', runs'[d].summary.finished
  PROVE  \/ d \in DOMAIN runs /\ runs[d].summary.finished
         \/ FinishArm /\ d \in DOMAIN runs /\ d = current
<1> DEFINE Goal == \/ d \in DOMAIN runs /\ runs[d].summary.finished
                   \/ FinishArm /\ d \in DOMAIN runs /\ d = current
<1>1. CASE BeginArm
  <2> DEFINE name == [stamp |-> clock, arm |-> NextArm(todo), split |-> split]
  <2>1. /\ DOMAIN runs' = DOMAIN runs \cup {name}
        /\ \A r \in DOMAIN runs : runs'[r] = runs[r]
        /\ runs'[name] = [records |-> <<>>, torn |-> FALSE, summary |-> NoSummary]
    BY <1>1, BeginFacts
  <2> HIDE DEF name
  <2>2. ~runs'[name].summary.finished
    BY <2>1 DEF NoSummary
  <2>3. QED BY <2>1, <2>2
<1>2. ASSUME NEW text \in Texts, NEW served \in Texts, AnswerQuestion(text, served) PROVE Goal
  BY <1>2, AnswerFacts
<1>3. CASE FinishArm
  BY <1>3, FinishFacts
<1>4. CASE Crash
  BY <1>4, CrashFacts
<1>5. CASE UNCHANGED runs
  BY <1>5
<1>6. ASSUME NEW s, NEW arms, NEW e, NEW r, Start(s, arms, e, r) PROVE UNCHANGED runs
  BY <1>6, StartFacts
<1>7. QED BY <1>1, <1>2, <1>3, <1>4, <1>5, <1>6, Kinds, Exits

LEMMA NextFromTheSource ==
  TypeOK /\ Written /\ Sourced /\ FromTheSource /\ [Next]_vars => FromTheSource'
<1> SUFFICES ASSUME TypeOK, Written, Sourced, FromTheSource, [Next]_vars,
                    NEW d \in DOMAIN runs', runs'[d].summary.finished,
                    runs'[d].summary.replayedFrom # NoRun
             PROVE  Replays(d)'
  BY DEF FromTheSource
<1> DEFINE From(b, rec) == rec.question \in Answered(b) =>
             /\ rec.draft.text = LastRecord(b, rec.question).answer
             /\ rec.draft.index = LastRecord(b, rec.question).draft.index
<1>a. ASSUME NEW CONSTANT b \in DOMAIN runs, runs'[d].summary.replayedFrom = b,
             pc = "answering" => b # current,
             \A i \in DOMAIN runs'[d].records : From(b, runs'[d].records[i])
      PROVE  Replays(d)'
  <2>1. b \in DOMAIN runs' /\ runs'[b] = runs[b]
    BY <1>a, OnlyCurrentChanges
  <2>2. pc' = "answering" => b # current'
    BY <1>a, BegunAfresh
  <2>3. Answered(b)' = Answered(b) /\ \A q : LastRecord(b, q)' = LastRecord(b, q)
    BY <2>1, ReadBackSame
  <2>4. PICK recs : recs = runs'[d].records
    OBVIOUS
  <2>5. \A i \in DOMAIN recs : From(b, recs[i])'
    BY <1>a, <2>3, <2>4
  <2> HIDE DEF From
  <2>6. Replays(d)' <=> /\ b \in DOMAIN runs'
                        /\ pc' = "answering" => b # current'
                        /\ \A i \in DOMAIN recs : From(b, recs[i])'
    BY <1>a, <2>4 DEF Replays, From, Answered, LastRecord
  <2>7. QED BY <2>1, <2>2, <2>5, <2>6
<1>1. CASE d \in DOMAIN runs /\ runs[d].summary.finished
  <2>1. runs'[d] = runs[d]
    BY <1>1, FinishedIsFinal
  <2>2. Replays(d)
    BY <1>1, <2>1 DEF FromTheSource
  <2>3. PICK b \in DOMAIN runs : b = runs[d].summary.replayedFrom
    BY <2>2 DEF Replays
  <2>4. QED BY <1>a, <2>1, <2>2, <2>3 DEF Replays
<1>2. CASE FinishArm /\ d \in DOMAIN runs /\ d = current
  <2>1. /\ pc = "answering" /\ position = Len(Questions[split])
        /\ runs'[d].records = runs[d].records
        /\ d.arm = "D" /\ runs'[d].summary.replayedFrom = source /\ source # NoRun
    BY <1>2, FinishFacts
  <2>2. PICK b \in DOMAIN runs : b = source
    BY <2>1 DEF Sourced
  <2>3. b # current /\ drafts = LoadedDrafts(b)
    BY <2>1, <2>2 DEF Sourced
  <2>4. DOMAIN runs[d].records = 1..position
    <3>1. Len(runs[d].records) = position
      BY <1>2, <2>1 DEF Written
    <3>2. runs[d].records \in Seq(Record)
      BY <1>2 DEF TypeOK, Run
    <3>3. QED BY <3>1, <3>2
  <2>5. ASSUME NEW i \in DOMAIN runs[d].records
        PROVE  From(b, runs[d].records[i])
    <3> DEFINE rec == runs[d].records[i]
               q == Questions[split][i]
    <3>1. rec.question = q /\ (q \in DOMAIN drafts => rec.draft = drafts[q])
      BY <1>2, <2>1, <2>4 DEF Written
    <3>2. /\ DOMAIN LoadedDrafts(b) = Answered(b)
          /\ q \in Answered(b) =>
               /\ LoadedDrafts(b)[q].text = LastRecord(b, q).answer
               /\ LoadedDrafts(b)[q].index = LastRecord(b, q).draft.index
      BY LoadedType
    <3> HIDE DEF rec, q
    <3>3. From(b, rec)
      BY <2>3, <3>1, <3>2
    <3>4. QED BY <3>3 DEF rec
  <2>6. \A i \in DOMAIN runs'[d].records : From(b, runs'[d].records[i])
    BY <2>1, <2>5
  <2>7. QED BY <1>a, <2>1, <2>2, <2>3, <2>6
<1>3. QED BY <1>1, <1>2, BecomesFinished

LEMMA SourceIsPaired == FromTheSource => ReplayedContrastIsPaired
<1> SUFFICES ASSUME FromTheSource, NEW d \in DOMAIN runs,
                    runs[d].summary.finished, ContrastComputed(d),
                    NEW i \in DOMAIN runs[d].records
             PROVE  LET rec == runs[d].records[i]
                        b == LastRecord(runs[d].summary.replayedFrom, rec.question)
                    IN rec.draft.text = b.answer /\ rec.draft.index = b.draft.index
  BY DEF ReplayedContrastIsPaired
<1>1. Replays(d) /\ Answered(runs[d].summary.replayedFrom) = Answered(d)
  BY DEF FromTheSource, ContrastComputed
<1>2. runs[d].records[i].question \in Answered(d)
  BY DEF Answered
<1>3. QED BY <1>1, <1>2 DEF Replays

\* THEOREM: whenever the summary compares a replayed Arm D with the Arm B run it
\* names, D started from that run's answers, whatever became of that run
\* (summarise_arms.py:75).
THEOREM ReplayIsPaired == Spec => []ReplayedContrastIsPaired
<1>1. QED
  BY InitInv, TypeCorrect, NextWritten, NextCollected, NextSourced, NextFromTheSource,
     SourceIsPaired, PTL DEF Spec

=============================================================================
