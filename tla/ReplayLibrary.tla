--------------------------- MODULE ReplayLibrary ---------------------------
(***************************************************************************)
(* demo/replay.py: load_replay_library joins the frozen runs, one after    *)
(* the other, into a grid of questions by arms, or refuses.  A refusal is  *)
(* ReplayUnavailable or KeyError, which DashboardState catches; an         *)
(* exception it does not catch ends the program.  What a question is       *)
(* called, asks, and belongs to is one identity; wording is left out.      *)
(***************************************************************************)
EXTENDS Authenticity, Sequences

CONSTANTS
  Arms,        \* ARMS, the columns of the grid
  RunNames,    \* FROZEN_QUALITY_RUNS, the directories in the order read
  HashFields,  \* AGREEING_PROVENANCE
  Expected     \* TEST_QUESTIONS

VARIABLES
  dirs,     \* run name -> its directory on disk
  table,    \* FROZEN_RUN_DIGESTS: run name -> the recorded content
  pos,      \* how many of the runs have been admitted
  merged,   \* question -> [identity, by_arm]
  runs,     \* arm -> its manifest (provenance.runs and manifests)
  outcome   \* "loading", "ready", "unavailable" or "raised"

loaded == <<pos, merged, runs>>
replayVars == <<dirs, table, loaded, outcome>>

Empty == [x \in {} |-> x]

ReplayInit ==
  /\ pos = 0
  /\ merged = Empty
  /\ runs = Empty
  /\ outcome = "loading"

Name == RunNames[pos + 1]
Dir == dirs[Name]
Arm == Dir.manifest.arm
Positions(records) == DOMAIN records

\* The checks of one manifest.
ManifestRefused(name, m) ==
  \/ m.split # "test"
  \/ m.purpose # Absent
  \/ m.run_id \notin {Absent, name}
  \/ m.arm = Absent                        \* KeyError
  \/ m.arm \in DOMAIN runs
  \/ \E f \in HashFields : m.hashes[f] = Absent
  \/ m.declared \notin Nat

\* The checks of its records.
RecordsRefused(arm, records) ==
  \/ \E i \in Positions(records) : records[i].arm # arm
  \/ \E i, j \in Positions(records) :
       i # j /\ records[i].question_id = records[j].question_id
  \/ \E i \in Positions(records) :
       /\ records[i].question_id \in DOMAIN merged
       /\ merged[records[i].question_id].identity # records[i].identity

Accepted ==
  /\ Admitted(Name, Dir, table)
  /\ ~ManifestRefused(Name, Dir.manifest)
  /\ ~RecordsRefused(Arm, Dir.answers)

\* merged with the records of one run put in the column of its arm.
Joined(arm, records) ==
  LET asked == {records[i].question_id : i \in Positions(records)}
      Of(q) == CHOOSE r \in {records[i] : i \in Positions(records)} : r.question_id = q
  IN [q \in DOMAIN merged \cup asked |->
        IF q \notin asked THEN merged[q]
        ELSE LET before == IF q \in DOMAIN merged THEN merged[q].by_arm ELSE Empty
             IN [identity |-> IF q \in DOMAIN merged THEN merged[q].identity
                              ELSE Of(q).identity,
                 by_arm |-> [a \in DOMAIN before \cup {arm} |->
                               IF a = arm THEN Of(q) ELSE before[a]]]]

\* The directories are not read again; a refusal leaves nothing behind.
Refuse(result) ==
  /\ outcome' = result
  /\ pos' = 0 /\ merged' = Empty /\ runs' = Empty
  /\ dirs' = Empty /\ table' = Empty

Loading == outcome = "loading" /\ pos < Len(RunNames)

AdmitRun ==
  /\ Loading
  /\ ~Raises(Dir)
  /\ Accepted
  /\ merged' = Joined(Arm, Dir.answers)
  /\ runs' = [a \in DOMAIN runs \cup {Arm} |-> IF a = Arm THEN Dir.manifest ELSE runs[a]]
  /\ pos' = pos + 1
  /\ UNCHANGED <<dirs, table, outcome>>

RefuseRun == Loading /\ ~Raises(Dir) /\ ~Accepted /\ Refuse("unavailable")

RaiseOnRun == Loading /\ Raises(Dir) /\ Refuse("raised")

\* A plausible bug: a question some arm answered is shown.
AnsweredBySome == \A q \in DOMAIN merged : DOMAIN merged[q].by_arm # {}

AnsweredByAll == \A q \in DOMAIN merged : DOMAIN merged[q].by_arm = DOMAIN runs

\* The checks over all runs.
GridIsWhole ==
  /\ DOMAIN merged # {}
  /\ DOMAIN runs = Arms
  /\ AnsweredByAll
  /\ \A a \in Arms : runs[a].declared = Cardinality(DOMAIN merged)
  /\ Cardinality(DOMAIN merged) = Expected
  /\ \A f \in HashFields, a, b \in Arms : runs[a].hashes[f] = runs[b].hashes[f]

FinishLoading ==
  /\ outcome = "loading"
  /\ pos = Len(RunNames)
  /\ \/ GridIsWhole /\ outcome' = "ready" /\ dirs' = Empty /\ UNCHANGED <<loaded, table>>
     \/ ~GridIsWhole /\ Refuse("unavailable")

LoadStep == AdmitRun \/ RefuseRun \/ RaiseOnRun \/ FinishLoading

-----------------------------------------------------------------------------
(* Whatever the recorded digests are of, a grid that is shown has Expected *)
(* questions, each answered once by every arm, in that arm's column, by a  *)
(* run that was asked the same question (load_replay_library).             *)
GridIsPaired ==
  outcome = "ready" =>
    /\ Cardinality(DOMAIN merged) = Expected
    /\ \A q \in DOMAIN merged :
         /\ DOMAIN merged[q].by_arm = Arms
         /\ \A a \in Arms :
              /\ merged[q].by_arm[a].arm = a
              /\ merged[q].by_arm[a].question_id = q
              /\ merged[q].by_arm[a].identity = merged[q].identity

(* What is shown is the recorded content: every run behind the grid is a   *)
(* frozen one, its manifest and answers are as recorded, it was on the     *)
(* test split, and all of them were over the same material.                *)
GridIsFrozen ==
  outcome = "ready" =>
    \A a \in Arms :
      /\ runs[a].split = "test" /\ runs[a].purpose = Absent
      /\ \A f \in HashFields, b \in Arms : runs[a].hashes[f] = runs[b].hashes[f]
      /\ \E n \in DOMAIN table :
           /\ table[n].manifest = runs[a]
           /\ \A q \in DOMAIN merged :
                \E i \in Positions(table[n].answers) :
                  table[n].answers[i] = merged[q].by_arm[a]
=============================================================================
