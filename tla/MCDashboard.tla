---------------------------- MODULE MCDashboard ----------------------------
(* Two requests against a dashboard over the runs of three arms, two of    *)
(* which may have any defect the loader looks for, recorded or not.  The   *)
(* world starts at its best and changes at will.                           *)
EXTENDS Dashboard

Names == <<"A", "B", "D">>

Good(arm) ==
  [answers |-> <<[question_id |-> "q1", identity |-> 1, arm |-> arm],
                 [question_id |-> "q2", identity |-> 2, arm |-> arm]>>,
   manifest |-> [split |-> "test", purpose |-> Absent, run_id |-> arm, arm |-> arm,
                 hashes |-> [f \in HashFields |-> 1], declared |-> 2],
   summary |-> "summary"]

\* A run of an arm is named after it.
Defective(arm) ==
  LET g == Good(arm)
  IN {[g EXCEPT !.manifest.split = "dev"],
      [g EXCEPT !.manifest.purpose = "performance"],
      [g EXCEPT !.manifest.run_id = "renamed"],
      [g EXCEPT !.manifest.arm = Absent],
      [g EXCEPT !.manifest.arm = "A"],
      [g EXCEPT !.manifest.declared = 1],
      [g EXCEPT !.manifest.declared = Absent],
      [g EXCEPT !.answers[1].identity = 2],
      [g EXCEPT !.answers[1].arm = "B"],
      [g EXCEPT !.answers[2].question_id = "q1"],
      [g EXCEPT !.answers = <<g.answers[1]>>],
      [g EXCEPT !.answers = <<>>]}
     \cup {[g EXCEPT !.manifest.hashes[f] = h] : f \in HashFields, h \in {2, Absent}}

\* Not as recorded, or not readable.
Damaged(arm) ==
  {[Good(arm) EXCEPT !.manifest.run_id = Absent]}
    \cup {[Good(arm) EXCEPT !.answers = x] : x \in {Absent, Torn, Garbled}}
    \cup {[Good(arm) EXCEPT !.manifest = x] : x \in {Absent, Torn, Garbled}}
    \cup {[Good(arm) EXCEPT !.summary = x] : x \in {Absent, Torn, Garbled}}

Directories(arm) == {Good(arm)} \cup Defective(arm) \cup Damaged(arm)

\* What was recorded is a run that was read once: good, or consistently odd.
Recorded(arm) == {Good(arm)} \cup Defective(arm)

AllGood == [a \in Arms |-> Good(a)]

\* At most two directories are odd, and a record is good or of what is there.
MCInit ==
  /\ Init
  /\ index = "frozen" /\ model_ready
  /\ \E a, b \in Arms : \E x \in Directories(a), y \in Directories(b) :
       dirs = [AllGood EXCEPT ![a] = x, ![b] = y]
  /\ \E odd \in SUBSET {a \in Arms : dirs[a] \in Recorded(a)} :
       table = [a \in Arms |-> IF a \in odd THEN dirs[a] ELSE Good(a)]

MCSpec == MCInit /\ [][Next]_vars /\ Fairness
=============================================================================
