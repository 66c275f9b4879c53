------------------------------ MODULE MCArmRun ------------------------------
(* Small instances of ArmRun.                                               *)
EXTENDS ArmRun

BothSplits == {"dev", "test"}
DevOnly == {"dev"}

TwoSplits == [s \in BothSplits |-> IF s = "dev" THEN <<"q1", "q2">> ELSE <<"q3">>]
TwoQuestions == [s \in DevOnly |-> <<"q1", "q2">>]

PairSets == {{"B", "D"}, {"B"}, {"D"}}
MixedSets == {{"A", "D"}, {"B", "D"}, {"D"}}
=============================================================================
