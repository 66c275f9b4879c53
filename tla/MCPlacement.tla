---------------------------- MODULE MCPlacement ----------------------------
(* A performance run over the three models config.json names.              *)
EXTENDS Placement

AllModels == {"generation", "verification", "embedding"}
=============================================================================
