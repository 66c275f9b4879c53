---------------------------- MODULE MCPreflight ----------------------------
(* Preflight of the three models config.json names.                        *)
EXTENDS Preflight

AllModels == {"generation", "verification", "embedding"}
AllStages == <<"generation", "verification", "embedding">>
=============================================================================
