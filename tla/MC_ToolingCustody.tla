------------------------- MODULE MC_ToolingCustody -------------------------
(* One command with one child of its target; two planners, each with a bundle *)
(* of two leaves; publishers of deliveries of one leaf; three installations of *)
(* a payload and a wrapper; a plan that removes two files and the directory  *)
(* that held them, with two commands; three owners that want one port block. *)
EXTENDS ToolingCustody

FilesAndDirectory == <<"file", "other", "dir">>
PlanDirectories == {"dir"}
PayloadAndWrapper == {"payload", "wrapper"}
=============================================================================
