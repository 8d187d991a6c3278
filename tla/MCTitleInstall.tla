---------------------------- MODULE MCTitleInstall -----------------------------
(* TitleInstall for TLC: the packages for the two firmware families, with a   *)
(* content in common.                                                         *)
EXTENDS TitleInstall

MCPackages == {"old_fw", "new_fw"}
MCMeta == [q \in MCPackages |-> IF q = "old_fw" THEN "meta1" ELSE "meta2"]
MCParts == [q \in MCPackages |->
  IF q = "old_fw" THEN <<"program1", "control">> ELSE <<"control">>]
================================================================================
