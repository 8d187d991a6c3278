------------------------------ MODULE MCDowngrade ------------------------------
(* Downgrade for TLC: three firmwares that differ in what the installation looks at,
   two rows of the table that concern it, and one of them asked
   for by the user. *)
EXTENDS Downgrade, TLC

MCImages ==
  {[generation |-> "old", valid |-> TRUE,  exfat |-> "good"],
   [generation |-> "new", valid |-> TRUE,  exfat |-> "newer"],
   [generation |-> "new", valid |-> FALSE, exfat |-> "none"]}

MCTable ==
  <<[file |-> "fix_dg_sysnand", func |-> "fix_downgrade", emunand |-> FALSE],
    [file |-> "fix_dg_emunand", func |-> "fix_downgrade", emunand |-> TRUE]>>

MCUserMarkers == {"fix_dg_sysnand"}
================================================================================
