----------------------------- MODULE MCSelfUpdate ------------------------------
(***************************************************************************)
(* SelfUpdate for TLC: four versions, of one and of two numbers, and the    *)
(* first lines "404: Not Found", "<!DOCTYPE html>" and an empty one.        *)
(***************************************************************************)
EXTENDS SelfUpdate

MCVersions == {<<2>>, <<2, 1>>, <<1, 9>>, <<10>>}
MCPages == {<<404>>, <<0>>, << >>}
================================================================================
