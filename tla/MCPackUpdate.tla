---------------------------- MODULE MCPackUpdate ----------------------------
(***************************************************************************)
(* The failures PackUpdate is checked with.                                *)
(***************************************************************************)
EXTENDS PackUpdate

MCFaults == {"internet", "download", "published", "fetch", "digest", "unzip",
             "short", "battery", "space", "old_app"}
=============================================================================
