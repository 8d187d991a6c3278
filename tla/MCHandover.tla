----------------------------- MODULE MCHandover -----------------------------
(***************************************************************************)
(* A pack for Handover, in the order of its archive: every file but         *)
(* payload.bin.                                                            *)
(***************************************************************************)
EXTENDS Handover

MCPack == <<"package3", "reboot", "stratosphere", "update", "nro">>
=============================================================================
