------------------------------ MODULE AutoActions ------------------------------
(***************************************************************************)
(* The batch of ams_rcm: files of sd:/LockSmith-RCM ask for functions on   *)
(* one of the NANDs, which are run in the order of a table before the      *)
(* payload reboots (amssu-rcm/source/main.c).                              *)
(*                                                                         *)
(* A start of the payload selects one emuNAND, tries its keys on the NANDs *)
(* and runs the functions whose NAND it can read; it shows its menu only   *)
(* when nothing was asked.  The promotion of staged files that the flag    *)
(* also asks for is module Handover.                                       *)
(***************************************************************************)
EXTENDS Console, Integers, Sequences

CONSTANT
  AutoTable  \* auto_actions: the marker, the function, whether on the emuNAND

VARIABLES
  rcm,       \* where ams_rcm is
  idx,       \* the row of the table
  keys,      \* keys_derived, and the card is mounted
  available, \* sysmmc_available and emummc_available
  selected,  \* the emuNAND that was applied
  called,    \* called_from_config_files
  from_aio   \* called_from_AIO_LS_Pack_Updater

batch == <<rcm, idx, keys, available, selected, called, from_aio>>

-----------------------------------------------------------------------------
Functions == {"fix_downgrade", "wip_nand", "other"}

ASSUME TableIsTyped ==
  AutoTable \in Seq([file : STRING, func : Functions, emunand : BOOLEAN])

Rows == 1..Len(AutoTable)
Row == AutoTable[idx]
MarkerFiles == {AutoTable[i].file : i \in Rows}

RcmAt == {"off", "start", "batch", "run", "unlink", "end", "menu"}

BatchTypeOK ==
  /\ rcm \in RcmAt
  /\ idx \in 1..(Len(AutoTable) + 1)
  /\ keys \in BOOLEAN
  /\ available \subseteq {"sys", "emu"}
  /\ selected \in EmuNands \cup {NoNand}
  /\ called \in BOOLEAN
  /\ from_aio \in BOOLEAN

BatchOff ==
  /\ rcm' = "off"
  /\ idx' = 1
  /\ keys' = FALSE
  /\ available' = {}
  /\ selected' = NoNand
  /\ called' = FALSE
  /\ from_aio' = FALSE

BatchInit ==
  /\ rcm = "off"
  /\ idx = 1
  /\ keys = FALSE
  /\ available = {}
  /\ selected = NoNand
  /\ called = FALSE
  /\ from_aio = FALSE

-----------------------------------------------------------------------------
\* ipl_main and select_and_apply_emunand: the only emuNAND, or the user's
\* choice of several.
Select ==
  /\ prog = "rcm" /\ rcm = "off"
  /\ rcm' = "start"
  /\ selected' \in (IF EmuNands = {} THEN {NoNand} ELSE EmuNands)
  /\ UNCHANGED <<idx, keys, available, called, from_aio, console>>

\* init_payload and init_and_verify_bis_keys: the keys, of the file or of the
\* console, open some of the NANDs.  No card, no keys or no NAND: no batch.
StartBatch(k, a) ==
  /\ rcm = "start"
  /\ rcm' = IF k THEN "batch" ELSE "end"
  /\ keys' = k
  /\ available' = a
  /\ from_aio' = flag
  /\ flag' = FALSE
  /\ UNCHANGED <<idx, selected, called, system, save, marker, prog, here>>

NandsExpected == {"sys"} \cup (IF selected = NoNand THEN {} ELSE {"emu"})

Start == StartBatch(TRUE, NandsExpected)

StartHampered ==
  \/ \E a \in SUBSET NandsExpected : a # {} /\ a # NandsExpected /\ StartBatch(TRUE, a)
  \/ StartBatch(FALSE, {})

-----------------------------------------------------------------------------
\* run_auto_action, for the row idx.
RowNand == IF Row.emunand THEN selected ELSE SysNand
RowAvailable == (IF Row.emunand THEN "emu" ELSE "sys") \in available

\* Mutant of RowNandMissing: the marker of a NAND that cannot be read goes too.
RowNandMissingForgets ==
  /\ rcm = "batch" /\ idx \in Rows
  /\ Row.file \in marker /\ ~RowAvailable
  /\ called' = TRUE
  /\ idx' = idx + 1
  /\ marker' = marker \ {Row.file}
  /\ UNCHANGED <<rcm, keys, available, selected, from_aio, system, save, flag, prog, here>>

\* The marker stays, and the batch counts as called for.
RowNandMissing ==
  /\ rcm = "batch" /\ idx \in Rows
  /\ Row.file \in marker /\ ~RowAvailable
  /\ called' = TRUE
  /\ idx' = idx + 1
  /\ UNCHANGED <<rcm, keys, available, selected, from_aio, console>>

RowAbsent ==
  /\ rcm = "batch" /\ idx \in Rows
  /\ Row.file \notin marker
  /\ idx' = idx + 1
  /\ UNCHANGED <<rcm, keys, available, selected, called, from_aio, console>>

RowFound ==
  /\ rcm = "batch" /\ idx \in Rows
  /\ Row.file \in marker /\ RowAvailable
  /\ rcm' = "run"
  /\ called' = TRUE
  /\ UNCHANGED <<idx, keys, available, selected, from_aio, console>>

\* a->func(): fix_downgrade deletes one save, wip_nand every save, the others
\* no save that matters here.
Runs ==
  /\ rcm = "run"
  /\ rcm' = "unlink"
  /\ save' = IF Row.func = "other" THEN save ELSE [save EXCEPT ![RowNand] = "none"]
  /\ UNCHANGED <<idx, keys, available, selected, called, from_aio, system, marker, flag, prog,
                 here>>

\* A function reports no failure to run_auto_action.
RunFails ==
  /\ rcm = "run"
  /\ rcm' = "unlink"
  /\ UNCHANGED <<idx, keys, available, selected, called, from_aio, console>>

\* Mutant of Unlink: the row is counted twice.
UnlinkCountsTwice ==
  /\ rcm = "unlink"
  /\ rcm' = "batch"
  /\ idx' = idx + 2
  /\ marker' = marker \ {Row.file}
  /\ UNCHANGED <<keys, available, selected, called, from_aio, system, save, flag, prog, here>>

Unlink ==
  /\ rcm = "unlink"
  /\ rcm' = "batch"
  /\ idx' = idx + 1
  /\ marker' = marker \ {Row.file}
  /\ UNCHANGED <<keys, available, selected, called, from_aio, system, save, flag, prog, here>>

\* The result of f_unlink is ignored.
UnlinkFails ==
  /\ rcm = "unlink"
  /\ rcm' = "batch"
  /\ idx' = idx + 1
  /\ UNCHANGED <<keys, available, selected, called, from_aio, console>>

\* The end of the table, and the key that shows the log.
EndBatch ==
  /\ rcm = "batch" /\ idx \notin Rows
  /\ rcm' = "end"
  /\ UNCHANGED <<idx, keys, available, selected, called, from_aio, console>>

\* auto_reboot leaves ams_rcm for a payload or a power cycle.
AutoReboot ==
  /\ rcm = "end" /\ (called \/ from_aio)
  /\ BatchOff
  /\ prog' = "off"
  /\ UNCHANGED <<system, save, marker, flag, here>>

ShowMenu ==
  /\ rcm = "end" /\ ~called /\ ~from_aio
  /\ rcm' = "menu"
  /\ UNCHANGED <<idx, keys, available, selected, called, from_aio, console>>

\* The user reboots from the menu.
MenuReboot ==
  /\ rcm = "menu"
  /\ BatchOff
  /\ prog' = "off"
  /\ UNCHANGED <<system, save, marker, flag, here>>

\* What the payload does by itself, and the choices and keys it waits for.
BatchStep ==
  \/ Select \/ Start \/ RowNandMissing \/ RowAbsent \/ RowFound
  \/ Runs \/ Unlink \/ EndBatch \/ AutoReboot \/ ShowMenu

================================================================================
