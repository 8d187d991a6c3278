-------------------------------- MODULE Console --------------------------------
(***************************************************************************)
(* What the application and ams_rcm share when a firmware is installed:    *)
(* the NANDs of the console, the marker files on the SD card, and which of *)
(* the programs runs.  The two communicate by nothing else.                *)
(*                                                                         *)
(* Firmware 21.0.0 changed the format of the save 8000000000000073; a      *)
(* lower firmware must not be started on a save the newer one has written. *)
(***************************************************************************)
EXTENDS FiniteSets

CONSTANTS
  SysNand,  \* the NAND of the console
  EmuNands, \* the emuNANDs on the SD card
  NoNand    \* none is selected

VARIABLES
  system,  \* the firmware of each NAND: "new" is 21.0.0 or later
  save,    \* who has written its save 8000000000000073
  marker,  \* the files of sd:/LockSmith-RCM that ask for a function
  flag,    \* called_via_AIO_LS_pack_Updater exists
  prog,    \* the program that runs
  here     \* the NAND the running or last system was started from

console == <<system, save, marker, flag, prog, here>>

Nands == {SysNand} \cup EmuNands

ASSUME NandsAreDistinct == SysNand \notin EmuNands /\ NoNand \notin Nands

Generations == {"old", "new"}

ConsoleTypeOK(files) ==
  /\ system \in [Nands -> Generations]
  /\ save \in [Nands -> Generations \cup {"none"}]
  /\ marker \subseteq files
  /\ flag \in BOOLEAN
  /\ prog \in {"off", "hos", "rcm"}
  /\ here \in Nands

\* Any mixture of firmwares, each with the save it has written itself.
ConsoleInit ==
  /\ system \in [Nands -> Generations]
  /\ save = system
  /\ marker = {}
  /\ flag = FALSE
  /\ prog = "hos"
  /\ here \in Nands

\* A firmware below 21.0.0 over the save of a later one.
Mismatch(n) == system[n] = "old" /\ save[n] = "new"

\* The console starts the system of a NAND, which creates the save it misses;
\* a later firmware converts the save of an earlier one.
BootSystem ==
  /\ prog = "off"
  /\ \E n \in Nands :
       /\ here' = n
       /\ save' = [save EXCEPT ![n] =
                     IF system[n] = "new" THEN "new" ELSE IF @ = "none" THEN "old" ELSE @]
  /\ prog' = "hos"
  /\ UNCHANGED <<system, marker, flag>>
================================================================================
