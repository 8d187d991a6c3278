------------------------------- MODULE Downgrade -------------------------------
(***************************************************************************)
(* The installation of a firmware and the batch of ams_rcm put together.   *)
(* When the application installs a firmware below 21.0.0 over a later one  *)
(* it leaves a marker; ams_rcm, started by the reboot that follows, deletes *)
(* the save the older firmware cannot read.  Between the two the power can *)
(* be cut, and either can fail in any of its steps.                        *)
(***************************************************************************)
EXTENDS FirmwareInstall, AutoActions

CONSTANT
  UserMarkers  \* the markers the user puts on the card, a subset of MarkerFiles

VARIABLES
  lost,    \* history: NANDs whose marker was never written or was consumed in vain
  trouble  \* history: something failed, was refused or was chosen otherwise

vars == <<console, app, batch, lost, trouble>>

FixMarkers == {"fix_dg_sysnand", "fix_dg_emunand"}

\* The table has both markers of the downgrade, each for its kind of NAND.
ASSUME FixIsInTable ==
  \A m \in FixMarkers : \E i \in Rows :
    AutoTable[i] = [file |-> m, func |-> "fix_downgrade", emunand |-> m = "fix_dg_emunand"]

\* The functions and the NAND of a marker do not depend on the row it is in.
ASSUME FilesAreDistinct == \A i, j \in Rows : AutoTable[i].file = AutoTable[j].file => i = j

ASSUME UserMarkersAreFiles == UserMarkers \subseteq MarkerFiles

TypeOK ==
  /\ ConsoleTypeOK(MarkerFiles)
  /\ AppTypeOK
  /\ BatchTypeOK
  /\ lost \subseteq Nands
  /\ trouble \in BOOLEAN

Init ==
  /\ ConsoleInit
  /\ AppInit
  /\ BatchInit
  /\ lost = {}
  /\ trouble = FALSE

-----------------------------------------------------------------------------
\* The steps that do what they should.  A firmware applied without having been
\* described is one nobody was asked about: its NAND counts as lost.
AppWorks ==
  /\ prog = "hos"
  /\ InstallStep \/ UserStep
  /\ lost' = IF Apply /\ info # image THEN lost \cup {here} ELSE lost
  /\ UNCHANGED <<batch, trouble>>

MarkerNotWritten ==
  /\ prog = "hos"
  /\ WriteMarkerFails
  /\ lost' = lost \cup {here}
  /\ trouble' = TRUE
  /\ UNCHANGED batch

\* A marker of the emuNANDs is consumed by the one that is selected.
BatchWorks ==
  /\ prog = "rcm"
  /\ BatchStep
  /\ lost' = IF Unlink /\ Row.file = "fix_dg_emunand" THEN lost \cup (EmuNands \ {selected})
             ELSE lost
  /\ trouble' = (trouble \/ (Select /\ here \in EmuNands /\ selected' # here))
  /\ UNCHANGED app

\* The payload lacks keys, a NAND or the card, or its function fails.
BatchHampered ==
  /\ prog = "rcm"
  /\ \/ StartHampered /\ lost' = lost
     \/ RunFails /\ lost' = lost \cup {RowNand}
     \/ UnlinkFails /\ lost' = lost
  /\ trouble' = TRUE
  /\ UNCHANGED app

Boots ==
  /\ BootSystem
  /\ UNCHANGED <<app, batch, lost, trouble>>

-----------------------------------------------------------------------------
\* What happens when the user pleases: markers of his own, ams_rcm started by
\* hand or left, and the power cut at any time.
UserMarks ==
  /\ prog = "hos" /\ at = "closed"
  /\ \E m \in UserMarkers \ marker : marker' = marker \cup {m}
  /\ UNCHANGED <<system, save, flag, prog, here, app, batch, lost, trouble>>

StartsRcm ==
  /\ prog = "off"
  /\ prog' = "rcm"
  /\ UNCHANGED <<system, save, marker, flag, here, app, batch, lost, trouble>>

LeavesMenu ==
  /\ prog = "rcm"
  /\ MenuReboot
  /\ UNCHANGED <<app, lost, trouble>>

PowerCut ==
  /\ prog # "off"
  /\ Closed /\ BatchOff
  /\ prog' = "off"
  /\ lost' = IF at = "marker" THEN lost \cup {here} ELSE lost
  /\ trouble' = TRUE
  /\ UNCHANGED <<system, save, marker, flag, here>>

Next ==
  \/ AppWorks \/ MarkerNotWritten
  \/ BatchWorks \/ BatchHampered
  \/ Boots
  \/ UserMarks \/ StartsRcm \/ LeavesMenu
  \/ PowerCut

Spec == Init /\ [][Next]_vars

\* With several emuNANDs ams_rcm asks for one before anything else (tools.c:221).
Choosing == prog = "rcm" /\ rcm = "off" /\ Cardinality(EmuNands) > 1

\* The programs run on by themselves: the services answer and the user answers
\* the questions of the installation, but a choice or a menu of ams_rcm may stay.
FairSpec ==
  /\ Spec
  /\ WF_vars(AppWorks /\ InstallStep)
  /\ WF_vars(BatchWorks /\ ~Choosing)

-----------------------------------------------------------------------------
\* A firmware is installed only if it is the one that was validated, was valid,
\* and is not known to be too new, however many calls came before; with the
\* exFAT driver only if that part was valid too (daybreak-cli.cpp:493-500, the
\* globals of lines 40-73).
InstallsWhatWasValidated ==
  at \in Installing =>
    /\ judged = image
    /\ image.valid
    /\ ~(knows_supported /\ image.exfat = "newer")
    /\ use_exfat => image.exfat = "good"

\* A firmware below 21.0.0 over the save of a later one is always accounted
\* for: the installation is about to write the marker, or the marker waits on
\* the card, or the NAND is one whose marker could not do its work: cut off, not
\* written, consumed by another emuNAND or by a function that failed
\* (daybreak-cli.cpp:624-632, main.c:91-149).
DowngradeTracked ==
  \A n \in Nands : Mismatch(n) =>
    \/ at = "marker" /\ need_clean /\ n = here
    \/ FixMarker(n) \in marker
    \/ n \in lost

\* If nothing fails, is cut off or is chosen otherwise, the downgraded system
\* is never started on the save it cannot read (daybreak-cli.cpp:624; the
\* question of romfs/lng/en-GB.ini:203 promises the deletion "after the
\* console's reboot").
CleanWhenStarted ==
  prog = "hos" /\ at = "menu" /\ Mismatch(here) => trouble \/ here \in lost

\* The menu of ams_rcm is displayed only when no marker is there, or none could
\* be looked for (main.c:909; amssu-rcm/README.md:16: "in this case the menu
\* will not display").
MenuMeansNothingAsked == rcm = "menu" /\ keys => marker = {}

\* A downgrade ends with the save deleted, unless something failed or was chosen
\* otherwise, or ams_rcm waits for ever for the user to choose an emuNAND: from
\* that choice on it goes by itself (main.c:902, 806-820; daybreak-cli.cpp:624).
DowngradeIsCleaned ==
  (Mismatch(here) /\ here \notin lost) ~> (~Mismatch(here) \/ trouble \/ []Choosing)

\* A downgrade the user has refused is not installed (daybreak-cli.cpp:224; the
\* question of romfs/lng/en-GB.ini:203: "Do you realy want to do the
\* downgrade?").
RefusalIsRespected == at \in Installing => ~(need_clean /\ ~ask_dg)
================================================================================
