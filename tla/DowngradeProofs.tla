---------------------------- MODULE DowngradeProofs ----------------------------
(***************************************************************************)
(* Proofs of the safety properties of Downgrade, for any firmwares, any    *)
(* emuNANDs, any table with the two markers and any number of calls.       *)
(***************************************************************************)
EXTENDS Downgrade, TLAPS

-----------------------------------------------------------------------------
\* What one process of the application knows.  A validation that passed and did
\* not lead to an installation was refused as too new, and still is: that is
\* why no later call installs another firmware on the strength of it.
AppInv ==
  /\ at = "closed" => judged = NoImage /\ info = NoImage
  /\ at # "closed" => prog = "hos"
  /\ at \notin {"closed", "menu", "open", "false"} => image \in Images
  /\ judged \in Images /\ judged.valid /\ at \in {"menu", "open", "info", "validate", "false"}
       => TooNew
  /\ judged \in Images /\ judged.valid /\ at = "verdict" => judged = image \/ TooNew
  /\ at \in Installing =>
       /\ judged = image /\ image.valid /\ ~TooNew
       /\ use_exfat => judged.exfat = "good"
  /\ info # NoImage /\ at \notin {"closed", "marker", "true"} =>
       need_clean = (info.generation = "old" /\ system[here] = "new")

\* Where a batch is: what it has selected, and that the rows behind it are done.
BatchInv ==
  /\ rcm # "off" => prog = "rcm"
  /\ "emu" \in available => selected \in EmuNands
  /\ rcm = "off" => ~called /\ ~keys /\ idx = 1
  /\ rcm = "start" => ~called /\ idx = 1
  /\ rcm = "menu" => ~called
  /\ rcm \in {"run", "unlink"} => idx \in Rows /\ RowAvailable /\ called
  /\ rcm \in {"batch", "end", "menu"} /\ keys /\ ~called =>
       \A i \in Rows : i < idx => AutoTable[i].file \notin marker
  /\ rcm \in {"end", "menu"} /\ keys => idx \notin Rows
  /\ rcm = "unlink" /\ Row.file \in FixMarkers => ~Mismatch(RowNand) \/ RowNand \in lost

\* A downgrade whose marker is expected to do its work.
Pending(n) == Mismatch(n) /\ n \notin lost

\* While nothing has failed only the NAND that was just running is downgraded
\* and not cleaned, and either the application or the batch is on its way there.
NotYetRun(n) == \A i \in Rows : AutoTable[i].file = FixMarker(n) => idx <= i
Served(n) == available = NandsExpected /\ (n \in EmuNands => selected = n)

InRcm(n) ==
  \/ rcm = "off"
  \/ rcm = "start" /\ (n \in EmuNands => selected = n)
  \/ rcm \in {"batch", "run"} /\ NotYetRun(n) /\ Served(n)
  \/ rcm = "unlink" /\ NotYetRun(n) /\ Served(n) /\ Row.file # FixMarker(n)

FlowInv ==
  ~trouble => \A n \in Nands : Pending(n) =>
    /\ n = here
    /\ \/ prog = "hos" /\ at \in {"marker", "true"}
       \/ prog = "rcm" /\ InRcm(n)

Inv == TypeOK /\ AppInv /\ BatchInv /\ DowngradeTracked /\ FlowInv

-----------------------------------------------------------------------------
(* Proofs. *)

\* A step of the application, or of the installation that fails to write.
AppStep == InstallStep \/ UserStep \/ WriteMarkerFails

\* A step of ams_rcm.
RcmStep == BatchStep \/ StartHampered \/ RunFails \/ UnlinkFails \/ MenuReboot

\* The markers of the downgrade are files of the table.
LEMMA FixIsFile == \A n \in Nands : FixMarker(n) \in MarkerFiles /\ FixMarker(n) \in FixMarkers
BY FixIsInTable DEF FixMarker, FixMarkers, MarkerFiles

\* The row of a marker of the downgrade runs fix_downgrade on its kind of NAND.
LEMMA FixIsOnce ==
  ASSUME idx \in Rows, Row.file \in FixMarkers
  PROVE  Row.func = "fix_downgrade" /\ Row.emunand = (Row.file = "fix_dg_emunand")
<1>1. PICK i \in Rows : AutoTable[i] = [file |-> Row.file, func |-> "fix_downgrade",
                                       emunand |-> Row.file = "fix_dg_emunand"]
  BY FixIsInTable
<1>2. i = idx
  BY <1>1, FilesAreDistinct DEF Row
<1>. QED
  BY <1>1, <1>2 DEF Row

\* The application keeps the types of its variables and of the console's.
LEMMA AppKeepsTypes ==
  ASSUME TypeOK, AppInv, AppStep
  PROVE  AppTypeOK' /\ ConsoleTypeOK(MarkerFiles)'
<1>. USE ImagesAreTyped, CallsAreBounded DEF TypeOK, AppTypeOK, ConsoleTypeOK, AppAt, Callers, Installing,
    Generations, globals, console
<1>1. CASE Launch
  BY <1>1 DEF Launch
<1>2. CASE Leave
  BY <1>2 DEF Leave, Closed, FreshGlobals
<1>3. CASE Call
  BY <1>3 DEF Call
<1>4. CASE Opens
  <2>1. knows_supported' \in BOOLEAN
    BY <1>4, Zenon DEF Opens
  <2>. QED
    BY <1>4, <2>1 DEF Opens
<1>5. CASE OpenFails
  <2>1. knows_supported' \in BOOLEAN
    BY <1>5, Zenon DEF OpenFails
  <2>. QED
    BY <1>5, <2>1 DEF OpenFails
<1>6. CASE OpenFatal
  BY <1>6 DEF OpenFatal, Closed, FreshGlobals
<1>7. CASE InfoFine
  <2>1. need_clean' \in BOOLEAN /\ ask_dg' \in BOOLEAN
    BY <1>7, Zenon DEF InfoFine, Downgrades
  <2>. QED
    BY <1>7, <2>1 DEF InfoFine
<1>8. CASE InfoFails
  BY <1>8 DEF InfoFails
<1>9. CASE InfoRefused
  BY <1>9 DEF InfoRefused, Downgrades
<1>10. CASE Validates
  BY <1>10 DEF Validates
<1>11. CASE AlreadyValidated
  BY <1>11 DEF AlreadyValidated
<1>12. CASE VerdictBad
  BY <1>12 DEF VerdictBad
<1>13. CASE VerdictTooNew
  <2>1. use_exfat' \in BOOLEAN
    BY <1>13, Zenon DEF VerdictTooNew, Exfat
  <2>. QED
    BY <1>13, <2>1 DEF VerdictTooNew
<1>14. CASE VerdictGood
  <2>1. use_exfat' \in BOOLEAN
    BY <1>14, Zenon DEF VerdictGood, Exfat
  <2>. QED
    BY <1>14, <2>1 DEF VerdictGood
<1>15. CASE Setup
  BY <1>15 DEF Setup, Transition
<1>16. CASE Prepare
  BY <1>16 DEF Prepare, Transition
<1>17. CASE Apply
  <2>1. image.generation \in Generations
    BY <1>17 DEF Apply, Transition, AppInv, ImageType
  <2>. QED
    BY <1>17, <2>1 DEF Apply, Transition
<1>18. CASE StepFails
  BY <1>18 DEF StepFails, Transition
<1>19. CASE WriteMarker
  <2>1. marker' \subseteq MarkerFiles
    BY <1>19, FixIsFile DEF WriteMarker
  <2>. QED
    BY <1>19, <2>1 DEF WriteMarker, Transition
<1>20. CASE WriteMarkerFails
  BY <1>20 DEF WriteMarkerFails, Transition
<1>21. CASE BackToMenu
  BY <1>21 DEF BackToMenu
<1>22. CASE BackOut
  BY <1>22 DEF BackOut, Closed, FreshGlobals
<1>23. CASE Reboot
  BY <1>23 DEF Reboot, Closed, FreshGlobals
<1>. QED
  BY <1>1, <1>2, <1>3, <1>4, <1>5, <1>6, <1>7, <1>8, <1>9, <1>10, <1>11, <1>12, <1>13, <1>14, <1>15, <1>16, <1>17, <1>18, <1>19, <1>20, <1>21, <1>22, <1>23 DEF AppStep, InstallStep, UserStep


\* ams_rcm keeps the types of its variables and of the console's.
LEMMA BatchKeepsTypes ==
  ASSUME TypeOK, BatchInv, RcmStep
  PROVE  BatchTypeOK' /\ ConsoleTypeOK(MarkerFiles)'
<1>0. Len(AutoTable) \in Nat
  BY TableIsTyped
<1>. USE <1>0 DEF TypeOK, BatchTypeOK, ConsoleTypeOK, RcmAt, Generations, Rows, console
<1>1. CASE Select
  BY <1>1 DEF Select
<1>2. CASE Start
  BY <1>2 DEF Start, StartBatch, NandsExpected
<1>3. CASE RowNandMissing
  BY <1>3 DEF RowNandMissing, Row
<1>4. CASE RowAbsent
  BY <1>4 DEF RowAbsent
<1>5. CASE RowFound
  BY <1>5 DEF RowFound, Row
<1>6. CASE Runs
  BY <1>6 DEF Runs, RowNand
<1>7. CASE Unlink
  BY <1>7 DEF Unlink, BatchInv
<1>8. CASE EndBatch
  BY <1>8 DEF EndBatch
<1>9. CASE AutoReboot
  <2>1. 1 \in 1..(Len(AutoTable) + 1)
    OBVIOUS
  <2>2. BatchTypeOK'
    BY <1>9, <2>1 DEF AutoReboot, BatchOff
  <2>. QED
    BY <1>9, <2>2 DEF AutoReboot
<1>10. CASE ShowMenu
  BY <1>10 DEF ShowMenu
<1>11. CASE StartHampered
  BY <1>11 DEF StartHampered, StartBatch, NandsExpected
<1>12. CASE RunFails
  BY <1>12 DEF RunFails
<1>13. CASE UnlinkFails
  BY <1>13 DEF UnlinkFails, BatchInv
<1>14. CASE MenuReboot
  <2>1. 1 \in 1..(Len(AutoTable) + 1)
    OBVIOUS
  <2>2. BatchTypeOK'
    BY <1>14, <2>1 DEF MenuReboot, BatchOff
  <2>. QED
    BY <1>14, <2>2 DEF MenuReboot
<1>. QED
  BY <1>1, <1>2, <1>3, <1>4, <1>5, <1>6, <1>7, <1>8, <1>9, <1>10, <1>11, <1>12, <1>13, <1>14 DEF RcmStep, BatchStep

-----------------------------------------------------------------------------
\* What the application knows, kept by its own steps.
LEMMA AppKeepsAppInv ==
  ASSUME TypeOK, AppInv, AppStep, prog = "hos"
  PROVE  AppInv'
<1>. USE ImagesAreTyped DEF AppInv, TypeOK, AppTypeOK, Installing, TooNew, globals, console
<1>1. CASE Launch
  BY <1>1 DEF Launch
<1>2. CASE Leave
  BY <1>2 DEF Leave, Closed, FreshGlobals
<1>3. CASE Call
  BY <1>3 DEF Call
<1>4. CASE Opens
  <2>1. knows_supported => knows_supported'
    BY <1>4, Zenon DEF Opens
  <2>. QED
    BY <1>4, <2>1 DEF Opens
<1>5. CASE OpenFails
  <2>1. knows_supported => knows_supported'
    BY <1>5, Zenon DEF OpenFails
  <2>. QED
    BY <1>5, <2>1 DEF OpenFails
<1>6. CASE OpenFatal
  BY <1>6 DEF OpenFatal, Closed, FreshGlobals
<1>7. CASE InfoFine
  BY <1>7 DEF InfoFine, Downgrades
<1>8. CASE InfoFails
  BY <1>8 DEF InfoFails
<1>9. CASE InfoRefused
  BY <1>9 DEF InfoRefused, Downgrades
<1>10. CASE Validates
  BY <1>10 DEF Validates
<1>11. CASE AlreadyValidated
  BY <1>11 DEF AlreadyValidated
<1>12. CASE VerdictBad
  BY <1>12 DEF VerdictBad, Invalid
<1>13. CASE VerdictTooNew
  BY <1>13 DEF VerdictTooNew, Exfat, Invalid
<1>14. CASE VerdictGood
  BY <1>14 DEF VerdictGood, Exfat, Invalid, ImageType
<1>15. CASE Setup
  BY <1>15 DEF Setup, Transition
<1>16. CASE Prepare
  BY <1>16 DEF Prepare, Transition
<1>17. CASE Apply
  BY <1>17 DEF Apply, Transition
<1>18. CASE StepFails
  BY <1>18 DEF StepFails, Transition
<1>19. CASE WriteMarker
  BY <1>19 DEF WriteMarker, Transition, FixMarker
<1>20. CASE WriteMarkerFails
  BY <1>20 DEF WriteMarkerFails, Transition
<1>21. CASE BackToMenu
  BY <1>21 DEF BackToMenu
<1>22. CASE BackOut
  BY <1>22 DEF BackOut, Closed, FreshGlobals
<1>23. CASE Reboot
  BY <1>23 DEF Reboot, Closed, FreshGlobals
<1>. QED
  BY <1>1, <1>2, <1>3, <1>4, <1>5, <1>6, <1>7, <1>8, <1>9, <1>10, <1>11, <1>12, <1>13, <1>14, <1>15, <1>16, <1>17, <1>18, <1>19, <1>20, <1>21, <1>22, <1>23 DEF AppStep, InstallStep, UserStep

\* While ams_rcm runs or the console is off the application is closed.
LEMMA ClosedKeepsAppInv ==
  ASSUME AppInv, prog # "hos", UNCHANGED app
  PROVE  AppInv'
BY DEF AppInv, app, globals, Installing, TooNew

\* The power can be cut anywhere.
LEMMA CutKeepsAppInv ==
  ASSUME AppInv, PowerCut
  PROVE  AppInv'
BY DEF AppInv, PowerCut, Closed, FreshGlobals, Installing, TooNew

-----------------------------------------------------------------------------
\* What a batch has done, kept by its own steps.
LEMMA BatchKeepsBatchInv ==
  ASSUME TypeOK, BatchInv, RcmStep, prog = "rcm", lost \subseteq lost',
         RunFails /\ ~Runs => RowNand \in lost'
  PROVE  BatchInv'
<1>. USE TableIsTyped DEF BatchInv, TypeOK, BatchTypeOK, Rows, console
<1>1. CASE Select
  BY <1>1 DEF Select, Row, RowNand, RowAvailable, Mismatch
<1>2. CASE Start
  BY <1>2 DEF Start, StartBatch, NandsExpected, Row, RowNand, RowAvailable, Mismatch
<1>3. CASE RowNandMissing
  BY <1>3 DEF RowNandMissing, Row, RowNand, RowAvailable, Mismatch
<1>4. CASE RowAbsent
  BY <1>4 DEF RowAbsent, Row, RowNand, RowAvailable, Mismatch
<1>5. CASE RowFound
  BY <1>5 DEF RowFound, Row, RowNand, RowAvailable, Mismatch
<1>6. CASE Runs
  <2>. USE <1>6 DEF Runs
  <2>1. idx \in Rows /\ RowNand' = RowNand /\ Row' = Row /\ RowAvailable' = RowAvailable
    BY DEF Row, RowNand, RowAvailable
  <2>2. Row.file \in FixMarkers => Row.func = "fix_downgrade"
    BY <2>1, FixIsOnce
  <2>3. RowNand \in Nands
    BY <2>1 DEF RowNand, RowAvailable, Nands
  <2>4. Row.file \in FixMarkers => save'[RowNand] = "none"
    BY <2>2, <2>3 DEF ConsoleTypeOK
  <2>. QED
    BY <2>1, <2>4 DEF Mismatch
<1>7. CASE Unlink
  BY <1>7 DEF Unlink, Row, RowNand, RowAvailable, Mismatch
<1>8. CASE EndBatch
  BY <1>8 DEF EndBatch, Row, RowNand, RowAvailable, Mismatch
<1>9. CASE AutoReboot
  BY <1>9 DEF AutoReboot, BatchOff, Row, RowNand, RowAvailable, Mismatch
<1>10. CASE ShowMenu
  BY <1>10 DEF ShowMenu, Row, RowNand, RowAvailable, Mismatch
<1>11. CASE StartHampered
  BY <1>11 DEF StartHampered, StartBatch, NandsExpected, Row, RowNand, RowAvailable, Mismatch
<1>12. CASE RunFails
  <2>1. CASE Runs
    BY <1>6, <2>1
  <2>2. CASE ~Runs
    BY <1>12, <2>2 DEF RunFails, Row, RowNand, RowAvailable, Mismatch
  <2>. QED
    BY <2>1, <2>2
<1>13. CASE UnlinkFails
  BY <1>13 DEF UnlinkFails, Row, RowNand, RowAvailable, Mismatch
<1>14. CASE MenuReboot
  BY <1>14 DEF MenuReboot, BatchOff, Row, RowNand, RowAvailable, Mismatch
<1>. QED
  BY <1>1, <1>2, <1>3, <1>4, <1>5, <1>6, <1>7, <1>8, <1>9, <1>10, <1>11, <1>12, <1>13, <1>14 DEF RcmStep, BatchStep

\* While ams_rcm does not run there is no batch.
LEMMA OffKeepsBatchInv ==
  ASSUME BatchInv, prog # "rcm", UNCHANGED batch
  PROVE  BatchInv'
BY DEF BatchInv, batch


-----------------------------------------------------------------------------
\* A step that leaves the NANDs and the markers alone, outside of the moment
\* between Apply and the marker, loses no downgrade.
LEMMA StillTracked ==
  ASSUME DowngradeTracked, UNCHANGED <<system, save, marker>>, lost \subseteq lost',
         at = "marker" => here \in lost'
  PROVE  DowngradeTracked'
BY DEF DowngradeTracked, Mismatch, FixMarker

\* Apply makes a downgrade only where it was announced, or of a firmware whose
\* description it does not have.
LEMMA ApplyTracked ==
  ASSUME TypeOK, AppInv, DowngradeTracked, prog = "hos", Apply,
         lost' = IF info # image THEN lost \cup {here} ELSE lost
  PROVE  DowngradeTracked'
<1>. USE DEF Apply, Transition, globals
<1>1. SUFFICES ASSUME NEW n \in Nands, Mismatch(n)', n \notin lost', FixMarker(n) \notin marker
               PROVE  need_clean /\ n = here
  BY DEF DowngradeTracked, FixMarker
<1>2. ~Mismatch(n)
  BY <1>1 DEF DowngradeTracked
<1>3. n = here /\ save[here] = "new" /\ image.generation = "old"
  BY <1>1, <1>2 DEF Mismatch, TypeOK, ConsoleTypeOK
<1>4. info = image /\ system[here] = "new"
  BY <1>1, <1>2, <1>3 DEF Mismatch, TypeOK, ConsoleTypeOK, Generations
<1>. QED
  BY <1>3, <1>4, ImagesAreTyped DEF AppInv

LEMMA AppTracked ==
  ASSUME TypeOK, AppInv, DowngradeTracked, prog = "hos", InstallStep \/ UserStep,
         lost' = IF Apply /\ info # image THEN lost \cup {here} ELSE lost
  PROVE  DowngradeTracked'
<1>1. CASE Apply
  BY <1>1, ApplyTracked
<1>2. CASE WriteMarker
  BY <1>2 DEF WriteMarker, Transition, DowngradeTracked, Mismatch, FixMarker
<1>3. CASE ~Apply /\ ~WriteMarker
  <2>1. UNCHANGED <<system, save, marker>> /\ at # "marker"
    BY <1>3 DEF InstallStep, UserStep, Launch, Leave, Call, Opens, OpenFails, OpenFatal,
        InfoFine, InfoFails, InfoRefused, Validates, AlreadyValidated, VerdictBad,
        VerdictTooNew, VerdictGood, Setup, Prepare, StepFails, BackToMenu, BackOut, Reboot,
        Transition, Installing, console
  <2>. QED
    BY <1>3, <2>1, StillTracked
<1>. QED
  BY <1>1, <1>2, <1>3

LEMMA BatchTracked ==
  ASSUME TypeOK, BatchInv, AppInv, DowngradeTracked, prog = "rcm", RcmStep, UNCHANGED at,
         lost \subseteq lost',
         Unlink /\ ~UnlinkFails /\ Row.file = "fix_dg_emunand" => EmuNands \ {selected}
             \subseteq lost'
  PROVE  DowngradeTracked'
<1>0. at # "marker"
  BY DEF AppInv
<1>1. CASE Runs
  <2>1. \A n \in Nands : Mismatch(n)' => Mismatch(n)
    BY <1>1 DEF Runs, Mismatch, TypeOK, ConsoleTypeOK
  <2>. QED
    BY <1>0, <1>1, <2>1 DEF Runs, DowngradeTracked, FixMarker
<1>2. CASE Unlink /\ ~UnlinkFails
  <2>1. SUFFICES ASSUME NEW n \in Nands, Mismatch(n), n \notin lost'
                 PROVE  FixMarker(n) \in marker'
    BY <1>2 DEF Unlink, DowngradeTracked, Mismatch, FixMarker
  <2>2. FixMarker(n) \in marker
    BY <1>0, <2>1 DEF DowngradeTracked
  <2>3. ASSUME Row.file = FixMarker(n) PROVE FALSE
    <3>1. idx \in Rows /\ Row.file \in FixMarkers
      BY <1>2, <2>3, FixIsFile DEF Unlink, BatchInv
    <3>2. Row.emunand = (Row.file = "fix_dg_emunand") /\ RowNand \notin {m \in Nands :
        Mismatch(m) /\ m \notin lost'}
      BY <1>2, <3>1, FixIsOnce DEF Unlink, BatchInv
    <3>3. CASE n = SysNand
      BY <2>1, <2>3, <3>2, <3>3 DEF RowNand, FixMarker
    <3>4. CASE n # SysNand
      <4>1. Row.file = "fix_dg_emunand" /\ RowNand = selected /\ n \in EmuNands
        BY <2>3, <3>2, <3>4 DEF RowNand, FixMarker, Nands
      <4>. QED
        BY <1>2, <2>1, <3>2, <4>1
    <3>. QED
      BY <3>3, <3>4
  <2>. QED
    BY <1>2, <2>2, <2>3 DEF Unlink
<1>3. CASE ~Runs /\ ~(Unlink /\ ~UnlinkFails)
  <2>1. UNCHANGED <<system, save, marker>>
    BY <1>3 DEF RcmStep, BatchStep, Select, Start, RowNandMissing, RowAbsent, RowFound,
        EndBatch, AutoReboot, ShowMenu, StartHampered, RunFails, UnlinkFails, MenuReboot,
        StartBatch, console
  <2>. QED
    BY <1>0, <2>1, StillTracked
<1>. QED
  BY <1>1, <1>2, <1>3

LEMMA BootTracked ==
  ASSUME TypeOK, AppInv, DowngradeTracked, BootSystem, UNCHANGED <<at, lost>>
  PROVE  DowngradeTracked'
<1>1. \A n \in Nands : Mismatch(n)' => Mismatch(n)
  BY DEF BootSystem, Mismatch, TypeOK, ConsoleTypeOK, Generations
<1>. QED
  BY <1>1 DEF BootSystem, DowngradeTracked, FixMarker, AppInv


-----------------------------------------------------------------------------
\* Only Apply makes a downgrade that is pending; every other step of the
\* application finds it between Apply and the reboot.
LEMMA AppFlow ==
  ASSUME TypeOK, AppInv, BatchInv, FlowInv, prog = "hos", InstallStep \/ UserStep,
         lost \subseteq lost', UNCHANGED <<batch, trouble>>
  PROVE  FlowInv'
<1>1. SUFFICES ASSUME ~trouble, NEW n \in Nands, Pending(n)'
               PROVE  /\ n = here'
                      /\ \/ prog' = "hos" /\ at' \in {"marker", "true"}
                         \/ prog' = "rcm" /\ InRcm(n)'
  BY DEF FlowInv
<1>2. Pending(n) => n = here /\ at \in {"marker", "true"}
  BY <1>1 DEF FlowInv
<1>3. CASE Apply
  BY <1>1, <1>2, <1>3 DEF Apply, Transition, Pending, Mismatch, TypeOK, ConsoleTypeOK
<1>4. CASE ~Apply
  <2>1. UNCHANGED <<system, save, here>>
    BY <1>4 DEF InstallStep, UserStep, WriteMarker, Reboot, Launch, Leave, Call, Opens,
        OpenFails, OpenFatal, InfoFine, InfoFails, InfoRefused, Validates, AlreadyValidated,
        VerdictBad, VerdictTooNew, VerdictGood, Setup, Prepare, StepFails, BackToMenu,
        BackOut, Transition, console
  <2>2. Pending(n)
    BY <1>1, <2>1 DEF Pending, Mismatch
  <2>3. CASE WriteMarker
    BY <1>2, <2>2, <2>3 DEF WriteMarker, Transition
  <2>4. CASE Reboot
    BY <1>2, <2>1, <2>2, <2>4 DEF Reboot, BatchInv, InRcm, batch
  <2>5. CASE ~WriteMarker /\ ~Reboot
    <3>1. at \notin {"marker", "true"}
      BY <1>4, <2>5 DEF InstallStep, UserStep, Launch, Leave, Call, Opens, OpenFails, OpenFatal,
          InfoFine, InfoFails, InfoRefused, Validates, AlreadyValidated, VerdictBad,
          VerdictTooNew, VerdictGood, Setup, Prepare, StepFails, BackToMenu, BackOut,
          Transition, Installing
    <3>. QED
      BY <1>2, <2>2, <3>1
  <2>. QED
    BY <2>3, <2>4, <2>5
<1>. QED
  BY <1>3, <1>4

\* The row that waits for the NAND that was downgraded is not skipped.
LEMMA RowServed ==
  ASSUME TypeOK, BatchInv, NEW n \in Nands, Served(n), idx \in Rows, Row.file = FixMarker(n)
  PROVE  RowAvailable /\ RowNand = n
<1>1. Row.emunand = (Row.file = "fix_dg_emunand")
  BY FixIsFile, FixIsOnce
<1>2. CASE n = SysNand
  BY <1>1, <1>2 DEF FixMarker, RowAvailable, RowNand, Served, NandsExpected
<1>3. CASE n # SysNand
  BY <1>1, <1>3, NandsAreDistinct DEF FixMarker, RowAvailable, RowNand, Served, NandsExpected,
      Nands
<1>. QED
  BY <1>2, <1>3

\* The batch reaches that row, and does its work.
LEMMA BatchFlow ==
  ASSUME TypeOK, AppInv, BatchInv, DowngradeTracked, FlowInv, prog = "rcm", BatchStep \/
      MenuReboot,
         lost \subseteq lost',
         trouble' = (trouble \/ (Select /\ here \in EmuNands /\ selected' # here))
  PROVE  FlowInv'
<1>1. SUFFICES ASSUME ~trouble', NEW n \in Nands, Pending(n)'
               PROVE  n = here' /\ prog' = "rcm" /\ InRcm(n)'
  BY DEF FlowInv
<1>2. ~trouble /\ here' = here /\ system' = system
  BY <1>1 DEF BatchStep, Select, Start, RowNandMissing, RowAbsent, RowFound, Runs, Unlink,
      EndBatch, AutoReboot, ShowMenu, MenuReboot, StartBatch, console
<1>3. Pending(n)
  BY <1>1, <1>2 DEF Pending, Mismatch, TypeOK, ConsoleTypeOK, BatchStep, Select, Start,
      RowNandMissing, RowAbsent, RowFound, Runs, Unlink, EndBatch, AutoReboot, ShowMenu,
      MenuReboot, StartBatch, console
<1>4. n = here /\ InRcm(n) /\ FixMarker(n) \in marker
  BY <1>2, <1>3 DEF FlowInv, DowngradeTracked, Pending, AppInv
<1>5. \A m : FixMarker(m)' = FixMarker(m)
  BY DEF FixMarker
<1>6. idx \in Nat /\ idx >= 1 /\ Len(AutoTable) \in Nat
  BY TableIsTyped DEF TypeOK, BatchTypeOK
<1>. USE <1>2, <1>4, <1>5, <1>6 DEF InRcm
<1>7. CASE Select
  BY <1>1, <1>7 DEF Select, console
<1>8. CASE Start
  BY <1>8 DEF Start, StartBatch, NotYetRun, Served, NandsExpected, Rows, BatchInv
<1>9. ASSUME rcm = "batch", idx \in Rows, Row.file # FixMarker(n), rcm' = "batch", idx' = idx + 1,
             UNCHANGED <<prog, selected, available>>
      PROVE  prog' = "rcm" /\ InRcm(n)'
  BY <1>9 DEF NotYetRun, Served, NandsExpected, Row, Rows
<1>10. CASE RowNandMissing
  <2>1. Row.file # FixMarker(n)
    BY <1>10, RowServed DEF RowNandMissing
  <2>. QED
    BY <1>9, <1>10, <2>1 DEF RowNandMissing, console
<1>11. CASE RowAbsent
  BY <1>9, <1>11 DEF RowAbsent, console
<1>12. CASE RowFound
  BY <1>12 DEF RowFound, NotYetRun, Served, NandsExpected, console
<1>13. CASE Runs
  <2>1. idx \in Rows /\ Served(n) /\ NotYetRun(n)
    BY <1>13 DEF Runs, BatchInv
  <2>2. ASSUME Row.file = FixMarker(n) PROVE FALSE
    <3>1. RowNand = n /\ Row.func = "fix_downgrade"
      BY <2>1, <2>2, RowServed, FixIsFile, FixIsOnce
    <3>. QED
      BY <1>1, <1>13, <3>1 DEF Runs, Pending, Mismatch, TypeOK, ConsoleTypeOK
  <2>. QED
    BY <1>13, <2>1, <2>2 DEF Runs, NotYetRun, Served, NandsExpected, Row
<1>14. CASE Unlink
  BY <1>14 DEF Unlink, NotYetRun, Served, NandsExpected, Row, Rows, BatchInv
<1>15. CASE EndBatch
  <2>1. PICK i \in Rows : AutoTable[i].file = FixMarker(n)
    BY FixIsFile DEF MarkerFiles
  <2>2. idx <= i
    BY <1>15, <2>1 DEF EndBatch, NotYetRun
  <2>. QED
    BY <1>15, <2>1, <2>2 DEF EndBatch, Rows
<1>16. CASE AutoReboot \/ ShowMenu \/ MenuReboot
  BY <1>16 DEF AutoReboot, ShowMenu, MenuReboot
<1>. QED
  BY <1>7, <1>8, <1>10, <1>11, <1>12, <1>13, <1>14, <1>15, <1>16 DEF BatchStep

\* With the console off nothing is pending, and no boot makes it so.
LEMMA OffFlow ==
  ASSUME TypeOK, FlowInv, prog = "off", BootSystem \/ UNCHANGED <<system, save>>,
         UNCHANGED <<lost, trouble>>
  PROVE  FlowInv'
<1>1. \A n \in Nands : Mismatch(n)' => Mismatch(n)
  BY DEF BootSystem, Mismatch, TypeOK, ConsoleTypeOK, Generations
<1>. QED
  BY <1>1 DEF FlowInv, Pending


-----------------------------------------------------------------------------
(* The theorems. *)

LEMMA InitInv == Init => Inv
<1> SUFFICES ASSUME Init PROVE Inv
  OBVIOUS
<1>. USE DEF Init, ConsoleInit, AppInit, BatchInit
<1>1. TypeOK
  <2>1. 1 \in 1..(Len(AutoTable) + 1)
    BY TableIsTyped
  <2>2. ConsoleTypeOK(MarkerFiles)
    BY DEF ConsoleTypeOK
  <2>3. AppTypeOK
    <3>1. calls \in 0..MaxCalls
      BY CallsAreBounded
    <3>. QED
      BY <3>1, Zenon DEF AppTypeOK, AppAt
  <2>4. BatchTypeOK
    BY <2>1 DEF BatchTypeOK, RcmAt
  <2>. QED
    BY <2>2, <2>3, <2>4 DEF TypeOK
<1>2. AppInv
  BY ImagesAreTyped DEF AppInv, Installing
<1>3. BatchInv
  BY DEF BatchInv
<1>4. \A n \in Nands : ~Mismatch(n)
  BY DEF Mismatch
<1>. QED
  BY <1>1, <1>2, <1>3, <1>4 DEF Inv, DowngradeTracked, FlowInv, Pending

\* Every step keeps the types.
LEMMA NextTypes == Inv /\ Next => TypeOK'
<1> SUFFICES ASSUME Inv, Next PROVE TypeOK'
  OBVIOUS
<1>. USE DEF Inv
<1>1. CASE AppWorks
  <2>1. lost' \subseteq Nands
    BY <1>1 DEF AppWorks, TypeOK, ConsoleTypeOK
  <2>. QED
    BY <1>1, <2>1, AppKeepsTypes DEF AppWorks, AppStep, TypeOK, BatchTypeOK, batch
<1>2. CASE MarkerNotWritten
  <2>1. lost' \subseteq Nands /\ trouble' \in BOOLEAN
    BY <1>2 DEF MarkerNotWritten, TypeOK, ConsoleTypeOK
  <2>. QED
    BY <1>2, <2>1, AppKeepsTypes DEF MarkerNotWritten, AppStep, TypeOK, BatchTypeOK, batch
<1>3. CASE BatchWorks
  <2>1. lost' \subseteq Nands
    BY <1>3 DEF BatchWorks, TypeOK, Nands
  <2>2. trouble' \in BOOLEAN
    BY <1>3, Zenon DEF BatchWorks
  <2>. QED
    BY <1>3, <2>1, <2>2, BatchKeepsTypes DEF BatchWorks, RcmStep, TypeOK, AppTypeOK, app, globals
<1>4. CASE BatchHampered
  <2>1. RunFails => RowNand \in Nands
    BY DEF RunFails, RowNand, RowAvailable, Nands, BatchInv
  <2>2. lost' \subseteq Nands /\ trouble' \in BOOLEAN
    BY <1>4, <2>1 DEF BatchHampered, TypeOK
  <2>. QED
    BY <1>4, <2>2, BatchKeepsTypes DEF BatchHampered, RcmStep, TypeOK, AppTypeOK, app, globals
<1>5. CASE Boots
  BY <1>5 DEF Boots, BootSystem, TypeOK, ConsoleTypeOK, AppTypeOK, BatchTypeOK, app, globals,
      batch, Generations
<1>6. CASE UserMarks \/ StartsRcm
  <2>1. ConsoleTypeOK(MarkerFiles)'
    BY <1>6, UserMarkersAreFiles DEF UserMarks, StartsRcm, TypeOK, ConsoleTypeOK
  <2>2. app' = app /\ batch' = batch /\ lost' = lost /\ trouble' = trouble
    BY <1>6 DEF UserMarks, StartsRcm
  <2>3. AppTypeOK' /\ BatchTypeOK'
    BY <2>2 DEF TypeOK, AppTypeOK, BatchTypeOK, app, globals, batch
  <2>. QED
    BY <2>1, <2>2, <2>3 DEF TypeOK
<1>7. CASE LeavesMenu
  BY <1>7, BatchKeepsTypes DEF LeavesMenu, RcmStep, TypeOK, AppTypeOK, app, globals
<1>8. CASE PowerCut
  <2>1. 1 \in 1..(Len(AutoTable) + 1)
    BY TableIsTyped
  <2>2. BatchTypeOK'
    BY <1>8, <2>1 DEF PowerCut, BatchOff, BatchTypeOK, RcmAt
  <2>3. AppTypeOK'
    BY <1>8 DEF PowerCut, Closed, FreshGlobals, TypeOK, AppTypeOK, AppAt
  <2>. QED
    BY <1>8, <2>2, <2>3 DEF PowerCut, TypeOK, ConsoleTypeOK
<1>. QED
  BY <1>1, <1>2, <1>3, <1>4, <1>5, <1>6, <1>7, <1>8 DEF Next

\* Every step keeps the rest.
LEMMA NextInv == Inv /\ Next => Inv'
<1> SUFFICES ASSUME Inv, Next PROVE AppInv' /\ BatchInv' /\ DowngradeTracked' /\ FlowInv'
  BY NextTypes DEF Inv
<1>. USE DEF Inv
<1>1. CASE AppWorks
  <2>1. lost \subseteq lost' /\ prog = "hos" /\ AppStep
    BY <1>1 DEF AppWorks, AppStep
  <2>2. AppInv'
    BY <2>1, AppKeepsAppInv
  <2>3. BatchInv'
    BY <1>1, OffKeepsBatchInv DEF AppWorks
  <2>4. DowngradeTracked'
    BY <1>1, AppTracked DEF AppWorks
  <2>5. FlowInv'
    BY <1>1, <2>1, AppFlow DEF AppWorks
  <2>. QED
    BY <2>2, <2>3, <2>4, <2>5
<1>2. CASE MarkerNotWritten
  <2>1. AppInv'
    BY <1>2, AppKeepsAppInv DEF MarkerNotWritten, AppStep
  <2>2. BatchInv'
    BY <1>2, OffKeepsBatchInv DEF MarkerNotWritten
  <2>3. DowngradeTracked'
    BY <1>2, StillTracked DEF MarkerNotWritten, WriteMarkerFails, console
  <2>. QED
    BY <1>2, <2>1, <2>2, <2>3 DEF MarkerNotWritten, FlowInv
<1>3. CASE BatchWorks
  <2>1. lost \subseteq lost' /\ prog = "rcm" /\ RcmStep /\ UNCHANGED app
    BY <1>3 DEF BatchWorks, RcmStep
  <2>2. AppInv'
    BY <2>1, ClosedKeepsAppInv
  <2>3. RunFails => Runs
    BY <1>3 DEF BatchWorks, BatchStep, Select, Start, RowNandMissing, RowAbsent, RowFound, Runs,
        Unlink, EndBatch, AutoReboot, ShowMenu, RunFails, StartBatch, Inv, TypeOK,
        BatchTypeOK, BatchInv
  <2>4. BatchInv'
    BY <2>1, <2>3, BatchKeepsBatchInv
  <2>5. DowngradeTracked'
    BY <1>3, <2>1, BatchTracked DEF BatchWorks, app
  <2>6. FlowInv'
    BY <1>3, <2>1, BatchFlow DEF BatchWorks
  <2>. QED
    BY <2>2, <2>4, <2>5, <2>6
<1>4. CASE BatchHampered
  <2>1. lost \subseteq lost' /\ prog = "rcm" /\ RcmStep /\ UNCHANGED app
    BY <1>4 DEF BatchHampered, RcmStep
  <2>2. AppInv'
    BY <2>1, ClosedKeepsAppInv
  <2>3. RunFails /\ ~Runs => RowNand \in lost'
    BY <1>4 DEF BatchHampered, RunFails, StartHampered, StartBatch, UnlinkFails
  <2>4. BatchInv'
    BY <2>1, <2>3, BatchKeepsBatchInv
  <2>5. Unlink => UnlinkFails
    BY <1>4 DEF BatchHampered, RunFails, StartHampered, StartBatch, Unlink
  <2>6. DowngradeTracked'
    BY <2>1, <2>5, BatchTracked DEF app
  <2>. QED
    BY <1>4, <2>2, <2>4, <2>6 DEF BatchHampered, FlowInv
<1>5. CASE Boots
  <2>1. BatchInv'
    BY <1>5, OffKeepsBatchInv DEF Boots, BootSystem
  <2>2. AppInv'
    BY <1>5, ClosedKeepsAppInv DEF Boots, BootSystem
  <2>3. DowngradeTracked'
    BY <1>5, BootTracked DEF Boots, app
  <2>4. FlowInv'
    BY <1>5, OffFlow DEF Boots, BootSystem
  <2>. QED
    BY <2>1, <2>2, <2>3, <2>4
<1>6. CASE UserMarks
  <2>1. \A n \in Nands : ~trouble => ~Pending(n)
    BY <1>6 DEF UserMarks, FlowInv
  <2>2. AppInv' /\ BatchInv'
    BY <1>6 DEF UserMarks, AppInv, BatchInv, app, globals, batch, Installing, TooNew
  <2>. QED
    BY <1>6, <2>1, <2>2 DEF UserMarks, FlowInv, Pending, DowngradeTracked, Mismatch, FixMarker,
        app
<1>7. CASE StartsRcm
  <2>1. BatchInv'
    BY <1>7, OffKeepsBatchInv DEF StartsRcm
  <2>2. AppInv'
    BY <1>7, ClosedKeepsAppInv DEF StartsRcm
  <2>3. DowngradeTracked'
    BY <1>7, StillTracked DEF StartsRcm, AppInv
  <2>4. FlowInv'
    BY <1>7, OffFlow DEF StartsRcm
  <2>. QED
    BY <2>1, <2>2, <2>3, <2>4
<1>8. CASE LeavesMenu
  <2>1. prog = "rcm" /\ RcmStep /\ UNCHANGED <<app, lost, trouble>> /\ ~RunFails
    BY <1>8 DEF LeavesMenu, RcmStep, MenuReboot, RunFails
  <2>2. AppInv'
    BY <2>1, ClosedKeepsAppInv
  <2>3. BatchInv'
    BY <2>1, BatchKeepsBatchInv
  <2>4. ~Unlink /\ ~Select
    BY <1>8 DEF LeavesMenu, MenuReboot, Unlink, Select
  <2>5. DowngradeTracked'
    BY <2>1, <2>4, BatchTracked DEF app
  <2>6. FlowInv'
    BY <1>8, <2>1 DEF LeavesMenu, MenuReboot, FlowInv, InRcm, Pending, Mismatch
  <2>. QED
    BY <2>2, <2>3, <2>5, <2>6
<1>9. CASE PowerCut
  <2>1. AppInv'
    BY <1>9, CutKeepsAppInv
  <2>2. BatchInv'
    BY <1>9 DEF PowerCut, BatchOff, BatchInv
  <2>3. DowngradeTracked'
    BY <1>9, StillTracked DEF PowerCut
  <2>. QED
    BY <1>9, <2>1, <2>2, <2>3 DEF PowerCut, FlowInv
<1>. QED
  BY <1>1, <1>2, <1>3, <1>4, <1>5, <1>6, <1>7, <1>8, <1>9 DEF Next

\* The invariant holds in every state.
THEOREM Invariance == Spec => []Inv
<1>1. Inv /\ [Next]_vars => Inv'
  <2>1. Inv /\ UNCHANGED vars => Inv'
    BY DEF vars, console, app, globals, batch, Inv, TypeOK, ConsoleTypeOK, AppTypeOK, BatchTypeOK,
           AppInv, TooNew, BatchInv, DowngradeTracked, FlowInv, Mismatch, FixMarker, Pending,
               InRcm,
           NotYetRun, Served, NandsExpected, Row, RowNand, RowAvailable
  <2>. QED
    BY <2>1, NextInv
<1>. QED
  BY <1>1, InitInv, PTL DEF Spec

\* Every variable of the two programs and of the console keeps its type.
THEOREM TypeCorrect == Spec => []TypeOK
BY Invariance, PTL DEF Inv

\* No firmware but the one that was validated is installed
\* (daybreak-cli.cpp:493-500).
THEOREM InstallsWhatWasValidatedHolds == Spec => []InstallsWhatWasValidated
<1>1. Inv => InstallsWhatWasValidated
  BY DEF Inv, AppInv, InstallsWhatWasValidated, TooNew
<1>. QED
  BY <1>1, Invariance, PTL

\* Every downgrade that is not cleaned is about to be marked, is marked, or had
\* its marker fail (daybreak-cli.cpp:624-632, main.c:91-149).
THEOREM DowngradeTrackedHolds == Spec => []DowngradeTracked
BY Invariance, PTL DEF Inv

\* Without a failure no downgraded system is started on the save of the later
\* one (daybreak-cli.cpp:624).
THEOREM CleanWhenStartedHolds == Spec => []CleanWhenStarted
<1>1. Inv => CleanWhenStarted
  BY DEF Inv, FlowInv, Pending, CleanWhenStarted, TypeOK, ConsoleTypeOK
<1>. QED
  BY <1>1, Invariance, PTL

\* The menu of ams_rcm means that no marker was there (main.c:909).
THEOREM MenuMeansNothingAskedHolds == Spec => []MenuMeansNothingAsked
<1>1. Inv => MenuMeansNothingAsked
  <2>1. SUFFICES ASSUME Inv, rcm = "menu", keys PROVE marker = {}
    BY DEF MenuMeansNothingAsked
  <2>2. ~called /\ idx \notin Rows /\ idx \in 1..(Len(AutoTable) + 1) /\ marker \subseteq
      MarkerFiles
    BY <2>1 DEF Inv, BatchInv, TypeOK, BatchTypeOK, ConsoleTypeOK
  <2>3. \A i \in Rows : i < idx
    BY <2>2, TableIsTyped DEF Rows
  <2>. QED
    BY <2>1, <2>2, <2>3 DEF Inv, BatchInv, MarkerFiles
<1>. QED
  BY <1>1, Invariance, PTL
================================================================================
