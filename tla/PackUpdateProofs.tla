--------------------------- MODULE PackUpdateProofs ---------------------------
(***************************************************************************)
(* Theorems about PackUpdate, for every set of modes and of failures.      *)
(***************************************************************************)
EXTENDS PackUpdate, TLAPS

\* What was asked for is under way, or is the update that was accepted; the pad
\* is read with nothing pending.
Requests ==
  /\ RunsOnlyOnRequest
  /\ pc = "loop" /\ pending => asked \/ mode = "only"
  /\ pc = "input" => mode # "only" /\ ~pending

\* Once files were removed there is no way back to the menu.
Committed ==
  wiped => pc \in {"unzip", "custom", "custom_check", "custom_unzip", "hekate",
                   "firmware", "finished", "fw_finished", "reboot"}

\* From the cleaning to the firmware of the pack, nothing brings back the folder
\* that was there.
FolderIsNew ==
  pc \in {"unzip", "custom", "custom_check", "custom_unzip", "hekate", "firmware"}
    => fw # "previous"

\* TypeOK, in two parts.
Booleans ==
  /\ found \in BOOLEAN /\ pending \in BOOLEAN
  /\ asked \in BOOLEAN /\ wiped \in BOOLEAN

Others ==
  /\ mode \in Modes \cup {"manual"}
  /\ pc \in {"loop"} \cup PackAt \cup FirmwareAt \cup AtRest
  /\ opts \in [firmware : BOOLEAN, autoboot : BOOLEAN]
  /\ temp \in {"none", "good", "bad"}
  /\ digest \in {"none", "right", "page", "same", "other"}
  /\ waived \subseteq {"unpublished", "unfetched", "unread", "forced"}
  /\ fw \in {"none", "previous", "pack", "partial"}
  /\ pack \in {"previous", "full", "short", "failed"}
  /\ custom \in {"none", "full", "short", "failed"}

IInv == TypeOK /\ Requests /\ Committed /\ FolderIsNew

-----------------------------------------------------------------------------
LEMMA InitHolds == Init => IInv
<1> SUFFICES ASSUME Init PROVE IInv
  OBVIOUS
<1> USE DEF Init, PackAt, FirmwareAt, AtRest
<1>1. pending \in BOOLEAN /\ asked \in BOOLEAN
  BY Zenon
<1>2. Booleans
  BY <1>1, Zenon DEF Booleans
<1>3. mode \in Modes /\ pc = "loop" /\ fw \in {"none", "previous"} /\ ~wiped
  BY Zenon
<1>4. Others
  BY <1>3 DEF Others
<1>5. pending => asked
  BY Zenon
<1>. QED
  BY <1>2, <1>3, <1>4, <1>5
     DEF IInv, TypeOK, Booleans, Others, Requests, RunsOnlyOnRequest, Committed, FolderIsNew

LEMMA LoopKeeps == IInv /\ Loop => IInv'
<1> SUFFICES ASSUME IInv, Loop PROVE IInv'
  OBVIOUS
<1> USE DEF IInv, TypeOK, Requests, RunsOnlyOnRequest, Committed, FolderIsNew,
    PackAt, FirmwareAt, AtRest, menu, file, disk
<1>1. CASE ReadPad
  BY <1>1 DEF ReadPad, PadIsRead
<1>2. CASE ActAgain
  BY <1>2 DEF ActAgain, PadIsRead
<1>. QED
  BY <1>1, <1>2 DEF Loop

LEMMA MenuKeeps == IInv /\ Menu => IInv'
<1> SUFFICES ASSUME IInv, Menu PROVE IInv'
  OBVIOUS
<1> USE DEF IInv, TypeOK, Requests, RunsOnlyOnRequest, Committed, FolderIsNew,
    PackAt, FirmwareAt, AtRest, menu, file, disk
<1>1. CASE PressA
  BY <1>1 DEF PressA
<1>2. CASE SwitchMode
  <2>1. Booleans'
    BY <1>2, Zenon DEF Booleans, SwitchMode
  <2>2. /\ pc' \in {"exit", "loop"} /\ temp' \in {"good", "bad", "none"}
        /\ mode' = mode /\ opts' = opts /\ digest' = digest /\ waived' = waived
        /\ fw' = fw /\ pack' = pack /\ custom' = custom /\ wiped' = wiped
    BY <1>2 DEF SwitchMode
  <2>6. pc' = "exit" \/ (pending' => asked')
    BY <1>2, Zenon DEF SwitchMode
  <2>. HIDE DEF SwitchMode
  <2>3. Others'
    BY <2>2 DEF Others
  <2>4. Requests'
    BY <2>2, <2>6
  <2>5. Committed' /\ FolderIsNew'
    BY <1>2 DEF SwitchMode
  <2>. QED
    BY <2>1, <2>3, <2>4, <2>5 DEF Booleans, Others
<1>3. CASE UpdateApp
  BY <1>3 DEF UpdateApp
<1>4. CASE DisableAutoconfig
  BY <1>4 DEF DisableAutoconfig
<1>5. CASE CleaningReboot
  BY <1>5 DEF CleaningReboot
<1>6. CASE Close
  BY <1>6 DEF Close
<1>. QED
  BY <1>1, <1>2, <1>3, <1>4, <1>5, <1>6 DEF Menu

LEMMA BeforeKeeps == IInv /\ Before => IInv'
<1> SUFFICES ASSUME IInv, Before PROVE IInv'
  OBVIOUS
<1> USE DEF IInv, TypeOK, Requests, RunsOnlyOnRequest, Committed, FolderIsNew,
    PackAt, FirmwareAt, AtRest, menu, file, disk
<1>1. CASE Connect
  BY <1>1 DEF Connect
<1>2. CASE NoInternet
  BY <1>2 DEF NoInternet
<1>3. CASE AppIsOld
  <2>1. Booleans'
    BY <1>3, Zenon DEF Booleans, AppIsOld, Leave, Break
  <2>4. Others'
    BY <1>3 DEF Others, AppIsOld, Leave, Break
  <2>2. Requests'
    BY <1>3 DEF AppIsOld, Leave, Break
  <2>3. Committed' /\ FolderIsNew'
    BY <1>3 DEF AppIsOld, Leave, Break
  <2>. QED
    BY <2>1, <2>2, <2>3, <2>4 DEF Booleans, Others
<1>4. CASE AppIsRecent
  BY <1>4 DEF AppIsRecent
<1>5. CASE BatteryLow
  <2>1. Booleans'
    BY <1>5, Zenon DEF Booleans, BatteryLow, Leave, Break
  <2>4. Others'
    BY <1>5 DEF Others, BatteryLow, Leave, Break
  <2>2. Requests'
    BY <1>5 DEF BatteryLow, Leave, Break
  <2>3. Committed' /\ FolderIsNew'
    BY <1>5 DEF BatteryLow, Leave, Break
  <2>. QED
    BY <2>1, <2>2, <2>3, <2>4 DEF Booleans, Others
<1>6. CASE BatteryFull
  BY <1>6 DEF BatteryFull
<1>7. CASE ExfatYes
  <2>1. Booleans'
    BY <1>7, Zenon DEF Booleans, ExfatYes, Break
  <2>4. Others'
    BY <1>7 DEF Others, ExfatYes, Break
  <2>2. Requests'
    BY <1>7 DEF ExfatYes, Break
  <2>3. Committed' /\ FolderIsNew'
    BY <1>7 DEF ExfatYes, Break
  <2>. QED
    BY <2>1, <2>2, <2>3, <2>4 DEF Booleans, Others
<1>8. CASE ExfatNo
  BY <1>8 DEF ExfatNo
<1>9. CASE Questions
  BY <1>9 DEF Questions
<1>10. CASE Confirm
  BY <1>10 DEF Confirm
<1>11. CASE Refuse
  <2>1. Booleans'
    BY <1>11, Zenon DEF Booleans, Refuse, Leave, Break
  <2>4. Others'
    BY <1>11 DEF Others, Refuse, Leave, Break
  <2>2. Requests'
    BY <1>11 DEF Refuse, Leave, Break
  <2>3. Committed' /\ FolderIsNew'
    BY <1>11 DEF Refuse, Leave, Break
  <2>. QED
    BY <2>1, <2>2, <2>3, <2>4 DEF Booleans, Others
<1>. QED
  BY <1>1, <1>2, <1>3, <1>4, <1>5, <1>6, <1>7, <1>8, <1>9, <1>10, <1>11 DEF Before

LEMMA FetchKeeps == IInv /\ Fetch => IInv'
<1> SUFFICES ASSUME IInv, Fetch PROVE IInv'
  OBVIOUS
<1> USE DEF IInv, TypeOK, Requests, RunsOnlyOnRequest, Committed, FolderIsNew,
    PackAt, FirmwareAt, AtRest, menu, file, disk
<1>1. CASE SpaceMissing
  <2>1. Booleans'
    BY <1>1, Zenon DEF Booleans, SpaceMissing, Leave, Break
  <2>4. Others'
    BY <1>1 DEF Others, SpaceMissing, Leave, Break
  <2>2. Requests'
    BY <1>1 DEF SpaceMissing, Leave, Break
  <2>3. Committed' /\ FolderIsNew'
    BY <1>1 DEF SpaceMissing, Leave, Break
  <2>. QED
    BY <2>1, <2>2, <2>3, <2>4 DEF Booleans, Others
<1>2. CASE SpaceFound
  <2>1. Booleans'
    BY <1>2, Zenon DEF Booleans, SpaceFound, FetchDigest
  <2>4. Others'
    BY <1>2 DEF Others, SpaceFound, FetchDigest
  <2>2. Requests'
    BY <1>2 DEF SpaceFound
  <2>3. Committed' /\ FolderIsNew'
    BY <1>2 DEF SpaceFound
  <2>. QED
    BY <2>1, <2>2, <2>3, <2>4 DEF Booleans, Others
<1>3. CASE Download
  BY <1>3 DEF Download, Downloaded
<1>4. CASE DownloadFails
  <2>1. Booleans'
    BY <1>4, Zenon DEF Booleans, DownloadFails, Leave, Break
  <2>4. Others'
    BY <1>4 DEF Others, DownloadFails, Leave, Break
  <2>2. Requests'
    BY <1>4 DEF DownloadFails, Leave, Break
  <2>3. Committed' /\ FolderIsNew'
    BY <1>4 DEF DownloadFails, Leave, Break
  <2>. QED
    BY <2>1, <2>2, <2>3, <2>4 DEF Booleans, Others
<1>5. CASE CheckPasses
  <2>1. Booleans'
    BY <1>5, Zenon DEF Booleans, CheckPasses
  <2>4. Others'
    <3>1. digest' \in {"none", "right", "page", "same", "other"}
      BY <1>5 DEF CheckPasses, Passes, Forced, Differs
    <3>2. waived' \subseteq waived \cup {"unread", "forced"}
      BY <1>5 DEF CheckPasses, Passes, Forced
    <3>. QED
      BY <1>5, <3>1, <3>2 DEF Others, CheckPasses
  <2>2. Requests'
    BY <1>5 DEF CheckPasses
  <2>3. Committed' /\ FolderIsNew'
    BY <1>5 DEF CheckPasses
  <2>. QED
    BY <2>1, <2>2, <2>3, <2>4 DEF Booleans, Others
<1>7. CASE CheckStops
  <2>1. Booleans'
    BY <1>7, Zenon DEF Booleans, CheckStops, Differs, Leave, Break
  <2>4. Others'
    BY <1>7 DEF Others, CheckStops, Differs, Leave, Break
  <2>2. Requests'
    BY <1>7 DEF CheckStops, Differs, Leave, Break
  <2>3. Committed' /\ FolderIsNew'
    BY <1>7 DEF CheckStops, Differs, Leave, Break
  <2>. QED
    BY <2>1, <2>2, <2>3, <2>4 DEF Booleans, Others
<1>. QED
  BY <1>1, <1>2, <1>3, <1>4, <1>5, <1>7 DEF Fetch

LEMMA ApplyKeeps == IInv /\ Apply => IInv'
<1> SUFFICES ASSUME IInv, Apply PROVE IInv'
  OBVIOUS
<1> USE DEF IInv, TypeOK, Requests, RunsOnlyOnRequest, Committed, FolderIsNew,
    PackAt, FirmwareAt, AtRest, menu, file, disk
<1>1. CASE Clean
  BY <1>1 DEF Clean
<1>2. CASE InstallPack
  BY <1>2 DEF InstallPack, Unzips, Zero
<1>3. CASE NoCustomFiles
  BY <1>3 DEF NoCustomFiles
<1>4. CASE CustomFiles
  <2>1. Booleans'
    BY <1>4, Zenon DEF Booleans, CustomFiles, Downloaded, FetchDigest
  <2>4. Others'
    BY <1>4 DEF Others, CustomFiles, Downloaded, FetchDigest
  <2>2. Requests'
    BY <1>4 DEF CustomFiles, Downloaded, FetchDigest
  <2>3. Committed' /\ FolderIsNew'
    BY <1>4 DEF CustomFiles, Downloaded, FetchDigest
  <2>. QED
    BY <2>1, <2>2, <2>3, <2>4 DEF Booleans, Others
<1>5. CASE CustomPasses
  <2>1. Booleans'
    BY <1>5, Zenon DEF Booleans, CustomPasses
  <2>4. Others'
    <3>1. digest' \in {"none", "right", "page", "same", "other"}
      BY <1>5 DEF CustomPasses, Passes, Forced, Differs
    <3>2. waived' \subseteq waived \cup {"unread", "forced"}
      BY <1>5 DEF CustomPasses, Passes, Forced
    <3>. QED
      BY <1>5, <3>1, <3>2 DEF Others, CustomPasses
  <2>2. Requests'
    BY <1>5 DEF CustomPasses
  <2>3. Committed' /\ FolderIsNew'
    BY <1>5 DEF CustomPasses
  <2>. QED
    BY <2>1, <2>2, <2>3, <2>4 DEF Booleans, Others
<1>6. CASE CustomStops
  BY <1>6 DEF CustomStops, Differs
<1>7. CASE InstallCustomFiles
  BY <1>7 DEF InstallCustomFiles, Unzips, Zero
<1>8. CASE HekateChosen
  BY <1>8 DEF HekateChosen
<1>9. CASE InstallFirmware
  BY <1>9 DEF InstallFirmware
<1>10. CASE Finish
  BY <1>10 DEF Finish
<1>. QED
  BY <1>1, <1>2, <1>3, <1>4, <1>5, <1>6, <1>7, <1>8, <1>9, <1>10 DEF Apply

LEMMA FirmwareKeeps == IInv /\ Firmware => IInv'
<1> SUFFICES ASSUME IInv, Firmware PROVE IInv'
  OBVIOUS
<1> USE DEF IInv, TypeOK, Requests, RunsOnlyOnRequest, Committed, FolderIsNew,
    PackAt, FirmwareAt, AtRest, menu, file, disk
<1>1. CASE FirmwareChoice
  <2>1. Booleans'
    BY <1>1, Zenon DEF Booleans, FirmwareChoice, Break
  <2>4. Others'
    BY <1>1 DEF Others, FirmwareChoice, Break
  <2>2. Requests'
    BY <1>1 DEF FirmwareChoice, Break
  <2>3. Committed' /\ FolderIsNew'
    BY <1>1 DEF FirmwareChoice, Break
  <2>. QED
    BY <2>1, <2>2, <2>3, <2>4 DEF Booleans, Others
<1>2. CASE FirmwareAlone
  BY <1>2 DEF FirmwareAlone
<1>3. CASE FirmwareAloneFails
  <2>1. Booleans'
    BY <1>3, Zenon DEF Booleans, FirmwareAloneFails, Leave, Break
  <2>4. Others'
    BY <1>3 DEF Others, FirmwareAloneFails, Leave, Break
  <2>2. Requests'
    BY <1>3 DEF FirmwareAloneFails, Leave, Break
  <2>3. Committed' /\ FolderIsNew'
    BY <1>3 DEF FirmwareAloneFails, Leave, Break
  <2>. QED
    BY <2>1, <2>2, <2>3, <2>4 DEF Booleans, Others
<1>. QED
  BY <1>1, <1>2, <1>3 DEF Firmware

LEMMA StepKeeps == IInv /\ [Next]_vars => IInv'
<1> SUFFICES ASSUME IInv, [Next]_vars PROVE IInv'
  OBVIOUS
<1>1. CASE UNCHANGED vars \/ HekateAgain
  <2>1. UNCHANGED vars
    BY <1>1, Zenon DEF HekateAgain
  <2>2. Booleans'
    BY <2>1, Zenon DEF vars, menu, file, disk, Booleans, IInv, TypeOK
  <2>3. Others'
    BY <2>1 DEF vars, menu, file, disk, Others, IInv, TypeOK
  <2>4. Requests' /\ Committed' /\ FolderIsNew'
    BY <2>1, Zenon DEF vars, menu, file, disk, IInv, Requests, RunsOnlyOnRequest,
       Committed, FolderIsNew
  <2>. QED
    BY <2>2, <2>3, <2>4 DEF IInv, TypeOK, Booleans, Others
<1>. QED
  BY <1>1, LoopKeeps, MenuKeeps, BeforeKeeps,
     FetchKeeps, ApplyKeeps, FirmwareKeeps DEF Next

THEOREM Invariance == Spec => []IInv
BY InitHolds, StepKeeps, PTL DEF Spec

\* The variables hold what main() puts in them.
THEOREM TypeCorrect == Spec => []TypeOK
<1>1. IInv => TypeOK
  BY DEF IInv
<1>. QED
  BY <1>1, Invariance, PTL

\* An installation is under way only because the user asked for it.
THEOREM RunsOnlyOnRequestHolds == Spec => []RunsOnlyOnRequest
<1>1. IInv => RunsOnlyOnRequest
  BY DEF IInv, Requests
<1>. QED
  BY <1>1, Invariance, PTL

\* What comes back to the menu has removed nothing.
THEOREM NothingLostOnCancelHolds == Spec => []NothingLostOnCancel
<1>1. IInv => NothingLostOnCancel
  BY DEF IInv, Committed, NothingLostOnCancel
<1>. QED
  BY <1>1, Invariance, PTL

\* The firmware installed with a pack is not an earlier one.
THEOREM FirmwareOfThisPackHolds == Spec => []FirmwareOfThisPack
<1>1. IInv => FirmwareOfThisPack
  BY DEF IInv, FolderIsNew, FirmwareOfThisPack
<1>. QED
  BY <1>1, Invariance, PTL

-----------------------------------------------------------------------------
\* An empty digest has been explained before the file is compared with it, and
\* what passes that comparison is the published file or has an explanation.
Explained ==
  /\ pc \in {"download", "check", "custom_check"} /\ digest = "none" => waived # {}
  /\ VettedBeforeChange

\* The comparison lets pass the published file, or records why another one passes.
LEMMA PassesExplained ==
  ASSUME TypeOK, digest = "none" => waived # {}, Passes \/ Forced, temp = "bad"
  PROVE  waived' # {}
BY DEF Passes, Forced, Compare

LEMMA StepKeepsExplained == TypeOK /\ Explained /\ [Next]_vars => Explained'
<1> SUFFICES ASSUME TypeOK, Explained, [Next]_vars PROVE Explained'
  OBVIOUS
<1> USE DEF Explained, VettedBeforeChange, menu, file, disk
<1>1. CASE CheckPasses
  <2>1. temp' = "bad" => waived' # {}
    BY <1>1, PassesExplained DEF CheckPasses
  <2>. QED
    BY <1>1, <2>1 DEF CheckPasses
<1>2. CASE CustomPasses
  <2>1. temp' = "bad" => waived' # {}
    BY <1>2, PassesExplained DEF CustomPasses
  <2>. QED
    BY <1>2, <2>1 DEF CustomPasses
<1>3. CASE CheckStops \/ CustomStops
  BY <1>3 DEF CheckStops, CustomStops, Leave, Break
<1>4. CASE Loop \/ Menu
  BY <1>4 DEF Loop, Menu, ReadPad, ActAgain, PressA, SwitchMode, UpdateApp,
     DisableAutoconfig, CleaningReboot, Close
<1>5. CASE Before
  BY <1>5 DEF Before, Connect, NoInternet, AppIsOld, AppIsRecent, BatteryLow,
     BatteryFull, ExfatYes, ExfatNo, Questions, Confirm, Refuse, Leave, Break
<1>6. CASE SpaceMissing \/ DownloadFails
  BY <1>6 DEF SpaceMissing, DownloadFails, Leave, Break
<1>7. CASE SpaceFound \/ CustomFiles
  <2>1. digest' = "none" => waived' # {}
    BY <1>7 DEF SpaceFound, CustomFiles, FetchDigest
  <2>2. pc' \in {"download", "custom_check"}
    BY <1>7 DEF SpaceFound, CustomFiles, Downloaded
  <2>. QED
    BY <2>1, <2>2
<1>8. CASE Download
  BY <1>8 DEF Download, Downloaded
<1>9. CASE \/ Clean \/ InstallPack \/ NoCustomFiles
           \/ InstallCustomFiles \/ HekateChosen \/ InstallFirmware \/ Finish
  BY <1>9 DEF Clean, InstallPack, NoCustomFiles, InstallCustomFiles, HekateChosen,
     InstallFirmware, Finish
<1>10. CASE Firmware
  BY <1>10 DEF Firmware, FirmwareChoice, FirmwareAlone, FirmwareAloneFails, Leave, Break
<1>11. CASE HekateAgain \/ UNCHANGED vars
  BY <1>11 DEF HekateAgain, vars
<1>. QED
  BY <1>1, <1>2, <1>3, <1>4, <1>5, <1>6, <1>7, <1>8, <1>9, <1>10, <1>11
     DEF Next, Fetch, Apply

\* Whatever fails, another file than the one published is extracted only for one
\* of the four reasons VettedBeforeChange names.
THEOREM VettedBeforeChangeHolds == Spec => []VettedBeforeChange
<1>1. Init => Explained
  BY DEF Init, Explained, VettedBeforeChange
<1>2. TypeOK /\ Explained /\ [Next]_vars => Explained'
  BY StepKeepsExplained
<1>3. Explained => VettedBeforeChange
  BY DEF Explained
<1>. QED
  BY <1>1, <1>2, <1>3, TypeCorrect, PTL DEF Spec
=============================================================================
