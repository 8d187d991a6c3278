----------------------------- MODULE PackUpdate -----------------------------
(***************************************************************************)
(* The main loop of the application and its two installations, UP_CFW (the *)
(* pack) and UP_FW (the firmware): main() of source/main.cpp.              *)
(*                                                                         *)
(* Each pass of the loop reads the pad only if nothing is to be installed  *)
(* without being asked for: otherwise the buttons read last, or set by the *)
(* program, are acted on again.  The pack is downloaded, compared with its *)
(* published SHA-256, and extracted over an SD card that is cleaned first. *)
(*                                                                         *)
(* unzip() is taken by its result and what it leaves: see Unzip.           *)
(***************************************************************************)
EXTENDS Naturals

CONSTANTS
  Modes,    \* a subset of AllModes
  Faults    \* "internet": no connection; "download": interrupted, or altered
            \* by the server; "published": no address for a SHA-256; "fetch":
            \* it cannot be fetched; "digest": the file's own cannot be
            \* computed; "unzip", "short": see Unzips; "battery", "space",
            \* "old_app"

VARIABLES
  mode,     \* the autoconfiguration
  found,    \* pack_update_found
  pending,  \* pack_update_found_install
  pc,       \* where main() is
  opts,     \* the answers update_firmware and hekate_autoboot_enable
  temp,     \* what TEMP_FILE is
  digest,   \* what pack_sha256 holds, then how it compares with TEMP_FILE's
  fw,       \* what the firmware folder of the SD comes from
  pack,     \* what the SD has of the pack
  custom,   \* what the SD has of the custom files
  asked,    \* history: the installation under way was asked for
  waived,   \* history: why TEMP_FILE may be installed without having the
            \* published SHA-256
  wiped     \* history: files of the SD were removed

disk == <<fw, pack, custom, wiped>>
file == <<temp, digest, waived>>
menu == <<mode, found, pending>>
vars == <<menu, pc, opts, file, disk, asked>>

-----------------------------------------------------------------------------
\* No autoconfig.ini; one that leaves all functions; one that only installs.
AllModes == {"manual", "auto", "only"}

\* Where UP_CFW is, and UP_FW.
PackAt == {"connect", "app", "battery", "exfat", "questions", "confirm", "space",
           "download", "check", "clean", "unzip", "custom", "custom_check",
           "custom_unzip", "hekate", "firmware", "finished"}
FirmwareAt == {"fw_app", "fw_battery", "fw_choice", "fw_install", "fw_finished"}
AtRest == {"input", "exit", "reboot"}

\* The results of unzip(): "full" is 0 with everything in place, "short" is 0
\* with entries missing, "failed" is 1.
Unzips == (IF temp = "good" THEN {"full"} ELSE {"short"})
            \cup (IF "short" \in Faults THEN {"short"} ELSE {})
            \cup (IF "unzip" \in Faults THEN {"failed"} ELSE {})
Zero(res) == res \in {"full", "short"}

TypeOK ==
  /\ mode \in Modes \cup {"manual"}
  /\ found \in BOOLEAN /\ pending \in BOOLEAN
  /\ pc \in {"loop"} \cup PackAt \cup FirmwareAt \cup AtRest
  /\ opts \in [firmware : BOOLEAN, autoboot : BOOLEAN]
  /\ temp \in {"none", "good", "bad"}
  /\ digest \in {"none", "right", "page", "same", "other"}
  /\ waived \subseteq {"unpublished", "unfetched", "unread", "forced"}
  /\ fw \in {"none", "previous", "pack", "partial"}
  /\ pack \in {"previous", "full", "short", "failed"}
  /\ custom \in {"none", "full", "short", "failed"}
  /\ asked \in BOOLEAN /\ wiped \in BOOLEAN

\* After the start: without autoconfiguration the user may have accepted the
\* update that was found; with the third kind nothing is asked.
Init ==
  /\ mode \in Modes
  /\ found \in BOOLEAN
  /\ pending \in (IF mode = "only" THEN {FALSE} ELSE {FALSE, found})
  /\ asked = (pending \/ mode = "only")
  /\ pc = "loop"
  /\ opts = [firmware |-> FALSE, autoboot |-> FALSE]
  /\ temp = "none" /\ digest = "none" /\ waived = {}
  /\ fw \in {"none", "previous"}
  /\ pack = "previous" /\ custom = "none" /\ wiped = FALSE

-----------------------------------------------------------------------------
(* The loop. *)

\* Mutant of PadIsRead: the update that was found counts, not the answer.
PadIsReadIfNoneFound == mode # "only" /\ ~found

PadIsRead == mode # "only" /\ ~pending

ReadPad ==
  /\ pc = "loop"
  /\ PadIsRead
  /\ pc' = "input"
  /\ UNCHANGED <<menu, opts, file, disk, asked>>

\* The buttons of the previous pass are still set: [A] on UP_CFW.
ActAgain ==
  /\ pc = "loop"
  /\ ~PadIsRead
  /\ pc' = "connect"
  /\ UNCHANGED <<menu, opts, file, disk, asked>>

PressA ==
  /\ pc = "input"
  /\ pc' \in {"connect", "fw_app"}
  /\ asked' = TRUE
  /\ UNCHANGED <<menu, opts, file, disk>>

\* [-]: the other list of addresses; its newer application may be accepted, which
\* closes the program, or its newer pack.
SwitchMode ==
  /\ pc = "input"
  /\ \/ /\ "old_app" \in Faults
        /\ pc' = "exit"
        /\ temp' \in {"good", "bad"}
        /\ UNCHANGED <<found, pending, asked>>
     \/ /\ pc' = "loop"
        /\ temp' = "none"
        /\ found' \in BOOLEAN
        /\ pending' \in {FALSE, found'}
        /\ asked' = pending'
  /\ UNCHANGED <<mode, opts, digest, waived, disk>>

\* [A] on UP_APP: auto_update_app closes the program, or fails and removes what
\* it downloaded.
UpdateApp ==
  /\ pc = "input"
  /\ \/ pc' = "exit" /\ temp' \in {"good", "bad"}
     \/ pc' = "loop" /\ temp' = "none"
  /\ UNCHANGED <<menu, opts, digest, waived, disk, asked>>

\* L+ZR removes autoconfig.ini.
DisableAutoconfig ==
  /\ pc = "input"
  /\ mode = "auto"
  /\ mode' = "manual"
  /\ pc' = "loop"
  /\ UNCHANGED <<found, pending, opts, file, disk, asked>>

\* ZL+ZR.
CleaningReboot ==
  /\ pc = "input"
  /\ pc' = "reboot"
  /\ UNCHANGED <<menu, opts, file, disk, asked>>

\* [+], or R+ZL after which the application closes; or, at the top of any pass,
\* the system asks the application to close.
Close ==
  /\ pc \in {"input", "loop"}
  /\ pc' = "exit"
  /\ UNCHANGED <<menu, opts, file, disk, asked>>

\* Mutant of Break: pack_update_found_install keeps its value.
BreakForgets ==
  /\ pc' = "loop"
  /\ asked' = FALSE
  /\ UNCHANGED menu

\* break, where it is preceded by pack_update_found_install = false, or in UP_FW,
\* which the menu enters with nothing pending.
Break ==
  /\ pc' = "loop"
  /\ pending' = FALSE
  /\ asked' = FALSE
  /\ UNCHANGED <<mode, found>>

\* Where a function that gives up or is refused goes.
Leave == IF mode = "only" THEN pc' = "exit" /\ UNCHANGED <<menu, asked>> ELSE Break

-----------------------------------------------------------------------------
(* UP_CFW: what is checked and asked before anything is changed. *)

Connect ==
  /\ pc = "connect"
  /\ pc' = "app"
  /\ UNCHANGED <<menu, opts, file, disk, asked>>

\* internet_is_connected() fails: the break leaves pack_update_found_install, and
\* an update that was accepted is still to be installed.
NoInternet ==
  /\ pc = "connect"
  /\ "internet" \in Faults
  /\ pc' = "loop"
  /\ asked' = pending
  /\ UNCHANGED <<menu, opts, file, disk>>

\* A newer application has to be installed first: the user refuses, or
\* auto_update_app closes the program, or it fails and the installation goes on.
AppIsOld ==
  /\ pc \in {"app", "fw_app"}
  /\ "old_app" \in Faults
  /\ \/ Leave /\ UNCHANGED temp
     \/ pc' = "exit" /\ temp' \in {"good", "bad"} /\ UNCHANGED <<menu, asked>>
     \/ /\ pc' = IF pc = "app" THEN "battery" ELSE "fw_battery"
        /\ temp' = "none"
        /\ UNCHANGED <<menu, asked>>
  /\ UNCHANGED <<opts, digest, waived, disk>>

AppIsRecent ==
  /\ pc \in {"app", "fw_app"}
  /\ pc' = IF pc = "app" THEN "battery" ELSE "fw_battery"
  /\ UNCHANGED <<menu, opts, file, disk, asked>>

BatteryLow ==
  /\ pc \in {"battery", "fw_battery"}
  /\ "battery" \in Faults
  /\ Leave
  /\ UNCHANGED <<opts, file, disk>>

BatteryFull ==
  /\ pc \in {"battery", "fw_battery"}
  /\ pc' = IF pc = "battery" THEN "exfat" ELSE "fw_choice"
  /\ UNCHANGED <<menu, opts, file, disk, asked>>

\* The card is in exFAT: the break is the same in every mode.
ExfatYes ==
  /\ pc = "exfat"
  /\ Break
  /\ UNCHANGED <<opts, file, disk>>

ExfatNo ==
  /\ pc = "exfat"
  /\ pc' = "questions"
  /\ UNCHANGED <<menu, opts, file, disk, asked>>

\* The options, from the user or from autoconfig.ini.  If there is no update of
\* the pack, the third mode offers the firmware alone.
Questions ==
  /\ pc = "questions"
  /\ opts' \in [firmware : BOOLEAN, autoboot : BOOLEAN]
  /\ pc' \in {"confirm"} \cup (IF mode = "only" /\ ~found THEN {"fw_app"} ELSE {})
  /\ UNCHANGED <<menu, file, disk, asked>>

\* Mutant of Confirm: the card is cleaned before the download.
ConfirmAndClean ==
  /\ pc = "confirm"
  /\ pc' = "space"
  /\ wiped' = TRUE
  /\ UNCHANGED <<menu, opts, file, fw, pack, custom, asked>>

Confirm ==
  /\ pc = "confirm"
  /\ pc' = "space"
  /\ UNCHANGED <<menu, opts, file, disk, asked>>

Refuse ==
  /\ pc = "confirm"
  /\ Leave
  /\ UNCHANGED <<opts, file, disk>>

-----------------------------------------------------------------------------
(* UP_CFW: the download. *)

SpaceMissing ==
  /\ pc = "space"
  /\ "space" \in Faults
  /\ Leave
  /\ UNCHANGED <<opts, file, disk>>

\* get_last_sha256_pack: no address, a request that fails and an empty line leave
\* the same empty digest; the error page of a server is taken for a digest.
FetchDigest ==
  \/ digest' = "right" /\ waived' = {}
  \/ "published" \in Faults /\ digest' = "none" /\ waived' = {"unpublished"}
  \/ "fetch" \in Faults /\ digest' = "none" /\ waived' = {"unfetched"}
  \/ "fetch" \in Faults /\ digest' = "page" /\ waived' = {}

SpaceFound ==
  /\ pc = "space"
  /\ FetchDigest
  /\ pc' = "download"
  /\ UNCHANGED <<menu, opts, temp, disk, asked>>

\* downloadFile() reports what curl reports; what it got may still be another
\* file than the one published.
Downloaded(next) ==
  /\ temp' \in {"good"} \cup (IF "download" \in Faults THEN {"bad"} ELSE {})
  /\ pc' = next

Download ==
  /\ pc = "download"
  /\ Downloaded("check")
  /\ UNCHANGED <<menu, opts, digest, waived, disk, asked>>

\* Mutant of DownloadFails: what was downloaded stays.
DownloadFailsAndStays ==
  /\ pc = "download"
  /\ "download" \in Faults
  /\ temp' = "partial"
  /\ Leave
  /\ UNCHANGED <<opts, digest, waived, disk>>

DownloadFails ==
  /\ pc = "download"
  /\ "download" \in Faults
  /\ temp' = "none"
  /\ Leave
  /\ UNCHANGED <<opts, digest, waived, disk>>

\* Mutant of Compare: the result of the comparison is inverted.
CompareInverted == IF digest = "right" /\ temp = "good" THEN "other" ELSE "same"

Compare == IF digest = "right" /\ temp = "good" THEN "same" ELSE "other"

\* An empty digest is not compared.  strcmp_ignore_case stops at the end of the
\* shorter string: the empty digest of a file that cannot be opened is the same
\* as any other.
Passes ==
  \/ digest = "none" /\ UNCHANGED <<digest, waived>>
  \/ digest # "none" /\ Compare = "same" /\ digest' = "same" /\ UNCHANGED waived
  \/ /\ digest # "none" /\ "digest" \in Faults
     /\ digest' = "same" /\ waived' = waived \cup {"unread"}

\* A file that cannot be read to its end has another digest.
Differs ==
  /\ digest # "none"
  /\ Compare = "other" \/ "digest" \in Faults
  /\ digest' = "other"

\* lng_ask_force_error_with_sha256, answered yes.
Forced == Differs /\ waived' = waived \cup {"forced"}

CheckPasses ==
  /\ pc = "check"
  /\ Passes \/ Forced
  /\ pc' = "clean"
  /\ UNCHANGED <<menu, opts, temp, disk, asked>>

CheckStops ==
  /\ pc = "check"
  /\ Differs
  /\ temp' = "none"
  /\ Leave
  /\ UNCHANGED <<opts, waived, disk>>

-----------------------------------------------------------------------------
(* UP_CFW: the installation. *)

\* Mutant of Clean: the firmware folder is kept.
CleanKeepsFirmware ==
  /\ pc = "clean"
  /\ wiped' = TRUE
  /\ pc' = "unzip"
  /\ UNCHANGED <<menu, opts, file, fw, pack, custom, asked>>

\* clean_sd removes, with what older packs left, the firmware folder.
Clean ==
  /\ pc = "clean"
  /\ fw' = "none"
  /\ wiped' = TRUE
  /\ pc' = "unzip"
  /\ UNCHANGED <<menu, opts, file, pack, custom, asked>>

\* The firmware folder is part of the pack.
InstallPack ==
  /\ pc = "unzip"
  /\ \E res \in Unzips :
       /\ pack' = res
       /\ fw' \in IF res = "full" THEN {"pack"} ELSE {fw, "partial", "pack"}
       /\ IF Zero(res) THEN temp' = "none" /\ pc' = "custom"
                       ELSE UNCHANGED temp /\ pc' = "hekate"
  /\ UNCHANGED <<menu, opts, digest, waived, custom, wiped, asked>>

\* No address of custom files is configured, or their download fails.
NoCustomFiles ==
  /\ pc = "custom"
  /\ pc' = "hekate"
  /\ temp' \in {"none"} \cup (IF "download" \in Faults THEN {"bad"} ELSE {})
  /\ UNCHANGED <<menu, opts, digest, waived, disk, asked>>

CustomFiles ==
  /\ pc = "custom"
  /\ Downloaded("custom_check")
  /\ FetchDigest
  /\ UNCHANGED <<menu, opts, disk, asked>>

CustomPasses ==
  /\ pc = "custom_check"
  /\ Passes \/ Forced
  /\ pc' = "custom_unzip"
  /\ UNCHANGED <<menu, opts, temp, disk, asked>>

CustomStops ==
  /\ pc = "custom_check"
  /\ Differs
  /\ temp' = "none"
  /\ pc' = "hekate"
  /\ UNCHANGED <<menu, opts, waived, disk, asked>>

InstallCustomFiles ==
  /\ pc = "custom_unzip"
  /\ \E res \in Unzips :
       /\ custom' = res
       /\ temp' = IF Zero(res) THEN "none" ELSE temp
  /\ pc' = "hekate"
  /\ UNCHANGED <<menu, opts, digest, waived, fw, pack, wiped, asked>>

\* The loop on hekate_config_choice_menu ends with a choice; [B] starts it
\* again.
HekateAgain ==
  /\ pc = "hekate"
  /\ opts.autoboot
  /\ UNCHANGED vars

HekateChosen ==
  /\ pc = "hekate"
  /\ pc' = IF opts.firmware THEN "firmware" ELSE "finished"
  /\ UNCHANGED <<menu, opts, file, disk, asked>>

\* fnc_install_firmware, whose result is not looked at.
InstallFirmware ==
  /\ pc = "firmware"
  /\ pc' = "finished"
  /\ UNCHANGED <<menu, opts, file, disk, asked>>

\* "Finished!", five seconds, aply_reboot.
Finish ==
  /\ pc \in {"finished", "fw_finished"}
  /\ pc' = "reboot"
  /\ UNCHANGED <<menu, opts, file, disk, asked>>

-----------------------------------------------------------------------------
(* UP_FW. *)

FirmwareChoice ==
  /\ pc = "fw_choice"
  /\ \/ pc' = "fw_install" /\ UNCHANGED <<menu, asked>>
     \/ mode # "only" /\ Break
  /\ UNCHANGED <<opts, file, disk>>

\* The folder exists and daybreak_main returns true: then the card is cleaned.
FirmwareAlone ==
  /\ pc = "fw_install"
  /\ fw # "none"
  /\ wiped' = TRUE
  /\ pc' = "fw_finished"
  /\ UNCHANGED <<menu, opts, file, fw, pack, custom, asked>>

FirmwareAloneFails ==
  /\ pc = "fw_install"
  /\ Leave
  /\ UNCHANGED <<opts, file, disk>>

-----------------------------------------------------------------------------
Loop == ReadPad \/ ActAgain
Menu == \/ PressA \/ SwitchMode \/ UpdateApp \/ DisableAutoconfig
        \/ CleaningReboot \/ Close
Before == \/ Connect \/ NoInternet \/ AppIsOld \/ AppIsRecent \/ BatteryLow
          \/ BatteryFull \/ ExfatYes \/ ExfatNo \/ Questions \/ Confirm \/ Refuse
Fetch == \/ SpaceMissing \/ SpaceFound \/ Download \/ DownloadFails
         \/ CheckPasses \/ CheckStops
Apply == \/ Clean \/ InstallPack \/ NoCustomFiles \/ CustomFiles \/ CustomPasses
         \/ CustomStops \/ InstallCustomFiles \/ HekateChosen
         \/ InstallFirmware \/ Finish
Firmware == FirmwareChoice \/ FirmwareAlone \/ FirmwareAloneFails

Next == Loop \/ Menu \/ Before \/ Fetch \/ Apply \/ HekateAgain \/ Firmware

Spec == Init /\ [][Next]_vars

\* The program never stops on its own, questions are answered one way or the
\* other, and a configuration of Hekate is chosen in the end.
FairSpec == Spec /\ WF_vars(Loop \/ Before \/ Fetch \/ Apply \/ Firmware)

\* Besides, a connection that is tried again and again is there in the end.
PatientSpec == FairSpec /\ SF_vars(Connect)

-----------------------------------------------------------------------------
\* Where there is a menu, an installation that was refused or gave up is started
\* again only when the user asks: the buttons that are not read again
\* (main.cpp:2088) and the update offered at the start (2063) count once.
RunsOnlyOnRequest == mode # "only" /\ pc \in PackAt \cup FirmwareAt => asked

\* An installation that comes back to the menu or closes the application has
\* removed nothing from the card: whatever can be refused, or fail before the
\* extraction, comes before the first removal (main.cpp:2796).
NothingLostOnCancel == pc \in {"loop", "input", "exit"} => ~wiped

\* Another file than the one published is extracted, or the card cleaned for
\* it, only if one of four things happened: no SHA-256 is published; the
\* published one could not be fetched, which leaves it empty (main.cpp:395-400,
\* 2768); the SHA-256 of the file could not be computed, and its empty string
\* compares equal (main_util.c:108); the user insisted (2779, 2842).  An error
\* page in the place of the digest is not one of them, and the digest of the
\* pack is not an excuse for the custom files.
VettedBeforeChange ==
  pc \in {"clean", "unzip", "custom_unzip"} /\ temp = "bad" => waived # {}

\* Where a SHA-256 is published, it is verified before anything is changed, and
\* only the user may pass over a difference.
PublishedIsVerified ==
  pc \in {"clean", "unzip", "custom_unzip"} /\ temp = "bad"
    => waived \cap {"unpublished", "forced"} # {}

\* The firmware installed with a pack is not the one an earlier pack left
\* (unzip.cpp:351 against main.cpp:2907).
FirmwareOfThisPack == pc = "firmware" => fw # "previous"

\* Where there is a menu, and whatever is refused or fails, UP_CFW ends with the
\* user in it, out of the application, or with the console rebooted: no way out
\* of main.cpp:2398-2911 leaves the program acting on old buttons for ever.
ComesBack == (pc = "connect" /\ mode # "only") ~> pc \in AtRest
=============================================================================
