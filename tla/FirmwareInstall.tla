---------------------------- MODULE FirmwareInstall ----------------------------
(***************************************************************************)
(* The installation of a firmware: fnc_install_firmware and the parts of   *)
(* main that call it (source/main.cpp), daybreak_main and its steps        *)
(* (source/firmwares_install/daybreak-cli.cpp).                            *)
(*                                                                         *)
(* daybreak_main was a program of its own and keeps what it learns in      *)
(* globals.  Here it is a function of a longer-lived program: the globals  *)
(* survive a call that was refused or failed, and the next call, for       *)
(* another firmware perhaps, starts from them.                             *)
(***************************************************************************)
EXTENDS Console, Integers

CONSTANTS
  Images,  \* the firmwares that can be in the folder, a subset of ImageType
  NoImage, \* none
  MaxCalls \* bound: how many times fnc_install_firmware is called

VARIABLES
  at,       \* where the application is
  caller,   \* the part of main that has called, or NoCaller
  image,    \* during a call, the contents of firmware_path or firmware_path_beta
  info,     \* m_update_info, by the image it describes
  has_info, \* m_has_info
  judged,   \* m_validation_info, by its image; NoImage until m_has_validated
  knows_supported, \* g_supported_version has been read
  use_exfat,       \* g_use_exfat
  need_clean,      \* need_clean_21_dg
  ask_dg,          \* ask_dg
  calls            \* how many times fnc_install_firmware was called

globals == <<info, has_info, judged, knows_supported, use_exfat, need_clean, ask_dg>>
app == <<at, caller, image, globals, calls>>

-----------------------------------------------------------------------------
\* exfat is what the validation says of the exFAT part: "newer" is one that
\* fails with a missing content of a version the console does not support.
ImageType == [generation : Generations, valid : BOOLEAN,
              exfat : {"none", "good", "broken", "newer"}]

ASSUME ImagesAreTyped == Images \subseteq ImageType /\ NoImage \notin ImageType

ASSUME CallsAreBounded == MaxCalls \in Nat

\* UP_FW from the menu, UP_FW in the mode that only installs, and UP_CFW.
Callers == {"UP_FW", "only", "UP_CFW"}
Installing == {"setup", "prepare", "apply"}
AppAt == {"closed", "menu", "open", "info", "validate", "verdict", "marker", "true", "false"}
         \cup Installing

AppTypeOK ==
  /\ at \in AppAt
  /\ caller \in Callers \cup {"none"}
  /\ image \in Images \cup {NoImage}
  /\ info \in Images \cup {NoImage}
  /\ has_info \in BOOLEAN
  /\ judged \in Images \cup {NoImage}
  /\ knows_supported \in BOOLEAN
  /\ use_exfat \in BOOLEAN
  /\ need_clean \in BOOLEAN
  /\ ask_dg \in BOOLEAN
  /\ calls \in 0..MaxCalls

\* A process starts with the initial values of its globals.
FreshGlobals ==
  /\ info' = NoImage
  /\ has_info' = FALSE
  /\ judged' = NoImage
  /\ knows_supported' = FALSE
  /\ use_exfat' = FALSE
  /\ need_clean' = FALSE
  /\ ask_dg' = FALSE

Closed ==
  /\ at' = "closed"
  /\ caller' = "none"
  /\ image' = NoImage
  /\ calls' = calls
  /\ FreshGlobals

AppInit ==
  /\ at = "closed"
  /\ caller = "none"
  /\ image = NoImage
  /\ info = NoImage
  /\ has_info = FALSE
  /\ judged = NoImage
  /\ knows_supported = FALSE
  /\ use_exfat = FALSE
  /\ need_clean = FALSE
  /\ ask_dg = FALSE
  /\ calls = 0

-----------------------------------------------------------------------------
\* The user starts the application, or leaves it.
Launch ==
  /\ at = "closed" /\ at' = "menu"
  /\ UNCHANGED <<caller, image, globals, calls, console>>

Leave ==
  /\ at = "menu"
  /\ Closed
  /\ UNCHANGED console

\* The folder can hold another firmware at each call: another pack was put
\* there, or switch_app_mode changed to the other of the two folders.
Call ==
  /\ at = "menu" /\ at' = "open"
  /\ calls < MaxCalls
  /\ calls' = calls + 1
  /\ caller' \in Callers
  /\ image' \in Images \cup {NoImage}
  /\ UNCHANGED <<globals, console>>

\* opendir finds no folder; or a check of daybreak_main or of
\* DaybreakInitializeMenu fails, before or after g_supported_version is read.
OpenFails ==
  /\ at = "open" /\ at' = "false"
  /\ knows_supported' \in {knows_supported, image # NoImage \/ knows_supported}
  /\ UNCHANGED <<caller, image, info, has_info, judged, use_exfat, need_clean, ask_dg, calls, console>>

\* A service that cannot be opened is fatal to the program.
OpenFatal ==
  /\ at = "open" /\ image # NoImage
  /\ Closed
  /\ UNCHANGED console

Opens ==
  /\ at = "open" /\ at' = "info"
  /\ image # NoImage
  /\ knows_supported' \in {knows_supported, TRUE}
  /\ UNCHANGED <<caller, image, info, has_info, judged, use_exfat, need_clean, ask_dg, calls, console>>

-----------------------------------------------------------------------------
\* GetUpdateInformation: only its success sets m_has_info, and only its
\* success or a downgrade sets need_clean_21_dg.
Downgrades == image.generation = "old" /\ system[here] = "new"

InfoFails ==
  /\ at = "info" /\ at' = "validate"
  /\ UNCHANGED <<caller, image, globals, calls, console>>

\* The user refuses the downgrade.
InfoRefused ==
  /\ at = "info" /\ at' = "validate"
  /\ Downgrades
  /\ info' = image
  /\ need_clean' = TRUE
  /\ ask_dg' = FALSE
  /\ UNCHANGED <<caller, image, has_info, judged, knows_supported, use_exfat, calls, console>>

\* Mutant of InfoFine: a downgrade the user accepts needs no cleaning.
InfoFineForgets ==
  /\ at = "info" /\ at' = "validate"
  /\ info' = image
  /\ has_info' = TRUE
  /\ need_clean' = FALSE
  /\ ask_dg' = (Downgrades \/ ask_dg)
  /\ UNCHANGED <<caller, image, judged, knows_supported, use_exfat, calls, console>>

\* No question is asked, or the user accepts.
InfoFine ==
  /\ at = "info" /\ at' = "validate"
  /\ info' = image
  /\ has_info' = TRUE
  /\ need_clean' = Downgrades
  /\ ask_dg' = (Downgrades \/ ask_dg)
  /\ UNCHANGED <<caller, image, judged, knows_supported, use_exfat, calls, console>>

\* daybreak_main validates once, when it has the information of a call, this
\* one or an earlier one.
Validates ==
  /\ at = "validate" /\ at' = "verdict"
  /\ has_info /\ judged = NoImage
  /\ judged' \in {image, NoImage}
  /\ UNCHANGED <<caller, image, info, has_info, knows_supported, use_exfat, need_clean, ask_dg,
                 calls, console>>

AlreadyValidated ==
  /\ at = "validate" /\ at' = "verdict"
  /\ ~has_info \/ judged # NoImage
  /\ UNCHANGED <<caller, image, globals, calls, console>>

\* What m_validation_info says.
Invalid == judged \notin {i \in Images : i.valid}
TooNew == knows_supported /\ judged.exfat = "newer"

VerdictBad ==
  /\ at = "verdict" /\ at' = "false"
  /\ Invalid
  /\ UNCHANGED <<caller, image, globals, calls, console>>

\* The exFAT driver is installed whenever it can be: the call asks for it and
\* never forces a firmware that is not supported.
Exfat == info # NoImage /\ info.exfat # "none" /\ judged.exfat = "good"

VerdictTooNew ==
  /\ at = "verdict" /\ at' = "false"
  /\ ~Invalid /\ TooNew
  /\ use_exfat' = Exfat
  /\ UNCHANGED <<caller, image, info, has_info, judged, knows_supported, need_clean, ask_dg,
                 calls, console>>

\* Mutant of VerdictGood: a firmware too new is installed all the same.
VerdictGoodAlways ==
  /\ at = "verdict" /\ at' = "setup"
  /\ ~Invalid
  /\ use_exfat' = Exfat
  /\ UNCHANGED <<caller, image, info, has_info, judged, knows_supported, need_clean, ask_dg,
                 calls, console>>

VerdictGood ==
  /\ at = "verdict" /\ at' = "setup"
  /\ ~Invalid /\ ~TooNew
  /\ use_exfat' = Exfat
  /\ UNCHANGED <<caller, image, info, has_info, judged, knows_supported, need_clean, ask_dg,
                 calls, console>>

-----------------------------------------------------------------------------
\* TransitionUpdateState: a failure of any step skips the others, and nothing
\* else: the marker is written and daybreak_main returns true all the same.
Transition(from, to) ==
  /\ at = from /\ at' = to
  /\ UNCHANGED <<caller, image, globals, calls>>

StepFails ==
  /\ \E s \in Installing : Transition(s, "marker")
  /\ UNCHANGED console

Setup == Transition("setup", "prepare") /\ UNCHANGED console

\* The loop on AwaitingPrepare ends with the preparation.
Prepare == Transition("prepare", "apply") /\ UNCHANGED console

Apply ==
  /\ Transition("apply", "marker")
  /\ system' = [system EXCEPT ![here] = image.generation]
  /\ UNCHANGED <<save, marker, flag, prog, here>>

\* The marker says which kind of NAND was running, not which NAND.
FixMarker(n) == IF n = SysNand THEN "fix_dg_sysnand" ELSE "fix_dg_emunand"

\* Mutant of WriteMarker: the two names are exchanged.
WriteMarkerSwapped ==
  /\ Transition("marker", "true")
  /\ marker' = IF need_clean
               THEN marker \cup {IF here # SysNand THEN "fix_dg_sysnand" ELSE "fix_dg_emunand"}
               ELSE marker
  /\ UNCHANGED <<system, save, flag, prog, here>>

WriteMarker ==
  /\ Transition("marker", "true")
  /\ marker' = IF need_clean THEN marker \cup {FixMarker(here)} ELSE marker
  /\ UNCHANGED <<system, save, flag, prog, here>>

\* create_empty_file fails and says nothing.
WriteMarkerFails ==
  /\ Transition("marker", "true")
  /\ need_clean /\ FixMarker(here) \notin marker
  /\ UNCHANGED console

-----------------------------------------------------------------------------
\* After a failure UP_FW goes on with the menu, or leaves the application in
\* the mode that only installs.
BackToMenu ==
  /\ at = "false" /\ at' = "menu"
  /\ caller = "UP_FW"
  /\ caller' = "none"
  /\ image' = NoImage
  /\ UNCHANGED <<globals, calls, console>>

BackOut ==
  /\ at = "false" /\ caller = "only"
  /\ Closed
  /\ UNCHANGED console

\* After a success, and from UP_CFW in any case, aply_reboot starts ams_rcm.
Reboot ==
  /\ at = "true" \/ (at = "false" /\ caller = "UP_CFW")
  /\ Closed
  /\ flag' = TRUE
  /\ prog' = "rcm"
  /\ UNCHANGED <<system, save, marker, here>>

\* What runs without the user once a firmware is chosen, questions included.
InstallStep ==
  \/ Opens \/ OpenFails \/ OpenFatal
  \/ InfoFine \/ InfoFails \/ InfoRefused
  \/ Validates \/ AlreadyValidated
  \/ VerdictBad \/ VerdictTooNew \/ VerdictGood
  \/ Setup \/ Prepare \/ Apply \/ StepFails
  \/ WriteMarker
  \/ BackToMenu \/ BackOut \/ Reboot

UserStep == Launch \/ Leave \/ Call
================================================================================
