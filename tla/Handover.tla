------------------------------ MODULE Handover ------------------------------
(***************************************************************************)
(* How a pack reaches the files in use.  The application cannot replace    *)
(* the files of the running system: it leaves them under ".temp" names,    *)
(* sets a flag and reboots into its own payload, ams_rcm, which renames    *)
(* them and reboots.  A Mariko console can only boot "payload.bin": there  *)
(* ams_rcm takes the place of the bootloader, which waits under            *)
(* "payload.bin.temp" for ams_rcm to put it back.                          *)
(*                                                                         *)
(* Three programs share the SD card and nothing else: the application      *)
(* (source/main.cpp, unzip.cpp), ams_rcm (amssu-rcm/source) and whatever   *)
(* payload.bin holds.  The power can be cut between any two steps.         *)
(***************************************************************************)
EXTENDS Integers, Sequences

CONSTANTS
  Versions,   \* packs; also what an intact file of a pack holds
  None,       \* no such file
  Damaged,    \* opened for writing and empty or truncated
  AmsRcm,     \* the contents of romfs:/payload/ams_rcm.bin
  Kinds,      \* the consoles considered, a subset of ConsoleKinds
  PackFiles,  \* the files of a pack, in the order of the archive
  Verify,     \* pack_files_in_zip_sha256_verify_before_copy_param
  Optional,   \* bootloader payloads the card may not have
  Installs,   \* bound: how many packs are installed
  MaxTrouble, \* bound: how many times something goes wrong
  Cards,      \* what bootloader/ may hold: several emuNANDs, TRUE or FALSE
  Faults      \* what may go wrong: "cut", "extract", "disk", "nand", "minerva"

VARIABLES
  cur,      \* the file of each name
  tmp,      \* the same name followed by ".temp"
  flag,     \* called_via_AIO_LS_pack_Updater exists
  kind,     \* the console
  several,  \* bootloader/ describes several emuNANDs
  pc,       \* which program runs, and where it is
  k,        \* its place in PackFiles, or in Script
  pack,     \* the pack being installed, or the last one
  installs, \* how many were started
  trouble,  \* history: how many times something went wrong
  clean,    \* history: nothing went wrong since the last pack was started
  card_failed \* history: a write to the card failed

vars == <<cur, tmp, flag, kind, several, pc, k, pack, installs, trouble, clean, card_failed>>
history == <<trouble, clean, card_failed>>

-----------------------------------------------------------------------------
\* "patched": an Erista console with a modchip, which the application takes
\* for an Erista and ams_rcm for a console that has to be power cycled.
ConsoleKinds == {"erista", "patched", "mariko"}

System == {"stratosphere", "package3", "nro"}
Payloads == {"update", "reboot"}
Slots == System \cup {"payload"}
Nodes == Versions \cup {None, Damaged, AmsRcm}
Files == Nodes \ {None}

\* Mutant of Script: the bootloader is put back before it is updated.
ScriptRenamesFirst == <<[op |-> "rename", file |-> "stratosphere"],
                        [op |-> "rename", file |-> "package3"],
                        [op |-> "rename", file |-> "nro"],
                        [op |-> "rename", file |-> "payload"],
                        [op |-> "copy",   file |-> "update"],
                        [op |-> "copy",   file |-> "reboot"]>>

\* What ams_rcm does when it finds the flag, in order.
Script == <<[op |-> "rename", file |-> "stratosphere"],
            [op |-> "rename", file |-> "package3"],
            [op |-> "rename", file |-> "nro"],
            [op |-> "copy",   file |-> "update"],
            [op |-> "copy",   file |-> "reboot"],
            [op |-> "rename", file |-> "payload"]>>

AppAt == {"extract", "writing", "aply", "arm", "arming", "flag", "leave"}
RcmAt == {"choose", "rcm", "menu", "promote", "copying", "message", "auto_reboot"}

ASSUME ValuesAreDistinct ==
  /\ None \notin Versions /\ Damaged \notin Versions /\ AmsRcm \notin Versions
  /\ None # Damaged /\ None # AmsRcm /\ Damaged # AmsRcm
  /\ Versions # {}

ASSUME ParametersAreTyped ==
  /\ Kinds \subseteq ConsoleKinds
  /\ Cards \subseteq BOOLEAN
  /\ PackFiles \in Seq(Slots \cup Payloads)
  /\ Verify \in BOOLEAN
  /\ Optional \subseteq Payloads
  /\ Installs \in Nat /\ MaxTrouble \in Nat

TypeOK ==
  /\ cur \in [Slots \cup Payloads -> Nodes]
  /\ tmp \in [Slots -> Nodes]
  /\ flag \in BOOLEAN
  /\ kind \in Kinds
  /\ several \in Cards
  /\ pc \in {"off", "hos", "dead"} \cup AppAt \cup RcmAt
  /\ k \in 1..(Len(PackFiles) + Len(Script) + 1)
  /\ pack \in Versions \cup {None}
  /\ installs \in 0..Installs
  /\ trouble \in 0..MaxTrouble
  /\ clean \in BOOLEAN
  /\ card_failed \in BOOLEAN

Init ==
  /\ \E v \in Versions : \E absent \in SUBSET Optional :
       cur = [f \in Slots \cup Payloads |-> IF f \in absent THEN None ELSE v]
  /\ tmp = [f \in Slots |-> None]
  /\ flag = FALSE
  /\ kind \in Kinds
  /\ several \in Cards
  /\ pc = "hos"
  /\ k = 1
  /\ pack = None
  /\ installs = 0
  /\ trouble = 0
  /\ clean = TRUE
  /\ card_failed = FALSE

Trouble(fault) ==
  /\ fault \in Faults
  /\ trouble < MaxTrouble
  /\ trouble' = trouble + 1
  /\ clean' = FALSE
  /\ card_failed' = (card_failed \/ fault = "disk")

\* Where ams_rcm starts: with several emuNANDs, in the menu that asks for one.
RcmStarts == IF several THEN "choose" ELSE "rcm"

-----------------------------------------------------------------------------
(* The application. *)

\* The application can be started: the system came up and the nro is whole.
AppRuns == pc = "hos" /\ cur["nro"] \in Versions

\* UP_CFW reaches unzip().
Install ==
  /\ AppRuns
  /\ installs < Installs
  /\ installs' = installs + 1
  /\ pack' \in Versions
  /\ clean' = TRUE
  /\ pc' = "extract"
  /\ k' = 1
  /\ UNCHANGED <<cur, tmp, flag, kind, several, trouble, card_failed>>

\* aply_reboot without a pack: the ZL+ZR keys, or the end of a firmware update.
CleaningReboot ==
  /\ AppRuns
  /\ pc' = "aply"
  /\ UNCHANGED <<cur, tmp, flag, kind, several, k, pack, installs, history>>

\* The file under the final name is already the one of the pack; what is
\* staged beside it is not looked at.
Identical(f) == Verify /\ cur[f] = pack

ExtractSkip ==
  /\ pc = "extract" /\ k <= Len(PackFiles)
  /\ Identical(PackFiles[k])
  /\ k' = k + 1
  /\ UNCHANGED <<cur, tmp, flag, kind, several, pc, pack, installs, history>>

\* Only the three files of System are written under a ".temp" name.
Write(f, c) ==
  IF f \in System THEN tmp' = [tmp EXCEPT ![f] = c] /\ UNCHANGED cur
                  ELSE cur' = [cur EXCEPT ![f] = c] /\ UNCHANGED tmp

ExtractOpen ==
  /\ pc = "extract" /\ k <= Len(PackFiles)
  /\ ~Identical(PackFiles[k])
  /\ Write(PackFiles[k], Damaged)
  /\ pc' = "writing"
  /\ UNCHANGED <<flag, kind, several, k, pack, installs, history>>

ExtractWrite ==
  /\ pc = "writing"
  /\ Write(PackFiles[k], pack)
  /\ pc' = "extract"
  /\ k' = k + 1
  /\ UNCHANGED <<flag, kind, several, pack, installs, history>>

\* unzip() returns 1 with the file left as it is; its result only decides
\* whether the custom files are downloaded, and the reboot follows.
ExtractGivesUp ==
  /\ pc = "writing"
  /\ Trouble("extract")
  /\ pc' = "aply"
  /\ UNCHANGED <<cur, tmp, flag, kind, several, k, pack, installs>>

ExtractEnds ==
  /\ pc = "extract" /\ k > Len(PackFiles)
  /\ pc' = "aply"
  /\ UNCHANGED <<cur, tmp, flag, kind, several, k, pack, installs, history>>

-----------------------------------------------------------------------------
\* Mutant of Saved: payload.bin is saved whatever was saved before.
NeverSaved == FALSE

\* force_reboot on a Mariko console, rebootAms_rcm on the others.
Saved == tmp["payload"] # None

\* Mutant of SavePayload: the flag is created before the swap.
SavePayloadFlagFirst ==
  /\ pc = "aply"
  /\ IF kind = "mariko" /\ ~Saved
     THEN /\ tmp' = [tmp EXCEPT !["payload"] = cur["payload"]]
          /\ cur' = [cur EXCEPT !["payload"] = None]
          /\ pc' = "arm"
     ELSE pc' = "flag" /\ UNCHANGED <<cur, tmp>>
  /\ flag' = TRUE
  /\ UNCHANGED <<kind, several, k, pack, installs, history>>

\* rename("/payload.bin", "/payload.bin.temp")
SavePayload ==
  /\ pc = "aply"
  /\ IF kind = "mariko" /\ ~Saved
     THEN /\ tmp' = [tmp EXCEPT !["payload"] = cur["payload"]]
          /\ cur' = [cur EXCEPT !["payload"] = None]
          /\ pc' = "arm"
     ELSE pc' = "flag" /\ UNCHANGED <<cur, tmp>>
  /\ UNCHANGED <<flag, kind, several, k, pack, installs, history>>

\* Its result is not looked at: ams_rcm is then written over the bootloader.
SaveFails ==
  /\ pc = "aply" /\ kind = "mariko" /\ ~Saved
  /\ Trouble("disk")
  /\ pc' = "arm"
  /\ UNCHANGED <<cur, tmp, flag, kind, several, k, pack, installs>>

\* custom_cp of ams_rcm.bin: fopen(..., "wb"), then the loop.
ArmOpen ==
  /\ pc = "arm"
  /\ cur' = [cur EXCEPT !["payload"] = Damaged]
  /\ pc' = "arming"
  /\ UNCHANGED <<tmp, flag, kind, several, k, pack, installs, history>>

ArmWrite ==
  /\ pc = "arming"
  /\ cur' = [cur EXCEPT !["payload"] = AmsRcm]
  /\ pc' = "flag"
  /\ UNCHANGED <<tmp, flag, kind, several, k, pack, installs, history>>

\* Its result is not looked at.
ArmFails ==
  /\ pc \in {"arm", "arming"}
  /\ Trouble("disk")
  /\ pc' = "flag"
  /\ UNCHANGED <<cur, tmp, flag, kind, several, k, pack, installs>>

\* Mutant of SetFlag: create_empty_file fails.
SetFlagForgotten ==
  /\ pc = "flag"
  /\ pc' = "leave"
  /\ UNCHANGED <<cur, tmp, flag, kind, several, k, pack, installs, history>>

SetFlag ==
  /\ pc = "flag"
  /\ flag' = TRUE
  /\ pc' = "leave"
  /\ UNCHANGED <<cur, tmp, kind, several, k, pack, installs, history>>

\* create_empty_file failed, which nobody looks at.
FlagNotSet ==
  /\ pc = "flag"
  /\ Trouble("disk")
  /\ pc' = "leave"
  /\ UNCHANGED <<cur, tmp, flag, kind, several, k, pack, installs>>

\* appletRequestToReboot, or the jump into the payload held in memory.
Leave ==
  /\ pc = "leave"
  /\ pc' = IF kind = "mariko" THEN "off" ELSE RcmStarts
  /\ UNCHANGED <<cur, tmp, flag, kind, several, k, pack, installs, history>>

-----------------------------------------------------------------------------
\* What runs when a payload is launched.  The system needs package3 and
\* stratosphere; a damaged or missing payload leaves a console that only a
\* computer can repair.
Launch(c) ==
  CASE c = AmsRcm -> RcmStarts
    [] c \in Versions /\ cur["package3"] \in Versions
                      /\ cur["stratosphere"] \in Versions -> "hos"
    [] OTHER -> "dead"

\* Power on.  Without a modchip the bootloader is injected from outside.
Boot ==
  /\ pc = "off"
  /\ IF kind = "erista" THEN \E v \in Versions : pc' = Launch(v)
                        ELSE pc' = Launch(cur["payload"])
  /\ UNCHANGED <<cur, tmp, flag, kind, several, k, pack, installs, history>>

PowerCut ==
  /\ pc \notin {"off", "dead"}
  /\ Trouble("cut")
  /\ pc' = "off"
  /\ UNCHANGED <<cur, tmp, flag, kind, several, k, pack, installs>>

-----------------------------------------------------------------------------
(* ams_rcm. *)

\* select_and_apply_emunand: the user picks an emuNAND, which nothing depends on
\* here.
ChooseEmunand ==
  /\ pc = "choose"
  /\ pc' = "rcm"
  /\ UNCHANGED <<cur, tmp, flag, kind, several, k, pack, installs, history>>

\* Mutant of ReadFlag: the list is entered one place too early.
ReadFlagFromZero ==
  /\ pc = "rcm"
  /\ flag' = FALSE
  /\ IF flag THEN pc' = "promote" /\ k' = 0
             ELSE pc' = "menu" /\ UNCHANGED k
  /\ UNCHANGED <<cur, tmp, kind, several, pack, installs, history>>

\* init_payload looks for the flag and removes it before it acts on it.  "menu"
\* includes the messages that may come before the menu.
ReadFlag ==
  /\ pc = "rcm"
  /\ flag' = FALSE
  /\ IF flag THEN pc' = "promote" /\ k' = 1
             ELSE pc' = "menu" /\ UNCHANGED k
  /\ UNCHANGED <<cur, tmp, kind, several, pack, installs, history>>

\* f_unlink failed: the flag is obeyed all the same, and once more later.
FlagNotRemoved ==
  /\ pc = "rcm" /\ flag
  /\ Trouble("disk")
  /\ pc' = "promote"
  /\ k' = 1
  /\ UNCHANGED <<cur, tmp, flag, kind, several, pack, installs>>

At(op) == pc = "promote" /\ k <= Len(Script) /\ Script[k].op = op
File == Script[k].file

\* Mutant of RenameNothing: the file is waited for.
RenameWaits ==
  /\ At("rename")
  /\ tmp[File] = None
  /\ UNCHANGED vars

\* easy_rename of a file that is not there.
RenameNothing ==
  /\ At("rename")
  /\ tmp[File] = None
  /\ k' = k + 1
  /\ UNCHANGED <<cur, tmp, flag, kind, several, pc, pack, installs, history>>

\* Mutant of RenameUnlink: the new name is removed before the old is looked for.
RenameUnlinkAlways ==
  /\ At("rename")
  /\ cur[File] # None
  /\ cur' = [cur EXCEPT ![File] = None]
  /\ UNCHANGED <<tmp, flag, kind, several, pc, k, pack, installs, history>>

\* easy_rename first removes the file that has the new name...
RenameUnlink ==
  /\ At("rename")
  /\ tmp[File] # None /\ cur[File] # None
  /\ cur' = [cur EXCEPT ![File] = None]
  /\ UNCHANGED <<tmp, flag, kind, several, pc, k, pack, installs, history>>

\* ... then renames.
RenameMove ==
  /\ At("rename")
  /\ tmp[File] # None /\ cur[File] = None
  /\ cur' = [cur EXCEPT ![File] = tmp[File]]
  /\ tmp' = [tmp EXCEPT ![File] = None]
  /\ k' = k + 1
  /\ UNCHANGED <<flag, kind, several, pc, pack, installs, history>>

\* The result of easy_rename is not looked at.
RenameFails ==
  /\ At("rename")
  /\ tmp[File] # None
  /\ Trouble("disk")
  /\ k' = k + 1
  /\ UNCHANGED <<cur, tmp, flag, kind, several, pc, pack, installs>>

\* The bootloader waiting under payload.bin.temp is overwritten by the one of
\* the pack, if there are both.
CopySkip ==
  /\ At("copy")
  /\ tmp["payload"] = None \/ cur[File] = None
  /\ k' = k + 1
  /\ UNCHANGED <<cur, tmp, flag, kind, several, pc, pack, installs, history>>

CopyOpen ==
  /\ At("copy")
  /\ tmp["payload"] # None /\ cur[File] # None
  /\ tmp' = [tmp EXCEPT !["payload"] = Damaged]
  /\ pc' = "copying"
  /\ UNCHANGED <<cur, flag, kind, several, k, pack, installs, history>>

CopyWrite ==
  /\ pc = "copying"
  /\ tmp' = [tmp EXCEPT !["payload"] = cur[File]]
  /\ pc' = "promote"
  /\ k' = k + 1
  /\ UNCHANGED <<cur, flag, kind, several, pack, installs, history>>

\* malloc, f_read or f_write failed: the result of f_copy is not looked at.
CopyFails ==
  /\ pc = "copying"
  /\ Trouble("disk")
  /\ pc' = "promote"
  /\ k' = k + 1
  /\ UNCHANGED <<cur, tmp, flag, kind, several, pack, installs>>

PromoteEnds ==
  /\ pc = "promote" /\ k > Len(Script)
  /\ pc' = "auto_reboot"
  /\ UNCHANGED <<cur, tmp, flag, kind, several, k, pack, installs, history>>

\* Messages that wait for a key: the keys of the NAND could not be derived, or
\* no NAND be read; the minerva module of Hekate could not be loaded.  Two of
\* them, one after the other, are taken as one.
Message ==
  /\ pc = "promote" /\ k > Len(Script)
  /\ \E fault \in {"nand", "minerva"} : Trouble(fault)
  /\ pc' = "message"
  /\ UNCHANGED <<cur, tmp, flag, kind, several, k, pack, installs>>

KeyPressed ==
  /\ pc = "message"
  /\ pc' = "auto_reboot"
  /\ UNCHANGED <<cur, tmp, flag, kind, several, k, pack, installs, history>>

\* The first of the three payloads that exists is launched; it is not checked.
AutoReboot ==
  /\ pc = "auto_reboot"
  /\ pc' = IF kind # "erista" THEN "off"
           ELSE IF cur["payload"] # None THEN Launch(cur["payload"])
           ELSE IF cur["update"] # None THEN Launch(cur["update"])
           ELSE Launch(cur["reboot"])
  /\ UNCHANGED <<cur, tmp, flag, kind, several, k, pack, installs, history>>

\* The user picks "Reboot to Hekate", "Reboot to Payload.bin" or
\* "reboot_payload.bin".
MenuLaunch ==
  /\ pc = "menu"
  /\ \E f \in Payloads \cup {"payload"} :
       cur[f] # None /\ pc' = Launch(cur[f])
  /\ UNCHANGED <<cur, tmp, flag, kind, several, k, pack, installs, history>>

\* "Power off" in the menu, simple_reboot or the power button in the system.
PowerOff ==
  /\ pc \in {"hos", "menu"}
  /\ pc' = "off"
  /\ UNCHANGED <<cur, tmp, flag, kind, several, k, pack, installs, history>>

-----------------------------------------------------------------------------
Extract == \/ ExtractSkip \/ ExtractOpen \/ ExtractWrite \/ ExtractGivesUp
           \/ ExtractEnds
ForceReboot == \/ SavePayload \/ SaveFails \/ ArmOpen \/ ArmWrite \/ ArmFails
               \/ SetFlag \/ FlagNotSet \/ Leave
EasyRename == RenameNothing \/ RenameUnlink \/ RenameMove \/ RenameFails
FCopy == CopySkip \/ CopyOpen \/ CopyWrite \/ CopyFails
Rcm == ReadFlag \/ FlagNotRemoved \/ EasyRename \/ FCopy \/ PromoteEnds \/ Message \/ AutoReboot
User == Install \/ CleaningReboot \/ ChooseEmunand \/ KeyPressed \/ MenuLaunch \/ PowerOff

Next == User \/ Extract \/ ForceReboot \/ Boot \/ Rcm \/ PowerCut

Spec == Init /\ [][Next]_vars

\* Each program runs alone on the console; the user owes nothing, but to power
\* the console on: no answer to a menu or a message of ams_rcm.
FairSpec == Spec /\ WF_vars(Extract \/ ForceReboot \/ Boot \/ Rcm)

-----------------------------------------------------------------------------
\* The bootloader a pack asks for.
Wanted == IF cur["reboot"] # None THEN cur["reboot"] ELSE cur["update"]

\* When nothing goes wrong, the system that comes up after an installation is
\* the one of that pack, all of it, and so is the bootloader of a Mariko console
\* when the pack has one (main.cpp:2915 to the renames of amssu-rcm/main.c:773).
HandoverCompletes ==
  pc = "hos" /\ pack # None /\ trouble = 0 =>
    /\ \A f \in System : cur[f] = pack
    /\ kind = "mariko" /\ Wanted # None => cur["payload"] = Wanted

\* The same, whatever went wrong before the pack was installed again and until
\* that succeeded.
LatestPackRuns ==
  pc = "hos" /\ pack # None /\ clean => \A f \in System : cur[f] = pack

\* ams_rcm is never taken for the bootloader to put back, and is never left as
\* payload.bin with nothing to put back in its place: what the test for an
\* existing payload.bin.temp in force_reboot (main.cpp:1005) is for.  It takes a
\* card that did not fail: the rename that saves the bootloader is not checked
\* before ams_rcm is written in its place (main.cpp:1009).
RcmIsTemporary ==
  \/ card_failed
  \/ /\ tmp["payload"] # AmsRcm
     /\ cur["payload"] = AmsRcm => tmp["payload"] # None

\* When a power cut leaves the console with no payload.bin it can boot, a whole
\* bootloader is beside it for the user to rename: the windows of main.cpp:1009
\* and of easy_rename never contain the only copy.  It takes a card that did
\* not fail and payloads of the pack that were not themselves cut short.
BootloaderBeside ==
  cur["payload"] \in {None, Damaged} /\ (\A f \in Payloads : cur[f] # Damaged)
    => tmp["payload"] \in Versions \/ card_failed

\* A Mariko console that reboots with the flag set starts ams_rcm, which is the
\* only program that acts on the flag (main.cpp:1012, amssu-rcm/main.c:767), if
\* the card did not fail.
FlagReachesRcm ==
  pc = "off" /\ kind = "mariko" /\ flag => cur["payload"] = AmsRcm \/ card_failed

\* The replacement of the files in use, the power cuts in its middle included,
\* is the one Swap specifies: they are lost by no step, and become exactly what
\* was staged.
Held == [s \in System |-> IF cur[s] = None THEN tmp[s] ELSE cur[s]]
Staged == [s \in System |-> IF cur[s] = None THEN None ELSE tmp[s]]
S == INSTANCE Swap WITH Slots <- System, Contents <- Versions \cup {Damaged},
                        held <- Held, staged <- Staged
ImplementsSwap == S!Spec

\* A reboot asked for by the application ends with the system started again, if
\* nothing went or goes wrong.  With several emuNANDs it does not do so on its
\* own: ams_rcm asks the user for one before it looks for the flag
\* (amssu-rcm/main.c:902, tools.c:221), and from that answer on it goes by itself.
BackInSystem ==
  /\ pc = "aply" ~> pc = (IF several THEN "choose" ELSE "hos") \/ trouble > 0
  /\ pc = "rcm" ~> pc = "hos" \/ trouble > 0

\* Whatever goes wrong, the programs come to rest in a place where the user
\* acts; no two of them start each other for ever.
ComesToRest == pc \in AppAt \cup {"off", "rcm", "promote", "copying", "auto_reboot"}
                 ~> pc \in {"hos", "choose", "menu", "message", "dead"}
=============================================================================
